----------------------------- MODULE Placement -----------------------------
(***************************************************************************)
(* One thread and its policy: a configuration is loaded, the policy of the *)
(* thread is resolved and applied (core/src/policy.rs, backend.rs), and    *)
(* applied again by every relock, one system call at a time, while the     *)
(* thread may end, Android may move it, it may set its own affinity, and   *)
(* CPUs go off and on line.                                                *)
(*                                                                         *)
(* The rules are dropped once the policy is resolved: apply_thread reads   *)
(* nothing else of them. Reloads are in ConfigReload and Tracker, the      *)
(* directories of /dev/cpuset in Tracker. Warnings are left out.           *)
(***************************************************************************)
EXTENDS Rules

CONSTANTS
    Configs,        \* the configurations, sets of applications
    Socs,           \* the systems on chip, their privileges and kernels
    Packages,       \* names of packages that may run
    ThreadNames,    \* names of their threads
    AndroidGroups,  \* CPUs of the cpusets Android moves threads to
    MaxIncidents    \* bound: changes from outside, failures of system calls

ASSUME PlacementAssumption ==
    /\ MaxIncidents \in Nat /\ Packages \subseteq Names
    /\ \A soc \in Socs :
          /\ soc.online # {} /\ soc.online \subseteq soc.present /\ soc.present \subseteq Cpus
          /\ DOMAIN soc.capacity \subseteq Cpus
          /\ {soc.cpuset, soc.privileged, soc.uclamp} \subseteq BOOLEAN
    /\ \A c \in Configs : IsFiniteSet(c) /\ \A app \in c : IsApplication(app)
    /\ \A cpus \in AndroidGroups : cpus \subseteq Cpus

Affinities == {"already", "applied", "downgraded"}
Refusals == {"cgroup", "esrch", "downgraded_failed", "einval", "eperm", "other"}
Reasons == Affinities \cup Refusals
           \cup {"cpuset_write_failed", "nice_failed", "sched_failed", "uclamp_failed"}
Outcomes == {"none", "Applied", "Exited", "BlockedByCgroup", "Downgraded",
             "BlockedByPerm", "EINVAL", "Failed", "SkippedNoCpus"}

VARIABLES
    topo,        \* the topology, found out once, as the daemon starts
    privileged, uclampSupported,   \* CAP_SYS_NICE; a kernel with uclamp
    config,      \* the configuration loaded
    rules,       \* what it was compiled to
    \* the kernel
    alive,       \* whether the thread exists
    group,       \* its cpuset: whether it is ours, and its CPUs
    mask,        \* its affinity
    online,      \* CPUs on line
    allowed,     \* whether the relock gate (decide_ctx) lets the process pass
    sched, nice, clamp,
    incidents,
    \* apply_thread
    pc,          \* the next system call
    policy,
    effective,   \* the CPUs the affinity is to be set to
    schedError,  \* ret of apply_sched
    outcome,
    audit,       \* reasons recorded by this application
    disturbed    \* history: the kernel's state was changed from outside since it began

\* What no application changes.
device == <<topo, privileged, uclampSupported, allowed>>
loaded == <<config, rules>>
kernel == <<alive, group, mask, online, sched, nice, clamp>>
vars == <<topo, privileged, uclampSupported, allowed, config, rules, alive, group, mask, online,
          sched, nice, clamp, incidents, pc, policy, effective, schedError, outcome,
          audit, disturbed>>

Normal == [kind |-> "other", prio |-> 0]
IsRt(s) == s.kind \in {"fifo", "rr"}
Clamped(n, low, high) == Max({low, Min({n, high})})
Incident == incidents < MaxIncidents /\ incidents' = incidents + 1
Record(reason) == audit' = audit \cup {reason}
\* An application has changed the kernel's state only as stated.
Untouched == UNCHANGED <<device, loaded, policy, disturbed>>

-----------------------------------------------------------------------------
(* The kernel, and what changes it from outside.                           *)

\* The CPUs of a cpuset that are on line, or all that are when none is.
Usable(cpus, up) == IF cpus \cap up # {} THEN cpus \cap up ELSE up

\* A thread that joins another cpuset gets its CPUs for an affinity.
JoinOurs(cpus) ==
    /\ alive /\ cpus \cap online # {}
    /\ group' = [ours |-> TRUE, cpus |-> cpus]
    /\ mask' = IF group' = group THEN mask ELSE cpus \cap online
    /\ UNCHANGED <<alive, online, sched, nice, clamp>>

\* sched_setaffinity stays within the cpuset; nothing left there is EINVAL.
Settable(cpus) == alive /\ cpus \cap group.cpus \cap online # {}
SetMask(cpus) ==
    /\ mask' = cpus \cap group.cpus \cap online
    /\ UNCHANGED <<alive, group, online, sched, nice, clamp>>

Outside ==
    /\ pc # "loaded" /\ alive
    /\ Incident
    /\ disturbed' = TRUE
    /\ UNCHANGED <<device, loaded, sched, nice, clamp, pc, policy, effective, schedError,
                   outcome, audit>>

ThreadExits ==
    /\ Outside /\ alive' = FALSE /\ UNCHANGED <<group, mask, online>>

MoveOut(cpus) ==
    /\ Outside
    /\ group' = [ours |-> FALSE, cpus |-> cpus]
    /\ mask' = Usable(cpus, online)
    /\ UNCHANGED <<alive, online>>

AppPins(cpu) ==
    /\ Outside
    /\ cpu \in group.cpus \cap online
    /\ mask' = {cpu}
    /\ UNCHANGED <<alive, group, online>>

\* A cpuset whose usable CPUs change gives them to its threads.
Hotplug(cpu) ==
    /\ Outside
    /\ online' = SymDiff(online, {cpu})
    /\ online' # {}
    /\ mask' = IF Usable(group.cpus, online') = Usable(group.cpus, online) THEN mask
               ELSE Usable(group.cpus, online')
    /\ UNCHANGED <<alive, group>>

\* Its process goes to the background, is frozen, or comes back; the heat, the
\* pressure or the failures of late pass their limit. It is asked between
\* applications only.
GateChanges ==
    /\ pc = "done" /\ alive
    /\ allowed' = ~allowed
    /\ UNCHANGED <<topo, privileged, uclampSupported, loaded, kernel, incidents, pc, policy,
                   effective, schedError, outcome, audit, disturbed>>

Environment ==
    \/ ThreadExits \/ GateChanges
    \/ \E g \in AndroidGroups : MoveOut(g)
    \/ \E c \in topo.present : AppPins(c) \/ Hotplug(c)

-----------------------------------------------------------------------------
(* apply_affinity.                                                         *)

\* RuleSet.resolve, for the thread the requests are about.
ResolvePolicy(pkg, thread) ==
    /\ pc = "loaded"
    /\ policy' \in Resolve(rules, pkg, thread)
    /\ pc' = "attach"
    /\ config' = {} /\ rules' = <<>>
    /\ UNCHANGED <<device, kernel, incidents, effective, schedError, outcome, audit, disturbed>>

Conclude(result) == outcome' = result /\ pc' = "sched" /\ effective' = {}
\* apply_thread returns at once.
ConcludeExited ==
    /\ outcome' = "Exited" /\ pc' = "done" /\ effective' = {}
    /\ Record("esrch")

SkipNoCpus ==
    /\ pc = "attach" /\ policy.cpus = {}
    /\ Conclude("SkippedNoCpus")
    /\ Untouched /\ UNCHANGED <<kernel, incidents, schedError, audit>>

NoCpuset ==
    /\ pc = "attach" /\ policy.cpus # {} /\ ~topo.cpuset_enabled
    /\ pc' = "check"
    /\ Untouched /\ UNCHANGED <<kernel, incidents, effective, schedError, outcome, audit>>

AttachTask ==
    /\ pc = "attach" /\ policy.cpus # {} /\ topo.cpuset_enabled
    /\ JoinOurs(policy.cpus)
    /\ pc' = "check"
    /\ Untouched /\ UNCHANGED <<incidents, effective, schedError, outcome, audit>>

\* A failure is recorded, and the application goes on.
AttachFails ==
    /\ pc = "attach" /\ policy.cpus # {} /\ topo.cpuset_enabled
    /\ \/ (~alive \/ policy.cpus \cap online = {}) /\ UNCHANGED incidents
       \/ Incident
    /\ Record("cpuset_write_failed")
    /\ pc' = "check"
    /\ Untouched /\ UNCHANGED <<kernel, effective, schedError, outcome>>

\* get_affinity: the thread has the CPUs of its rule, and nothing is done.
AlreadyPlaced ==
    /\ pc = "check" /\ alive /\ mask = policy.cpus
    /\ Record("already") /\ Conclude("Applied")
    /\ Untouched /\ UNCHANGED <<kernel, incidents, schedError>>

NotYetPlaced ==
    /\ pc = "check" /\ ~(alive /\ mask = policy.cpus)
    /\ pc' = "filter"
    /\ Untouched /\ UNCHANGED <<kernel, incidents, effective, schedError, outcome, audit>>

\* The CPUs of the rule that were on line when the daemon started.
Wanted == IF topo.online = {} THEN policy.cpus ELSE policy.cpus \cap topo.online

\* read_allowed_mask: the CPUs wanted are cut down to those allowed.
Blocked ==
    /\ pc = "filter" /\ alive /\ Wanted \cap mask = {}
    /\ Record("cgroup") /\ Conclude("BlockedByCgroup")
    /\ Untouched /\ UNCHANGED <<kernel, incidents, schedError>>

CutDown ==
    /\ pc = "filter" /\ alive /\ Wanted \cap mask # {}
    /\ effective' = Wanted \cap mask
    /\ pc' = IF effective' = Wanted THEN "set" ELSE "degrade"
    /\ Untouched /\ UNCHANGED <<kernel, incidents, schedError, outcome, audit>>

\* The status of a thread that has ended cannot be read.
AllowedUnread ==
    /\ pc = "filter" /\ ~alive
    /\ \/ /\ Wanted = {}
          /\ Conclude("SkippedNoCpus")
       \/ /\ Wanted # {}
          /\ effective' = Wanted /\ pc' = "set" /\ UNCHANGED outcome
    /\ Untouched /\ UNCHANGED <<kernel, incidents, schedError, audit>>

Degrade ==
    /\ pc = "degrade" /\ Settable(effective) /\ SetMask(effective)
    /\ Record("downgraded") /\ Conclude("Downgraded")
    /\ Untouched /\ UNCHANGED <<incidents, schedError>>

\* Defect: an error that is not ESRCH is taken for success (BUG-H1).
DegradeFailsUnseen ==
    /\ pc = "degrade"
    /\ \/ ~alive /\ UNCHANGED incidents /\ ConcludeExited
       \/ /\ alive
          /\ (~Settable(effective) /\ UNCHANGED incidents) \/ Incident
          /\ Record("downgraded") /\ Conclude("Downgraded")
    /\ Untouched /\ UNCHANGED <<kernel, schedError>>

DegradeFails ==
    /\ pc = "degrade"
    /\ \/ ~alive /\ UNCHANGED incidents /\ ConcludeExited
       \/ /\ alive
          /\ (~Settable(effective) /\ UNCHANGED incidents) \/ Incident
          /\ Record("downgraded_failed") /\ Conclude("Failed")
    /\ Untouched /\ UNCHANGED <<kernel, schedError>>

SetAffinity ==
    /\ pc = "set" /\ Settable(effective) /\ SetMask(effective)
    /\ Record("applied") /\ Conclude("Applied")
    /\ Untouched /\ UNCHANGED <<incidents, schedError>>

SetAffinityFails ==
    /\ pc = "set"
    /\ \/ ~alive /\ UNCHANGED incidents /\ ConcludeExited
       \/ /\ alive /\ ~Settable(effective) /\ UNCHANGED incidents
          /\ Record("einval") /\ Conclude("EINVAL")
       \/ alive /\ Incident /\ Record("eperm") /\ Conclude("BlockedByPerm")
       \/ alive /\ Incident /\ Record("other") /\ Conclude("Failed")
    /\ Untouched /\ UNCHANGED <<kernel, schedError>>

-----------------------------------------------------------------------------
(* apply_sched, apply_uclamp.                                              *)

\* A policy without a scheduling class: its niceness is not set either.
NoSched ==
    /\ pc = "sched" /\ policy.sched = {}
    /\ pc' = "uclamp"
    /\ Untouched /\ UNCHANGED <<kernel, incidents, effective, schedError, outcome, audit>>

\* Realtime without CAP_SYS_NICE: the rest is skipped.
RtNotAllowed ==
    /\ pc = "sched" /\ \E s \in policy.sched : IsRt(s) /\ ~privileged
    /\ pc' = "done"
    /\ Untouched /\ UNCHANGED <<kernel, incidents, effective, schedError, outcome, audit>>

SchedAllowed(s) == s \in policy.sched /\ (IsRt(s) => privileged)

\* A realtime priority that is not given is 1.
\* Defect: the priority is passed on as it was given.
SetSchedulerAsGiven(s) ==
    /\ pc = "sched" /\ SchedAllowed(s) /\ alive
    /\ sched' = s
    /\ schedError' = "none" /\ pc' = "nice"
    /\ Untouched
    /\ UNCHANGED <<alive, group, mask, online, nice, clamp, incidents, effective, outcome, audit>>

SetScheduler(s) ==
    /\ pc = "sched" /\ SchedAllowed(s) /\ alive
    /\ sched' = [kind |-> s.kind, prio |-> IF IsRt(s) THEN Clamped(s.prio, 1, 99) ELSE 0]
    /\ schedError' = "none" /\ pc' = "nice"
    /\ Untouched
    /\ UNCHANGED <<alive, group, mask, online, nice, clamp, incidents, effective, outcome, audit>>

SetSchedulerFails(s) ==
    /\ pc = "sched" /\ SchedAllowed(s)
    /\ \/ ~alive /\ UNCHANGED incidents /\ schedError' = "ESRCH"
       \/ alive /\ Incident /\ schedError' = "EPERM"
    /\ pc' = "nice"
    /\ Untouched /\ UNCHANGED <<kernel, effective, outcome, audit>>

\* The end of apply_sched: the error of the scheduling class is its result.
\* Defect: it is dropped (NEW-M1).
ConcludeSchedSilent(reasons) ==
    /\ UNCHANGED outcome
    /\ audit' = audit \cup reasons
    /\ schedError' = "none" /\ pc' = "uclamp"

ConcludeSched(reasons) ==
    /\ outcome' = CASE schedError = "ESRCH" -> "Exited"
                    [] schedError = "EPERM" -> "BlockedByPerm"
                    [] OTHER -> outcome
    /\ audit' = audit \cup reasons \cup (IF schedError = "EPERM" THEN {"sched_failed"} ELSE {})
    /\ schedError' = "none" /\ pc' = "uclamp"

SetNice ==
    /\ pc = "nice" /\ (policy.nice # {} => alive)
    /\ nice' = IF policy.nice = {} THEN nice ELSE Clamped(Max(policy.nice), -20, 19)
    /\ ConcludeSched({})
    /\ Untouched
    /\ UNCHANGED <<alive, group, mask, online, sched, clamp, incidents, effective>>

SetNiceFails ==
    /\ pc = "nice" /\ policy.nice # {}
    /\ (~alive /\ UNCHANGED incidents) \/ (alive /\ Incident)
    /\ ConcludeSched({"nice_failed"})
    /\ Untouched /\ UNCHANGED <<kernel, effective>>

UclampGiven == policy.uclampMin \cup policy.uclampMax # {}

NoUclamp ==
    /\ pc = "uclamp" /\ ~(UclampGiven /\ uclampSupported)
    /\ pc' = "done"
    /\ Untouched /\ UNCHANGED <<kernel, incidents, effective, schedError, outcome, audit>>

\* What sched_setattr is given: a side that is not given keeps its value.
Clamp == [min |-> IF policy.uclampMin = {} THEN clamp.min ELSE Clamped(Max(policy.uclampMin), 0, 1024),
          max |-> IF policy.uclampMax = {} THEN clamp.max ELSE Clamped(Max(policy.uclampMax), 0, 1024)]

\* The attributes are sent without the flags that keep the class and its
\* parameters, and are zero: the thread is made normal, niceness 0.
SetUclamp ==
    /\ pc = "uclamp" /\ UclampGiven /\ uclampSupported
    /\ alive /\ Clamp.min <= Clamp.max
    /\ clamp' = Clamp /\ sched' = Normal /\ nice' = 0
    /\ pc' = "done"
    /\ Untouched
    /\ UNCHANGED <<alive, group, mask, online, incidents, effective, schedError, outcome, audit>>

SetUclampFails ==
    /\ pc = "uclamp" /\ UclampGiven /\ uclampSupported
    /\ \/ ~alive /\ UNCHANGED <<incidents, audit>> /\ outcome' = "Exited"
       \/ /\ alive
          /\ (Clamp.min > Clamp.max /\ UNCHANGED incidents) \/ Incident
          /\ Record("uclamp_failed") /\ UNCHANGED outcome
    /\ pc' = "done"
    /\ Untouched /\ UNCHANGED <<kernel, effective, schedError>>

\* The policy is applied again to a thread that is still listed: by an event
\* that has all threads of its process scanned, always;
Rescan ==
    /\ pc = "done" /\ alive
    /\ pc' = "attach" /\ outcome' = "none" /\ audit' = {} /\ disturbed' = FALSE
    /\ UNCHANGED <<device, loaded, kernel, incidents, policy, effective, schedError>>

\* and by a relock, unless the gate makes it skip the process.
\* Defect: not to a thread that was found blocked.
RelockUnlessBlocked == allowed /\ outcome # "BlockedByCgroup" /\ Rescan

Relock == allowed /\ Rescan

-----------------------------------------------------------------------------
Init ==
    /\ \E soc \in Socs :
          /\ topo = InitCpuTopo(soc)
          /\ privileged = soc.privileged /\ uclampSupported = soc.uclamp
    /\ config \in Configs
    /\ rules \in {Compile(e, topo) : e \in Expansions(config, topo.clusters)}
    /\ allowed = TRUE /\ alive = TRUE /\ online = topo.online /\ mask = online
    /\ group = [ours |-> FALSE, cpus |-> topo.present]
    /\ sched = Normal /\ nice = 0 /\ clamp = [min |-> 0, max |-> 1024]
    /\ incidents = 0
    /\ pc = "loaded" /\ policy = NoPolicy /\ effective = {} /\ schedError = "none"
    /\ outcome = "none" /\ audit = {} /\ disturbed = FALSE

ApplyAffinity ==
    \/ SkipNoCpus \/ NoCpuset \/ AttachTask \/ AttachFails
    \/ AlreadyPlaced \/ NotYetPlaced
    \/ Blocked \/ CutDown \/ AllowedUnread
    \/ Degrade \/ DegradeFails \/ SetAffinity \/ SetAffinityFails

ApplySched ==
    \/ NoSched \/ RtNotAllowed
    \/ \E s \in policy.sched : SetScheduler(s) \/ SetSchedulerFails(s)
    \/ SetNice \/ SetNiceFails
    \/ NoUclamp \/ SetUclamp \/ SetUclampFails

Apply == ApplyAffinity \/ ApplySched \/ Relock

Next ==
    \/ \E p \in Packages, t \in ThreadNames : ResolvePolicy(p, t)
    \/ Apply \/ Rescan
    \/ Environment

Spec == Init /\ [][Next]_vars
\* The daemon's thread runs, and relocks recur while the gate is open. Events
\* that have a process scanned need not come.
FairSpec == Spec /\ WF_vars(Apply)

-----------------------------------------------------------------------------
TypeOK ==
    /\ topo.online \subseteq topo.present /\ topo.cpuset_enabled \in BOOLEAN
    /\ privileged \in BOOLEAN /\ uclampSupported \in BOOLEAN
    /\ config \in Configs \cup {{}}
    /\ alive \in BOOLEAN /\ allowed \in BOOLEAN /\ disturbed \in BOOLEAN
    /\ group.ours \in BOOLEAN /\ group.cpus \subseteq Cpus
    /\ mask \subseteq online /\ online \subseteq topo.present
    /\ mask # {} /\ mask \subseteq Usable(group.cpus, online)
    /\ sched.prio \in 0..99 /\ nice \in -20..19
    /\ clamp.min \in 0..1024 /\ clamp.max \in 0..1024 /\ clamp.min <= clamp.max
    /\ incidents \in 0..MaxIncidents
    /\ pc \in {"loaded", "attach", "check", "filter", "degrade", "set", "sched", "nice",
               "uclamp", "done"}
    /\ policy.cpus \subseteq topo.present
    /\ effective \subseteq policy.cpus
    /\ schedError \in {"none", "ESRCH", "EPERM"}
    /\ outcome \in Outcomes /\ audit \subseteq Reasons

-----------------------------------------------------------------------------
(* What the rules promise, of the configuration just loaded.               *)

(***************************************************************************)
(* The rules for a name in layers: thread rules, then package rules, and   *)
(* in each the package's own before those of the best wildcard.            *)
(***************************************************************************)
Layers(p, t) ==
    LET own == {q \in {p} : ~ContainsWildcard(q)}
        wild == BestWildcard(rules, p)
        of(pkgs, InLayer(_)) == {r.policy : r \in {x \in Range(rules) : x.pkg \in pkgs /\ InLayer(x)}}
        hit(r) == r.thread # <<>> /\ Fnmatch(r.thread, t)
        whole(r) == r.thread = <<>>
    IN <<of(own, hit), of(wild, hit), of(own, whole), of(wild, whole)>>

\* The values of a field in the first layer that has any.
FirstLayer(layers, Field(_)) ==
    LET values(i) == UNION {Field(q) : q \in layers[i]}
        set == {i \in DOMAIN layers : values(i) # {}}
    IN IF set = {} THEN {} ELSE values(Min(set))

\* No application for the package has both a profile and settings of its own.
\* Where one has, config.rs announces "thread > default > profile", but the
\* rules of both go into one layer, and their CPUs are joined.
NoMixedProfile(p) ==
    \A app \in config :
        Fnmatch(app.pkg, p) =>
            \/ app.profile = "none"
            \/ app.default = DefaultModel /\ app.threads = <<>> /\ app.types = <<>>

\* What the rules make of a thread's name is the layering of what matches it.
LayeredFor(p, t) ==
    LET layers == Layers(p, t)
        ofThread == layers[1] \cup layers[2]
        ofPackage == layers[3] \cup layers[4]
        cpus == FirstLayer(layers, LAMBDA q : q.cpus)
        scheds == FirstLayer(layers, LAMBDA q : q.sched)
        nices == FirstLayer(layers, LAMBDA q : q.nice)
        minsOf(S) == UNION {q.uclampMin : q \in S}
        maxsOf(S) == UNION {q.uclampMax : q \in S}
        mins == minsOf(ofThread \cup ofPackage)
        maxs == maxsOf(ofThread \cup ofPackage)
        sets(q) == [q EXCEPT !.cpusetDir = <<>>] # NoPolicy
    IN /\ Resolve(rules, p, t) # {} <=>
            /\ ofThread = {} \/ \E q \in ofThread : sets(q)
            /\ cpus # {} \/ scheds # {} \/ nices # {}
       /\ \A r \in Resolve(rules, p, t) :
            /\ r.cpus = cpus
            /\ r.sched \subseteq scheds /\ (r.sched = {} <=> scheds = {})
            /\ r.nice \subseteq nices /\ (r.nice = {} <=> nices = {})
            /\ \/ minsOf(ofThread) # {} /\ minsOf(ofPackage) # {}
               \/ r.uclampMin = (IF mins = {} THEN {} ELSE {Max(mins)})
            /\ \/ maxsOf(ofThread) # {} /\ maxsOf(ofPackage) # {}
               \/ r.uclampMax = (IF maxs = {} THEN {} ELSE {Min(maxs)})

(***************************************************************************)
(* Resolving is layering (ruleset.rs resolve, merge.rs, docs/matcher.md    *)
(* par. 4), for packages without a mixed profile: the CPUs are the union   *)
(* over the first layer that names any, and class and niceness come from   *)
(* the first layer that has one. A clamp is the strictest one of all the   *)
(* rules that match, as merge.rs has it ("across all sources"), unless     *)
(* rules for the thread and for the package both give one: then the code   *)
(* keeps the strictest of the thread's, and merge.rs says otherwise.       *)
(* There is no policy when thread rules match and set nothing, or when     *)
(* neither CPUs, class nor niceness come of it.                            *)
(***************************************************************************)
ResolveIsLayered ==
    pc = "loaded" =>
        \A p \in Packages, t \in ThreadNames : NoMixedProfile(p) => LayeredFor(p, t)

\* A pattern that begins with a fixed part, and whose tail, the characters
\* from its first wildcard on, counts for less than one more character there.
LightTail(pattern) ==
    LET wildcards == Cardinality(WildcardPlaces(pattern))
        literals == Len(pattern) - FixedPrefix(pattern) - wildcards
    IN /\ FixedPrefix(pattern) > 0
       /\ 2 * literals <= PrefixWeight /\ 2 * (WildcardWeight * wildcards) <= PrefixWeight

(***************************************************************************)
(* The longer the fixed prefix, the higher the priority (docs/matcher.md   *)
(* par. 3.2), among patterns that begin with a fixed part and go on with   *)
(* at most 50 other characters and 5 wildcards. A longer tail can outweigh *)
(* a longer prefix, and a pattern that begins with a wildcard may score    *)
(* below zero, wrap around and win over every other one, or score exactly  *)
(* 0 and never match.                                                      *)
(***************************************************************************)
LongestPrefixWins ==
    pc = "loaded" =>
    \A p \in Packages :
        LET matching == {w \in Range(WildcardGroups(rules)) : Fnmatch(w, p)}
            best == BestWildcard(rules, p)
        IN (matching # {} /\ \A w \in matching : LightTail(w)) =>
              /\ best # {}
              /\ \A w \in matching, b \in best : FixedPrefix(w) <= FixedPrefix(b)

\* What compile would not throw away, and an expansion knows.
WellFormed(app) ==
    LET models == {app.default} \cup Range(app.threads) \cup Range(app.types)
        valid(r) == r # <<>> /\ ParseCpuRanges(r, topo.present) # {}
    IN /\ app.pkg # <<>> /\ Len(app.pkg) < MaxPkgLen
       /\ ContainsWildcard(app.pkg) => PatternSpecificity(app.pkg) > 0
       /\ \A t \in DOMAIN app.threads : Len(t) < MaxThreadLen
       /\ DOMAIN app.types \subseteq DOMAIN ThreadTypePatterns
       /\ \A m \in models : /\ \A r \in m.cpus : valid(r)
                            /\ \A n \in m.cluster : n.kind = "numeric" => valid(n.range)

(***************************************************************************)
(* Every package the configuration names is on the whitelist, even one     *)
(* that has no default, no CPUs and only threads (config.rs, has_any).     *)
(* Without this the processes of the package are not even tracked. A       *)
(* pattern that scores 0 never matches, and a cluster none of whose CPUs   *)
(* is present gives a rule that compile throws away.                       *)
(***************************************************************************)
ConfiguredIsWhitelisted ==
    (pc = "loaded" /\ \A c \in Range(topo.clusters) : c.cpus \cap topo.present # {}) =>
    \A app \in config, p \in Packages :
        (WellFormed(app) /\ Fnmatch(app.pkg, p)) =>
            IsInterested(rules, p) /\ \E r \in Range(rules) : r.pkg = app.pkg

(***************************************************************************)
(* The CPUs and clamps of a thread do not depend on the order of the hash  *)
(* maps, which a reload draws anew (config.rs to_rules_with_clusters),     *)
(* unless two patterns with the same score match the package. Class and    *)
(* niceness do depend on it, when two rules of a layer differ.             *)
(***************************************************************************)
StableAcrossReloads ==
    pc = "loaded" =>
    LET reloads == {Compile(e, topo) : e \in Expansions(config, topo.clusters)}
        matching(p) == {w \in Range(WildcardGroups(rules)) : Fnmatch(w, p)}
        lasting(r) == <<r.cpus, r.uclampMin, r.uclampMax>>
    IN \A p \in Packages :
        (\A v, w \in matching(p) : v # w => PatternSpecificity(v) # PatternSpecificity(w)) =>
            \A t \in ThreadNames :
                Cardinality({{lasting(r) : r \in Resolve(R, p, t)} : R \in reloads}) = 1

(***************************************************************************)
(* The cpuset directory of a policy holds its CPUs, no more and no fewer,  *)
(* also when they come from another rule than the class (ruleset.rs): two  *)
(* policies share a directory exactly when they have the same CPUs.        *)
(***************************************************************************)
DirHoldsPolicy == ParseCpuRanges(policy.cpusetDir, topo.present) = policy.cpus

-----------------------------------------------------------------------------
(* What an application promises, of the state it leaves behind.            *)

(***************************************************************************)
(* The outcome tells where the thread runs (policy.rs apply_affinity):     *)
(* Applied, on all CPUs of its rule, or on those that were on line when    *)
(* the daemon started; Downgraded, on some of them only;                   *)
(* BlockedByCgroup, on none of them.                                       *)
(***************************************************************************)
OutcomeIsTrue ==
    (pc = "done" /\ ~disturbed) =>
        /\ outcome = "Applied" => mask \in {policy.cpus, Wanted}
        /\ outcome = "Downgraded" => mask \subseteq Wanted /\ mask # Wanted
        /\ outcome = "BlockedByCgroup" => mask \cap Wanted = {}
        /\ outcome = "Exited" => ~alive

(***************************************************************************)
(* What the decision engine learns (policy.rs, audit.rs): an application   *)
(* that reaches a verdict on the affinity records exactly one, a success   *)
(* exactly when the affinity was found or set right, and a failure of the  *)
(* class is recorded whenever it shows in the outcome.                     *)
(***************************************************************************)
VerdictIsAudited ==
    pc = "done" =>
        /\ Cardinality(audit \cap (Affinities \cup Refusals)) <= 1
        /\ outcome \in {"Applied", "Downgraded"} =>
              audit \cap Affinities # {} /\ "sched_failed" \notin audit
        /\ (audit \cap Affinities # {} /\ ~disturbed) => mask \subseteq policy.cpus
        /\ outcome \in {"BlockedByCgroup", "EINVAL", "Failed"} => audit \cap Refusals # {}
        /\ outcome = "BlockedByPerm" => audit \cap {"eperm", "sched_failed"} # {}

(***************************************************************************)
(* The class of a policy is in effect after an application, unless it is   *)
(* recorded as failed or the privileges rule it out (policy.rs             *)
(* apply_sched), and so is the niceness that comes with it, if the policy  *)
(* has no clamp: apply_uclamp makes the thread normal again. A clamp is in *)
(* effect, each side that is given, or is recorded as failed, as when the  *)
(* strictest of several minima lies above the strictest of the maxima.     *)
(***************************************************************************)
PolicyInEffect ==
    (pc = "done" /\ ~disturbed /\ alive) =>
    /\ ~(UclampGiven /\ uclampSupported) =>
         \A s \in policy.sched :
            (SchedAllowed(s) /\ outcome # "BlockedByPerm") =>
              /\ sched.kind = s.kind
              /\ IsRt(s) => sched.prio = Clamped(s.prio, 1, 99)
              /\ policy.nice # {} /\ "nice_failed" \notin audit =>
                    nice = Clamped(Max(policy.nice), -20, 19)
    /\ (uclampSupported /\ \A s \in policy.sched : SchedAllowed(s)) =>
         \/ "uclamp_failed" \in audit
         \/ /\ policy.uclampMin # {} => clamp.min = Clamped(Max(policy.uclampMin), 0, 1024)
            /\ policy.uclampMax # {} => clamp.max = Clamped(Max(policy.uclampMax), 0, 1024)

(***************************************************************************)
(* Once nothing else happens and the relock gate stays open, relocks bring *)
(* a thread onto CPUs of its rule and keep it there, wherever Android had  *)
(* moved it, if cpusets can be used and one of these CPUs is on line       *)
(* (policy.rs: "full control relies on the cpuset channel"). A thread      *)
(* whose process stays in the background is left where it is.              *)
(***************************************************************************)
PlacedInTheEnd ==
    <>[]allowed =>
        <>[](pc # "loaded" /\ alive /\ topo.cpuset_enabled /\ policy.cpus \cap online # {}
                => mask \subseteq policy.cpus)

=============================================================================
