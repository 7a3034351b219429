--------------------------- MODULE PlacementProofs ---------------------------
(* The policy of a thread is what the rules say, and the outcome and the   *)
(* audit of its applications are true, for all systems on chip,            *)
(* configurations and numbers of incidents.                                *)
EXTENDS Placement, RulesProofs, FiniteSetTheorems, TLAPS

Verdicts == audit \cap (Affinities \cup Refusals)

\* The affinity of a thread lies within its cpuset.
MaskInCpuset == mask \subseteq Usable(group.cpus, online)

\* What is known once the affinity has been dealt with.
Concluded ==
    /\ \E r \in Reasons : Verdicts \subseteq {r}
    /\ outcome \in {"Applied", "Downgraded"} =>
          audit \cap Affinities # {} /\ "sched_failed" \notin audit
    /\ (audit \cap Affinities # {} /\ ~disturbed) => mask \subseteq policy.cpus
    /\ outcome \in {"BlockedByCgroup", "EINVAL", "Failed"} => audit \cap Refusals # {}
    /\ outcome = "BlockedByPerm" => audit \cap {"eperm", "sched_failed"} # {}
    /\ (outcome = "Applied" /\ ~disturbed) => mask \in {policy.cpus, Wanted}
    /\ (outcome = "Downgraded" /\ ~disturbed) => mask \subseteq Wanted /\ mask # Wanted
    /\ (outcome = "BlockedByCgroup" /\ ~disturbed) => mask \cap Wanted = {}

(***************************************************************************)
(* The state of an application by the next system call: nothing recorded   *)
(* but a cpuset that could not be joined, until the affinity is decided;   *)
(* what is to be set has been cut down to what the thread may use.         *)
(***************************************************************************)
ApplyInv ==
    /\ MaskInCpuset
    /\ pc \in {"loaded", "attach"} => audit = {} /\ outcome = "none"
    /\ pc \in {"check", "filter", "degrade", "set"} =>
          audit \subseteq {"cpuset_write_failed"} /\ outcome = "none"
    /\ pc = "degrade" => effective \subseteq Wanted /\ effective # Wanted
    /\ pc = "set" => effective = Wanted
    /\ (pc = "set" /\ alive /\ ~disturbed) => Wanted \subseteq mask
    /\ pc \in {"sched", "nice", "uclamp", "done"} => Concluded
    /\ outcome = "Exited" \/ schedError = "ESRCH" => ~alive
    /\ pc \in {"loaded", "attach", "check", "filter", "degrade", "set", "sched", "nice",
               "uclamp", "done"}

(***************************************************************************)
(* The CPUs wanted are some of the rule's.                                 *)
(***************************************************************************)
LEMMA WantedInRule == Wanted \subseteq policy.cpus
BY DEF Wanted

(***************************************************************************)
(* What happens outside leaves the application as it is, and disturbs it,  *)
(* but for the gate, which no application looks at.                        *)
(***************************************************************************)
LEMMA EnvironmentStep ==
    ASSUME ApplyInv, Environment
    PROVE  ApplyInv'
<1>0. CASE GateChanges
  <2>1. UNCHANGED <<alive, group, mask, online, topo, policy, pc, effective, schedError, outcome,
                    audit, disturbed>>
    BY <1>0 DEF GateChanges, kernel
  <2> QED BY <2>1 DEF ApplyInv, MaskInCpuset, Usable, Concluded, Verdicts, Wanted
<1> SUFFICES ASSUME ~GateChanges PROVE ApplyInv'
  BY <1>0
<1>1. /\ disturbed' = TRUE /\ alive
      /\ UNCHANGED <<topo, policy, pc, effective, schedError, outcome, audit>>
  BY DEF Environment, ThreadExits, GateChanges, MoveOut, AppPins, Hotplug, Outside, device
<1>2. MaskInCpuset'
  <2> USE DEF MaskInCpuset, Usable
  <2>1. CASE ThreadExits
    BY <2>1 DEF ThreadExits, ApplyInv
  <2>2. CASE \E g \in AndroidGroups : MoveOut(g)
    BY <2>2 DEF MoveOut
  <2>3. CASE \E c \in topo.present : AppPins(c)
    BY <2>3 DEF AppPins
  <2>4. CASE \E c \in topo.present : Hotplug(c)
    <3>1. PICK c \in topo.present : Hotplug(c)
      BY <2>4
    <3>2. /\ group' = group
          /\ mask' = IF Usable(group.cpus, online') = Usable(group.cpus, online) THEN mask
                     ELSE Usable(group.cpus, online')
      BY <3>1 DEF Hotplug
    <3>3. mask \subseteq Usable(group.cpus, online)
      BY DEF ApplyInv
    <3>4. mask' \subseteq Usable(group.cpus, online')
      BY <3>2, <3>3
    <3> QED BY <3>2, <3>4
  <2> QED BY <2>1, <2>2, <2>3, <2>4 DEF Environment
<1>3. Wanted' = Wanted
  BY <1>1 DEF Wanted
<1>4. Concluded => Concluded'
  BY <1>1 DEF Concluded, Verdicts
<1> QED BY <1>1, <1>2, <1>3, <1>4 DEF ApplyInv

(***************************************************************************)
(* Reaching a verdict: what is recorded with it, and the state it leaves.  *)
(***************************************************************************)
LEMMA VerdictConcludes ==
    ASSUME audit \subseteq {"cpuset_write_failed"},
           NEW r \in Affinities \cup Refusals, Record(r),
           outcome' \in {"Applied", "Downgraded"} => r \in Affinities,
           outcome' \in {"BlockedByCgroup", "EINVAL", "Failed"} => r \in Refusals,
           outcome' = "BlockedByPerm" => r = "eperm",
           (r \in Affinities /\ ~disturbed') => mask' \subseteq policy.cpus',
           (outcome' = "Applied" /\ ~disturbed') => mask' \in {policy.cpus', Wanted'},
           (outcome' = "Downgraded" /\ ~disturbed') => mask' \subseteq Wanted' /\ mask' # Wanted',
           (outcome' = "BlockedByCgroup" /\ ~disturbed') => mask' \cap Wanted' = {}
    PROVE  Concluded'
<1>1. audit' = audit \cup {r} /\ audit \cap (Affinities \cup Refusals) = {}
  BY DEF Record, Affinities, Refusals
<1>2. Verdicts' = {r} /\ r \in Reasons
  BY <1>1 DEF Verdicts, Reasons
<1>3. /\ r \in Affinities => audit' \cap Affinities # {}
      /\ r \in Refusals => audit' \cap Refusals # {}
      /\ audit' \cap Affinities # {} => r \in Affinities
  BY <1>1
<1>4. r # "sched_failed" /\ "sched_failed" \notin audit'
  BY <1>1 DEF Affinities, Refusals
<1>5. r = "eperm" => audit' \cap {"eperm", "sched_failed"} # {}
  BY <1>1
<1> QED BY <1>2, <1>3, <1>4, <1>5 DEF Concluded

(***************************************************************************)
(* Each system call of apply_affinity.                                     *)
(***************************************************************************)
LEMMA AttachStep ==
    ASSUME ApplyInv, SkipNoCpus \/ NoCpuset \/ AttachTask \/ AttachFails
    PROVE  ApplyInv'
<1> USE DEF ApplyInv, Untouched, kernel, device
<1>1. CASE SkipNoCpus
  <2>1. /\ UNCHANGED <<audit, mask, group, online, alive, schedError>>
        /\ audit = {} /\ outcome' = "SkippedNoCpus" /\ pc' = "sched"
    BY <1>1 DEF SkipNoCpus, Conclude
  <2>2. Concluded'
    BY <2>1 DEF Concluded, Verdicts, Reasons
  <2> QED BY <2>1, <2>2 DEF MaskInCpuset
<1>2. CASE NoCpuset
  BY <1>2 DEF NoCpuset, MaskInCpuset
<1>3. CASE AttachTask
  <2>1. MaskInCpuset'
    BY <1>3 DEF AttachTask, JoinOurs, MaskInCpuset, Usable
  <2> QED BY <1>3, <2>1 DEF AttachTask, JoinOurs
<1>4. CASE AttachFails
  BY <1>4 DEF AttachFails, Record, MaskInCpuset
<1> QED BY <1>1, <1>2, <1>3, <1>4

LEMMA FilterStep ==
    ASSUME ApplyInv, AlreadyPlaced \/ NotYetPlaced \/ Blocked \/ CutDown \/ AllowedUnread
    PROVE  ApplyInv'
<1> USE DEF ApplyInv, Untouched, kernel, device
<1>1. Wanted' = Wanted /\ UNCHANGED <<mask, group, online, alive, schedError, policy, disturbed>>
  BY DEF Wanted, AlreadyPlaced, NotYetPlaced, Blocked, CutDown, AllowedUnread
<1>2. MaskInCpuset'
  BY <1>1 DEF MaskInCpuset
<1>3. CASE AlreadyPlaced
  <2>1. /\ Record("already") /\ outcome' = "Applied" /\ pc' = "sched"
        /\ mask = policy.cpus /\ audit \subseteq {"cpuset_write_failed"}
    BY <1>3 DEF AlreadyPlaced, Conclude
  <2>2. Concluded'
    BY <1>1, <2>1, VerdictConcludes DEF Affinities
  <2> QED BY <1>1, <1>2, <2>1, <2>2
<1>4. CASE NotYetPlaced
  BY <1>1, <1>2, <1>4 DEF NotYetPlaced
<1>5. CASE Blocked
  <2>1. /\ Record("cgroup") /\ outcome' = "BlockedByCgroup" /\ pc' = "sched"
        /\ mask \cap Wanted = {} /\ audit \subseteq {"cpuset_write_failed"}
    BY <1>5 DEF Blocked, Conclude
  <2>2. Concluded'
    BY <1>1, <2>1, VerdictConcludes DEF Affinities, Refusals
  <2> QED BY <1>1, <1>2, <2>1, <2>2
<1>6. CASE CutDown
  <2>1. /\ effective' = Wanted \cap mask /\ UNCHANGED <<audit, outcome>>
        /\ pc' = IF effective' = Wanted THEN "set" ELSE "degrade"
        /\ audit \subseteq {"cpuset_write_failed"} /\ outcome = "none"
    BY <1>6 DEF CutDown
  <2> QED BY <1>1, <1>2, <2>1
<1>7. CASE AllowedUnread
  <2>1. audit' = audit /\ audit \subseteq {"cpuset_write_failed"} /\ ~alive /\ outcome = "none"
    BY <1>7 DEF AllowedUnread
  <2>2. CASE outcome' = "SkippedNoCpus" /\ pc' = "sched"
    <3>1. Concluded'
      BY <1>1, <2>1, <2>2 DEF Concluded, Verdicts, Reasons, Affinities, Refusals
    <3> QED BY <1>1, <1>2, <2>1, <2>2, <3>1
  <2>3. CASE effective' = Wanted /\ pc' = "set" /\ outcome' = outcome
    BY <1>1, <1>2, <2>1, <2>3
  <2> QED BY <1>7, <2>2, <2>3 DEF AllowedUnread, Conclude
<1> QED BY <1>3, <1>4, <1>5, <1>6, <1>7

(***************************************************************************)
(* What is wanted can be had: a thread that may use all the CPUs it is to  *)
(* be set to gets exactly these.                                           *)
(***************************************************************************)
LEMMA SetIsExact ==
    ASSUME MaskInCpuset, NEW cpus, cpus \subseteq mask, Settable(cpus)
    PROVE  cpus \cap group.cpus \cap online = cpus
BY DEF MaskInCpuset, Usable, Settable

LEMMA SetStep ==
    ASSUME ApplyInv, Degrade \/ DegradeFails \/ SetAffinity \/ SetAffinityFails
    PROVE  ApplyInv'
<1> USE DEF ApplyInv, Untouched, kernel, device
<1>1. /\ Wanted' = Wanted /\ UNCHANGED <<group, online, alive, schedError, policy, disturbed>>
      /\ audit \subseteq {"cpuset_write_failed"} /\ outcome = "none"
  BY DEF Wanted, Degrade, DegradeFails, SetAffinity, SetAffinityFails, SetMask
<1>2. MaskInCpuset'
  BY <1>1 DEF MaskInCpuset, Usable, Degrade, DegradeFails, SetAffinity, SetAffinityFails, SetMask
<1>3. CASE Degrade
  <2>1. /\ Record("downgraded") /\ outcome' = "Downgraded" /\ pc' = "sched"
        /\ mask' \subseteq effective /\ effective \subseteq Wanted /\ effective # Wanted
    BY <1>3 DEF Degrade, Conclude, SetMask
  <2>2. Concluded'
    <3>1. mask' \subseteq Wanted' /\ mask' # Wanted' /\ mask' \subseteq policy.cpus'
      BY <1>1, <2>1, WantedInRule
    <3> QED BY <1>1, <2>1, <3>1, VerdictConcludes DEF Affinities
  <2> QED BY <1>1, <1>2, <2>1, <2>2
<1>4. CASE SetAffinity
  <2>1. /\ Record("applied") /\ outcome' = "Applied" /\ pc' = "sched"
        /\ mask' = Wanted \cap group.cpus \cap online
        /\ Settable(Wanted) /\ alive
    BY <1>4 DEF SetAffinity, Conclude, SetMask, Settable
  <2>2. ~disturbed => mask' = Wanted
    BY <1>4, <2>1, SetIsExact DEF SetAffinity
  <2>3. mask' \subseteq policy.cpus
    BY <2>1, WantedInRule
  <2>4. Concluded'
    BY <1>1, <2>1, <2>2, <2>3, VerdictConcludes DEF Affinities
  <2> QED BY <1>1, <1>2, <2>1, <2>4
<1>5. ASSUME NEW r \in Refusals, NEW result, Record(r), Conclude(result), mask' = mask,
             <<r, result>> \in {<<"downgraded_failed", "Failed">>, <<"einval", "EINVAL">>,
                                <<"eperm", "BlockedByPerm">>, <<"other", "Failed">>}
      PROVE  ApplyInv'
  <2>1. /\ outcome' = result /\ pc' = "sched" /\ r \notin Affinities
        /\ result \in {"Failed", "EINVAL", "BlockedByPerm"}
        /\ result = "BlockedByPerm" => r = "eperm"
    BY <1>5 DEF Conclude, Affinities
  <2>2. Concluded'
    BY <1>1, <1>5, <2>1, VerdictConcludes
  <2> QED BY <1>1, <1>2, <2>1, <2>2
<1>6. ASSUME ConcludeExited, ~alive, mask' = mask
      PROVE  ApplyInv'
  <2>1. outcome' = "Exited" /\ pc' = "done" /\ Record("esrch")
    BY <1>6 DEF ConcludeExited
  <2>2. Concluded'
    BY <1>1, <2>1, VerdictConcludes DEF Affinities, Refusals
  <2> QED BY <1>1, <1>2, <1>6, <2>1, <2>2
<1>7. CASE DegradeFails
  <2>1. mask' = mask /\ \/ ~alive /\ ConcludeExited
                        \/ Record("downgraded_failed") /\ Conclude("Failed")
    BY <1>7 DEF DegradeFails
  <2> QED BY <1>5, <1>6, <2>1 DEF Refusals
<1>8. CASE SetAffinityFails
  <2>1. mask' = mask /\ \/ ~alive /\ ConcludeExited
                        \/ Record("einval") /\ Conclude("EINVAL")
                        \/ Record("eperm") /\ Conclude("BlockedByPerm")
                        \/ Record("other") /\ Conclude("Failed")
    BY <1>8 DEF SetAffinityFails
  <2> QED BY <1>5, <1>6, <2>1 DEF Refusals
<1> QED BY <1>3, <1>4, <1>7, <1>8

(***************************************************************************)
(* Class, niceness and clamp: the verdict stays, unless the error of the   *)
(* class takes its place.                                                  *)
(***************************************************************************)
LEMMA StillConcluded ==
    ASSUME Concluded, UNCHANGED <<topo, policy, mask, disturbed>>,
           NEW more \in SUBSET {"nice_failed", "sched_failed", "uclamp_failed"},
           audit' = audit \cup more,
           \/ outcome' = outcome /\ "sched_failed" \notin more
           \/ outcome' = "Exited"
           \/ outcome' = "BlockedByPerm" /\ "sched_failed" \in more
    PROVE  Concluded'
<1>1. Verdicts' = Verdicts
  BY DEF Verdicts, Affinities, Refusals
<1>2. audit' \cap Affinities = audit \cap Affinities
  BY DEF Affinities
<1>3. audit' \cap Refusals = audit \cap Refusals
  BY DEF Refusals
<1>4. Wanted' = Wanted
  BY DEF Wanted
<1>5. CASE outcome' = outcome /\ "sched_failed" \notin more
  BY <1>1, <1>2, <1>3, <1>4, <1>5 DEF Concluded
<1>6. CASE outcome' # outcome \/ "sched_failed" \in more
  BY <1>1, <1>2, <1>3, <1>4, <1>6 DEF Concluded
<1> QED BY <1>5, <1>6

LEMMA SchedStep ==
    ASSUME ApplyInv, ApplySched
    PROVE  ApplyInv'
<1> USE DEF ApplyInv, Untouched, kernel, device
<1>1. /\ UNCHANGED <<topo, policy, disturbed, mask, group, online, alive>>
      /\ pc \in {"sched", "nice", "uclamp"} /\ Concluded
  BY DEF ApplySched, NoSched, RtNotAllowed, SetScheduler, SetSchedulerFails, SetNice,
         SetNiceFails, NoUclamp, SetUclamp, SetUclampFails
<1>2. MaskInCpuset'
  BY <1>1 DEF MaskInCpuset
<1>3. CASE \/ NoSched \/ RtNotAllowed \/ NoUclamp \/ SetUclamp
           \/ \E s \in policy.sched : SetScheduler(s) \/ SetSchedulerFails(s)
  <2>1. /\ UNCHANGED <<outcome, audit>>
        /\ pc' \in {"sched", "nice", "uclamp", "done"}
        /\ schedError' = "ESRCH" => ~alive \/ schedError = "ESRCH"
    BY <1>3 DEF NoSched, RtNotAllowed, NoUclamp, SetUclamp, SetScheduler, SetSchedulerFails
  <2>2. Concluded'
    BY <1>1, <2>1, StillConcluded, audit' = audit \cup {}
  <2> QED BY <1>1, <1>2, <2>1, <2>2
<1>4. ASSUME NEW reasons \in SUBSET {"nice_failed"}, ConcludeSched(reasons)
      PROVE  ApplyInv'
  <2> DEFINE more == reasons \cup (IF schedError = "EPERM" THEN {"sched_failed"} ELSE {})
  <2>1. /\ outcome' = CASE schedError = "ESRCH" -> "Exited"
                         [] schedError = "EPERM" -> "BlockedByPerm"
                         [] OTHER -> outcome
        /\ audit' = audit \cup more
        /\ schedError' = "none" /\ pc' = "uclamp"
    BY <1>4 DEF ConcludeSched
  <2>2. more \in SUBSET {"nice_failed", "sched_failed", "uclamp_failed"}
        /\ ("sched_failed" \in more <=> schedError = "EPERM")
    OBVIOUS
  <2> HIDE DEF more
  <2>3. \/ outcome' = outcome /\ "sched_failed" \notin more
        \/ outcome' = "Exited" /\ schedError = "ESRCH"
        \/ outcome' = "BlockedByPerm" /\ "sched_failed" \in more
    BY <2>1, <2>2
  <2>4. Concluded'
    BY <1>1, <2>1, <2>2, <2>3, StillConcluded
  <2> QED BY <1>1, <1>2, <2>1, <2>3, <2>4
<1>5. CASE SetNice \/ SetNiceFails
  <2>1. \E reasons \in SUBSET {"nice_failed"} : ConcludeSched(reasons)
    BY <1>5 DEF SetNice, SetNiceFails
  <2> QED BY <1>4, <2>1
<1>6. CASE SetUclampFails
  <2>1. /\ schedError' = schedError /\ pc' = "done"
        /\ \/ ~alive /\ outcome' = "Exited" /\ audit' = audit \cup {}
           \/ outcome' = outcome /\ audit' = audit \cup {"uclamp_failed"}
    BY <1>6 DEF SetUclampFails, Record
  <2>2. Concluded'
    BY <1>1, <2>1, StillConcluded
  <2> QED BY <1>1, <1>2, <2>1, <2>2
<1> QED BY <1>3, <1>5, <1>6 DEF ApplySched

(***************************************************************************)
(* ApplyInv holds when a configuration has been loaded, and every step     *)
(* keeps it.                                                               *)
(***************************************************************************)
LEMMA ApplyInvInit ==
    ASSUME Init
    PROVE  ApplyInv
<1>1. PICK soc \in Socs : topo = InitCpuTopo(soc)
  BY DEF Init
<1>2. topo.online \subseteq topo.present
  BY <1>1, PlacementAssumption DEF InitCpuTopo
<1>3. MaskInCpuset
  BY <1>2 DEF Init, MaskInCpuset, Usable
<1> QED BY <1>3 DEF Init, ApplyInv

LEMMA ApplyInvStep ==
    ASSUME ApplyInv, [Next]_vars
    PROVE  ApplyInv'
<1>1. CASE \E p \in Packages, t \in ThreadNames : ResolvePolicy(p, t)
  BY <1>1 DEF ResolvePolicy, ApplyInv, MaskInCpuset, kernel, device
<1>2. CASE ApplyAffinity
  BY <1>2, AttachStep, FilterStep, SetStep DEF ApplyAffinity
<1>3. CASE ApplySched
  BY <1>3, SchedStep
<1>4. CASE Relock \/ Rescan
  BY <1>4 DEF Relock, Rescan, ApplyInv, MaskInCpuset, kernel, device
<1>5. CASE Environment
  BY <1>5, EnvironmentStep
<1>6. CASE UNCHANGED vars
  BY <1>6 DEF vars, ApplyInv, MaskInCpuset, Concluded, Verdicts, Wanted
<1> QED BY <1>1, <1>2, <1>3, <1>4, <1>5, <1>6 DEF Next, Apply

(***************************************************************************)
(* The invariant of an application, by the system call that is next.       *)
(***************************************************************************)
THEOREM ApplyInvariant == Spec => []ApplyInv
<1>1. Init => ApplyInv
  BY ApplyInvInit
<1>2. ApplyInv /\ [Next]_vars => ApplyInv'
  BY ApplyInvStep
<1> QED BY <1>1, <1>2, PTL DEF Spec

(***************************************************************************)
(* Whatever calls fail and whatever happens between two of them, the       *)
(* outcome of an undisturbed application tells where the thread runs       *)
(* (policy.rs apply_affinity).                                             *)
(***************************************************************************)
THEOREM OutcomesAreTrue == Spec => []OutcomeIsTrue
<1>1. ApplyInv => OutcomeIsTrue
  BY DEF ApplyInv, Concluded, OutcomeIsTrue
<1> QED BY <1>1, ApplyInvariant, PTL

(***************************************************************************)
(* The audit gets one verdict of every application at most, the one that   *)
(* goes with its outcome, so that the failure rate of the decision engine  *)
(* is made of true results (audit.rs, decision.rs).                        *)
(***************************************************************************)
THEOREM VerdictsAreAudited == Spec => []VerdictIsAudited
<1>1. ApplyInv => VerdictIsAudited
  <2> SUFFICES ASSUME ApplyInv, pc = "done" PROVE VerdictIsAudited
    BY DEF VerdictIsAudited
  <2>1. Concluded
    BY DEF ApplyInv
  <2>2. PICK r : Verdicts \subseteq {r}
    BY <2>1 DEF Concluded
  <2>3. Verdicts = {} \/ Verdicts = {r}
    BY <2>2
  <2>4. Cardinality(Verdicts) <= 1
    <3>1. Cardinality({}) = 0 /\ Cardinality({r}) = 1
      BY FS_EmptySet, FS_Singleton
    <3> QED BY <2>3, <3>1
  <2> QED BY <2>1, <2>4 DEF Concluded, VerdictIsAudited, Verdicts
<1> QED BY <1>1, ApplyInvariant, PTL

-----------------------------------------------------------------------------
(* What is loaded.                                                         *)

ReloadedRules == {Compile(e, topo) : e \in Expansions(config, topo.clusters)}

(***************************************************************************)
(* The topology is found out once; until the policy is resolved, the rules *)
(* are one expansion of the configuration, compiled.                       *)
(***************************************************************************)
LoadedInv ==
    /\ topo.online # {} /\ topo.online \subseteq topo.present /\ topo.present \subseteq Cpus
    /\ topo.cpuset_enabled \in BOOLEAN /\ IsClusters(topo.clusters)
    /\ privileged \in BOOLEAN /\ uclampSupported \in BOOLEAN /\ allowed \in BOOLEAN
    /\ config \in Configs \cup {{}}
    /\ pc = "loaded" => config \in Configs /\ rules \in ReloadedRules

LEMMA LoadedInit == Init => LoadedInv
<1> SUFFICES ASSUME Init PROVE LoadedInv
  OBVIOUS
<1>1. PICK soc \in Socs : /\ topo = InitCpuTopo(soc)
                          /\ privileged = soc.privileged /\ uclampSupported = soc.uclamp
  BY DEF Init
<1>2. /\ soc.online # {} /\ soc.online \subseteq soc.present /\ soc.present \subseteq Cpus
      /\ DOMAIN soc.capacity \subseteq Cpus
      /\ {soc.cpuset, soc.privileged, soc.uclamp} \subseteq BOOLEAN
  BY PlacementAssumption
<1>3. IsClusters(DetectClusters(soc))
  BY <1>2, ClustersDetected
<1>4. /\ topo.present = soc.present /\ topo.online = soc.online
      /\ topo.cpuset_enabled = soc.cpuset /\ topo.clusters = DetectClusters(soc)
  BY <1>1 DEF InitCpuTopo
<1>5. config \in Configs /\ rules \in ReloadedRules
  BY DEF Init, ReloadedRules
<1>6. allowed \in BOOLEAN
  BY DEF Init
<1> QED BY <1>1, <1>2, <1>3, <1>4, <1>5, <1>6 DEF LoadedInv

\* The steps but that which resolves the policy do not begin or end in "loaded".
LEMMA StepsAfterLoading ==
    ASSUME Apply \/ Rescan \/ Environment
    PROVE  /\ UNCHANGED <<topo, privileged, uclampSupported, config, rules, policy>>
           /\ allowed' = allowed \/ allowed' = ~allowed
           /\ pc # "loaded" /\ pc' # "loaded"
<1> USE DEF device, loaded, Untouched, Conclude, ConcludeExited, ConcludeSched
<1>1. CASE SkipNoCpus \/ NoCpuset \/ AttachTask \/ AttachFails
  BY <1>1 DEF SkipNoCpus, NoCpuset, AttachTask, AttachFails
<1>2. CASE AlreadyPlaced \/ NotYetPlaced \/ Blocked \/ CutDown \/ AllowedUnread
  BY <1>2 DEF AlreadyPlaced, NotYetPlaced, Blocked, CutDown, AllowedUnread
<1>3. CASE Degrade \/ DegradeFails \/ SetAffinity \/ SetAffinityFails
  BY <1>3 DEF Degrade, DegradeFails, SetAffinity, SetAffinityFails
<1>4. CASE ApplySched
  BY <1>4 DEF ApplySched, NoSched, RtNotAllowed, SetScheduler, SetSchedulerFails, SetNice,
              SetNiceFails, NoUclamp, SetUclamp, SetUclampFails
<1>5. CASE Relock \/ Rescan
  BY <1>5 DEF Relock, Rescan
<1>6. CASE Environment
  BY <1>6 DEF Environment, ThreadExits, GateChanges, MoveOut, AppPins, Hotplug, Outside
<1> QED BY <1>1, <1>2, <1>3, <1>4, <1>5, <1>6 DEF Apply, ApplyAffinity

LEMMA LoadedStep == LoadedInv /\ [Next]_vars => LoadedInv'
<1> SUFFICES ASSUME LoadedInv, [Next]_vars PROVE LoadedInv'
  OBVIOUS
<1>1. CASE \E p \in Packages, t \in ThreadNames : ResolvePolicy(p, t)
  BY <1>1 DEF ResolvePolicy, device, LoadedInv
<1>2. CASE Apply \/ Rescan \/ Environment
  <2>1. allowed' \in BOOLEAN
    BY <1>2, StepsAfterLoading DEF LoadedInv
  <2> QED BY <1>2, <2>1, StepsAfterLoading DEF LoadedInv
<1>3. CASE UNCHANGED vars
  BY <1>3 DEF vars, LoadedInv, ReloadedRules
<1> QED BY <1>1, <1>2, <1>3 DEF Next

(***************************************************************************)
(* What every reload of a configuration has in common.                     *)
(***************************************************************************)
ConfiguredRules == CompiledFrom(UNION {RulesOf(app, topo.clusters) : app \in config}, topo.present)

LEMMA ReloadsAreTheSame ==
    ASSUME LoadedInv, pc = "loaded", NEW R \in ReloadedRules
    PROVE  /\ R \in Seq(CompiledRules) /\ Range(R) = ConfiguredRules
           /\ \A r \in Range(R) : /\ r \in CompiledRules /\ r.policy.cpus \subseteq topo.present
                                  /\ r.pkg \in Names /\ Len(r.pkg) < MaxPkgLen
<1>1. PICK e \in Expansions(config, topo.clusters) : R = Compile(e, topo)
  BY DEF ReloadedRules
<1>2. /\ config \in Configs /\ topo.present \subseteq Cpus /\ IsClusters(topo.clusters)
      /\ IsFiniteSet(config) /\ \A app \in config : IsApplication(app)
  BY PlacementAssumption DEF LoadedInv
<1>3. e \in Seq(RuleConfigs) /\ Range(e) = UNION {RulesOf(app, topo.clusters) : app \in config}
  BY <1>2, ExpansionsAreTheSame
<1>4. /\ Compile(e, topo) \in Seq(CompiledRules)
      /\ Range(Compile(e, topo)) = CompiledFrom(Range(e), topo.present)
      /\ \A r \in Range(Compile(e, topo)) :
            /\ r \in CompiledRules /\ r.policy.cpus \subseteq topo.present
            /\ r.pkg \in Names /\ Len(r.pkg) < MaxPkgLen
  BY <1>2, <1>3, CompileIs
<1> QED BY <1>1, <1>3, <1>4 DEF ConfiguredRules

-----------------------------------------------------------------------------
(* Types.                                                                  *)

(***************************************************************************)
(* A policy has CPUs that are present, and a directory named after them;   *)
(* at most one class, one niceness and one clamp on each side.             *)
(***************************************************************************)
PolicyTyped ==
    /\ policy.cpus \subseteq topo.present /\ policy.cpusetDir = ToRangeString(policy.cpus)
    /\ policy.sched \in Optional(Scheds) /\ policy.nice \in Optional(Int)
    /\ policy.uclampMin \in Optional(Int) /\ policy.uclampMax \in Optional(Int)

LEMMA PolicyTypedInit == Init => PolicyTyped
<1> SUFFICES ASSUME Init PROVE PolicyTyped
  OBVIOUS
<1>1. policy = NoPolicy
  BY DEF Init
<1>2. ToRangeString({}) = <<>>
  BY RangeStringsAreExact
<1>3. {} \in Optional(Scheds) /\ {} \in Optional(Int)
  BY DEF Optional
<1> QED BY <1>1, <1>2, <1>3 DEF PolicyTyped, NoPolicy

LEMMA PolicyTypedStep == LoadedInv /\ PolicyTyped /\ [Next]_vars => PolicyTyped'
<1> SUFFICES ASSUME LoadedInv, PolicyTyped, [Next]_vars PROVE PolicyTyped'
  OBVIOUS
<1>1. CASE \E p \in Packages, t \in ThreadNames : ResolvePolicy(p, t)
  <2>1. PICK p \in Packages, t \in ThreadNames : ResolvePolicy(p, t)
    BY <1>1
  <2>2. pc = "loaded" /\ policy' \in Resolve(rules, p, t) /\ topo' = topo
    BY <2>1 DEF ResolvePolicy, device
  <2>3. rules \in ReloadedRules
    BY <2>2 DEF LoadedInv
  <2>4. /\ rules \in Seq(CompiledRules)
        /\ \A r \in Range(rules) : r \in CompiledRules /\ r.policy.cpus \subseteq topo.present
    BY <2>2, <2>3, ReloadsAreTheSame
  <2> QED BY <2>2, <2>4, ResolvedTyped DEF PolicyTyped
<1>2. CASE Apply \/ Rescan \/ Environment
  BY <1>2, StepsAfterLoading DEF PolicyTyped
<1>3. CASE UNCHANGED vars
  BY <1>3 DEF vars, PolicyTyped
<1> QED BY <1>1, <1>2, <1>3 DEF Next

LEMMA ClampedIs ==
    ASSUME NEW n \in Int, NEW low \in Int, NEW high \in Int, low <= high
    PROVE  Clamped(n, low, high) \in low..high
<1> DEFINE least == IF n <= high THEN n ELSE high
           most == IF low <= least THEN least ELSE low
<1>1. Min({n, high}) = least
  BY MinIs
<1>2. Max({low, least}) = most
  BY MaxIs
<1> QED BY <1>1, <1>2 DEF Clamped

LEMMA ClampedInts ==
    ASSUME NEW n \in Int
    PROVE  /\ Clamped(n, 1, 99) \in 1..99 /\ Clamped(n, -20, 19) \in -20..19
           /\ Clamped(n, 0, 1024) \in 0..1024
<1>1. Clamped(n, 1, 99) \in 1..99
  <2> DEFINE low == 1
             high == 99
  <2>1. low \in Int /\ high \in Int /\ low <= high
    OBVIOUS
  <2> HIDE DEF low, high
  <2>2. Clamped(n, low, high) \in low..high
    BY <2>1, ClampedIs
  <2> QED BY <2>2 DEF low, high
<1>2. Clamped(n, -20, 19) \in -20..19
  <2> DEFINE low == -20
             high == 19
  <2>1. low \in Int /\ high \in Int /\ low <= high
    OBVIOUS
  <2> HIDE DEF low, high
  <2>2. Clamped(n, low, high) \in low..high
    BY <2>1, ClampedIs
  <2> QED BY <2>2 DEF low, high
<1>3. Clamped(n, 0, 1024) \in 0..1024
  <2> DEFINE low == 0
             high == 1024
  <2>1. low \in Int /\ high \in Int /\ low <= high
    OBVIOUS
  <2> HIDE DEF low, high
  <2>2. Clamped(n, low, high) \in low..high
    BY <2>1, ClampedIs
  <2> QED BY <2>2 DEF low, high
<1> QED BY <1>1, <1>2, <1>3

LEMMA TheOne ==
    ASSUME NEW v \in Optional(Int), v # {}
    PROVE  Max(v) \in Int /\ v = {Max(v)}
<1>1. PICK n \in Int : v = {n}
  BY OptionalIs
<1>2. Max({n}) = n
  BY MaxIs
<1> QED BY <1>1, <1>2

\* The part of TypeOK that is about the kernel.
KernelTyped ==
    /\ alive \in BOOLEAN
    /\ group.ours \in BOOLEAN /\ group.cpus \subseteq Cpus
    /\ mask \subseteq online /\ online \subseteq topo.present
    /\ mask # {} /\ mask \subseteq Usable(group.cpus, online)

\* The utilization clamps there are.
Units == 0..1024
AttributesTyped ==
    /\ sched.prio \in 0..99 /\ nice \in -20..19
    /\ clamp.min \in Units /\ clamp.max \in Units /\ clamp.min <= clamp.max

\* That which is about the application.
ApplicationTyped ==
    /\ disturbed \in BOOLEAN
    /\ incidents \in 0..MaxIncidents
    /\ pc \in {"loaded", "attach", "check", "filter", "degrade", "set", "sched", "nice",
               "uclamp", "done"}
    /\ effective \subseteq policy.cpus
    /\ pc = "loaded" => effective = {}
    /\ schedError \in {"none", "ESRCH", "EPERM"}
    /\ outcome \in Outcomes /\ audit \subseteq Reasons

\* The clamp that a policy asks for is one of them.
LEMMA UnitsOfOne ==
    ASSUME NEW v \in Optional(Int), v # {}
    PROVE  Clamped(Max(v), 0, 1024) \in Units
<1> DEFINE n == Max(v)
           top == 1024
<1>1. n \in Int
  BY TheOne
<1>2. 0 \in Int /\ top \in Int /\ 0 <= top
  OBVIOUS
<1>3. Units = 0..top
  BY DEF Units
<1> HIDE DEF n, top
<1>4. Clamped(n, 0, top) \in Units
  BY <1>1, <1>2, <1>3, ClampedIs
<1> QED BY <1>4 DEF n, top

LEMMA TypedStart == Init => KernelTyped /\ AttributesTyped /\ ApplicationTyped
<1> SUFFICES ASSUME Init PROVE KernelTyped /\ AttributesTyped /\ ApplicationTyped
  OBVIOUS
<1>1. LoadedInv
  BY LoadedInit
<1>2. KernelTyped
  BY <1>1 DEF Init, LoadedInv, KernelTyped, Usable
<1>3. AttributesTyped
  BY DEF Init, AttributesTyped, Normal, Units
<1>4. ApplicationTyped
  <2>1. 0 \in 0..MaxIncidents
    BY PlacementAssumption
  <2> QED BY <2>1 DEF Init, ApplicationTyped, Outcomes
<1> QED BY <1>2, <1>3, <1>4

LEMMA KernelTypedStep == LoadedInv /\ PolicyTyped /\ KernelTyped /\ [Next]_vars => KernelTyped'
<1> SUFFICES ASSUME LoadedInv, PolicyTyped, KernelTyped, [Next]_vars PROVE KernelTyped'
  OBVIOUS
<1>0. topo.present \subseteq Cpus /\ policy.cpus \subseteq topo.present
  BY DEF LoadedInv, PolicyTyped
<1>1. CASE UNCHANGED <<alive, group, mask, online, topo>>
  BY <1>1 DEF KernelTyped, Usable
<1>2. CASE AttachTask
  BY <1>0, <1>2 DEF AttachTask, JoinOurs, Untouched, device, KernelTyped, Usable
<1>3. CASE Degrade \/ SetAffinity
  BY <1>3 DEF Degrade, SetAffinity, Settable, SetMask, Untouched, device, KernelTyped, Usable
<1>4. CASE ThreadExits
  BY <1>4 DEF ThreadExits, Outside, device, KernelTyped
<1>5. ASSUME NEW g \in AndroidGroups, MoveOut(g) PROVE KernelTyped'
  BY <1>5, PlacementAssumption DEF MoveOut, Outside, device, KernelTyped, Usable
<1>6. ASSUME NEW c \in topo.present, AppPins(c) PROVE KernelTyped'
  BY <1>6 DEF AppPins, Outside, device, KernelTyped, Usable
<1>7. ASSUME NEW c \in topo.present, Hotplug(c) PROVE KernelTyped'
  <2>1. /\ online' = SymDiff(online, {c}) /\ online' # {}
        /\ mask' = IF Usable(group.cpus, online') = Usable(group.cpus, online) THEN mask
                   ELSE Usable(group.cpus, online')
        /\ alive' = alive /\ group' = group /\ topo' = topo
    BY <1>7 DEF Hotplug, Outside, device
  <2>2. online' \subseteq topo.present
    BY <2>1 DEF SymDiff, KernelTyped
  <2>3. /\ Usable(group.cpus, online') # {} /\ Usable(group.cpus, online') \subseteq online'
    BY <2>1 DEF Usable
  <2>4. mask # {} /\ mask \subseteq Usable(group.cpus, online)
    BY DEF KernelTyped
  <2>5. mask' # {} /\ mask' \subseteq Usable(group.cpus, online')
    BY <2>1, <2>3, <2>4
  <2> QED BY <2>1, <2>2, <2>3, <2>5 DEF KernelTyped
<1>8. CASE Environment
  <2>1. CASE GateChanges
    BY <1>1, <2>1 DEF GateChanges, kernel
  <2> QED BY <1>4, <1>5, <1>6, <1>7, <1>8, <2>1 DEF Environment
<1>9. CASE \/ SkipNoCpus \/ NoCpuset \/ AttachFails \/ AlreadyPlaced \/ NotYetPlaced \/ Blocked
           \/ CutDown \/ AllowedUnread \/ DegradeFails \/ SetAffinityFails
  BY <1>1, <1>9 DEF SkipNoCpus, NoCpuset, AttachFails, AlreadyPlaced, NotYetPlaced, Blocked,
       CutDown, AllowedUnread, DegradeFails, SetAffinityFails, Untouched, kernel, device
<1>10. CASE ApplySched
  BY <1>1, <1>10 DEF ApplySched, NoSched, RtNotAllowed, SetScheduler, SetSchedulerFails, SetNice,
       SetNiceFails, NoUclamp, SetUclamp, SetUclampFails, Untouched, kernel, device
<1>11. CASE Relock \/ Rescan
  BY <1>1, <1>11 DEF Relock, Rescan, kernel, device
<1>12. CASE \E p \in Packages, t \in ThreadNames : ResolvePolicy(p, t)
  BY <1>1, <1>12 DEF ResolvePolicy, kernel, device
<1>13. CASE UNCHANGED vars
  BY <1>1, <1>13 DEF vars
<1> QED BY <1>2, <1>3, <1>8, <1>9, <1>10, <1>11, <1>12, <1>13 DEF Next, Apply, ApplyAffinity

LEMMA AttributesTypedStep == PolicyTyped /\ AttributesTyped /\ [Next]_vars => AttributesTyped'
<1> SUFFICES ASSUME PolicyTyped, AttributesTyped, [Next]_vars PROVE AttributesTyped'
  OBVIOUS
<1>1. CASE UNCHANGED <<sched, nice, clamp>>
  BY <1>1 DEF AttributesTyped
<1>2. ASSUME NEW s \in policy.sched, SetScheduler(s) PROVE AttributesTyped'
  <2>1. s.prio \in Int
    BY DEF PolicyTyped, Optional, Scheds
  <2>2. Clamped(s.prio, 1, 99) \in 1..99
    BY <2>1, ClampedInts
  <2>3. sched'.prio = IF IsRt(s) THEN Clamped(s.prio, 1, 99) ELSE 0
    BY <1>2 DEF SetScheduler
  <2>4. nice' = nice /\ clamp' = clamp
    BY <1>2 DEF SetScheduler
  <2> QED BY <2>2, <2>3, <2>4 DEF AttributesTyped
<1>3. CASE SetNice
  <2>1. nice' = IF policy.nice = {} THEN nice ELSE Clamped(Max(policy.nice), -20, 19)
    BY <1>3 DEF SetNice
  <2>2. policy.nice # {} => Clamped(Max(policy.nice), -20, 19) \in -20..19
    BY TheOne, ClampedInts DEF PolicyTyped
  <2>3. sched' = sched /\ clamp' = clamp
    BY <1>3 DEF SetNice
  <2> QED BY <2>1, <2>2, <2>3 DEF AttributesTyped
<1>4. CASE SetUclamp
  <2> DEFINE unit(v) == Clamped(Max(v), 0, 1024)
             least == IF policy.uclampMin = {} THEN clamp.min ELSE unit(policy.uclampMin)
             most == IF policy.uclampMax = {} THEN clamp.max ELSE unit(policy.uclampMax)
  <2>1. /\ clamp' = [min |-> least, max |-> most] /\ least <= most /\ sched' = Normal /\ nice' = 0
    BY <1>4 DEF SetUclamp, Clamp
  <2>2. ASSUME NEW v \in Optional(Int), v # {} PROVE unit(v) \in Units
    BY <2>2, UnitsOfOne
  <2>3. clamp.min \in Units /\ clamp.max \in Units
    BY DEF AttributesTyped
  <2> HIDE DEF unit
  <2>4. least \in Units /\ most \in Units
    BY <2>2, <2>3 DEF PolicyTyped
  <2> HIDE DEF least, most
  <2>5. clamp'.min \in Units /\ clamp'.max \in Units /\ clamp'.min <= clamp'.max
    BY <2>1, <2>4
  <2>6. sched'.prio \in 0..99 /\ nice' \in -20..19
    BY <2>1 DEF Normal
  <2> QED BY <2>5, <2>6 DEF AttributesTyped
<1>5. CASE ApplyAffinity
  BY <1>1, <1>5 DEF ApplyAffinity, SkipNoCpus, NoCpuset, AttachTask, AttachFails, AlreadyPlaced,
       NotYetPlaced, Blocked, CutDown, AllowedUnread, Degrade, DegradeFails, SetAffinity,
       SetAffinityFails, JoinOurs, SetMask, kernel
<1>6. CASE ApplySched
  <2>1. CASE NoSched \/ RtNotAllowed \/ SetNiceFails \/ NoUclamp \/ SetUclampFails
    BY <1>1, <2>1 DEF NoSched, RtNotAllowed, SetNiceFails, NoUclamp, SetUclampFails, kernel
  <2>2. ASSUME NEW s \in policy.sched, SetSchedulerFails(s) PROVE AttributesTyped'
    BY <1>1, <2>2 DEF SetSchedulerFails, kernel
  <2> QED BY <1>2, <1>3, <1>4, <1>6, <2>1, <2>2 DEF ApplySched
<1>7. CASE Relock \/ Rescan \/ \E p \in Packages, t \in ThreadNames : ResolvePolicy(p, t)
  BY <1>1, <1>7 DEF Relock, Rescan, ResolvePolicy, kernel
<1>8. CASE Environment
  BY <1>1, <1>8 DEF Environment, ThreadExits, GateChanges, MoveOut, AppPins, Hotplug, Outside, kernel
<1>9. CASE UNCHANGED vars
  BY <1>1, <1>9 DEF vars
<1> QED BY <1>5, <1>6, <1>7, <1>8, <1>9 DEF Next, Apply

LEMMA ReasonsAre ==
    /\ {"already", "applied", "downgraded"} \subseteq Reasons
    /\ {"cgroup", "esrch", "downgraded_failed", "einval", "eperm", "other"} \subseteq Reasons
    /\ {"cpuset_write_failed", "nice_failed", "sched_failed", "uclamp_failed"} \subseteq Reasons
BY DEF Reasons, Affinities, Refusals

LEMMA ApplicationTypedStep == PolicyTyped /\ ApplicationTyped /\ [Next]_vars => ApplicationTyped'
<1> SUFFICES ASSUME PolicyTyped, ApplicationTyped, [Next]_vars PROVE ApplicationTyped'
  OBVIOUS
<1>1. (UNCHANGED incidents \/ Incident) => incidents' \in 0..MaxIncidents
  BY PlacementAssumption DEF ApplicationTyped, Incident
<1>2. \A r \in Reasons : Record(r) => audit' \subseteq Reasons
  BY DEF ApplicationTyped, Record
<1>3. {} \subseteq policy.cpus /\ Wanted \subseteq policy.cpus
  BY WantedInRule
<1>4. CASE SkipNoCpus \/ NoCpuset \/ AttachTask \/ AttachFails
  <2>1. /\ policy' = policy /\ disturbed' = disturbed /\ schedError' = schedError
        /\ incidents' \in 0..MaxIncidents
    BY <1>1, <1>4 DEF SkipNoCpus, NoCpuset, AttachTask, AttachFails, Untouched
  <2>2. /\ effective' \in {effective, {}} /\ outcome' \in {outcome, "SkippedNoCpus"}
        /\ pc' \in {"sched", "check"}
    BY <1>4 DEF SkipNoCpus, NoCpuset, AttachTask, AttachFails, Conclude
  <2>3. audit' \subseteq Reasons
    BY <1>2, <1>4, ReasonsAre DEF SkipNoCpus, NoCpuset, AttachTask, AttachFails, ApplicationTyped
  <2> QED BY <2>1, <2>2, <2>3 DEF ApplicationTyped, Outcomes
<1>5. CASE AlreadyPlaced \/ NotYetPlaced \/ Blocked \/ CutDown \/ AllowedUnread
  <2>1. /\ policy' = policy /\ disturbed' = disturbed /\ schedError' = schedError
        /\ incidents' \in 0..MaxIncidents
    BY <1>1, <1>5 DEF AlreadyPlaced, NotYetPlaced, Blocked, CutDown, AllowedUnread, Untouched
  <2>2. /\ effective' \in {effective, {}, Wanted, Wanted \cap mask}
        /\ outcome' \in {outcome, "Applied", "BlockedByCgroup", "SkippedNoCpus"}
        /\ pc' \in {"sched", "filter", "set", "degrade"}
    BY <1>5 DEF AlreadyPlaced, NotYetPlaced, Blocked, CutDown, AllowedUnread, Conclude
  <2>3. audit' \subseteq Reasons
    BY <1>2, <1>5, ReasonsAre DEF AlreadyPlaced, NotYetPlaced, Blocked, CutDown, AllowedUnread,
       ApplicationTyped
  <2> QED BY <1>3, <2>1, <2>2, <2>3 DEF ApplicationTyped, Outcomes
<1>6. CASE Degrade \/ DegradeFails \/ SetAffinity \/ SetAffinityFails
  <2>1. /\ policy' = policy /\ disturbed' = disturbed /\ schedError' = schedError
        /\ incidents' \in 0..MaxIncidents
    BY <1>1, <1>6 DEF Degrade, DegradeFails, SetAffinity, SetAffinityFails, Untouched
  <2>2. /\ effective' = {} /\ pc' \in {"sched", "done"}
        /\ outcome' \in {"Downgraded", "Exited", "Failed", "Applied", "EINVAL", "BlockedByPerm"}
    BY <1>6 DEF Degrade, DegradeFails, SetAffinity, SetAffinityFails, Conclude, ConcludeExited
  <2>3. audit' \subseteq Reasons
    BY <1>2, <1>6, ReasonsAre DEF Degrade, DegradeFails, SetAffinity, SetAffinityFails, ConcludeExited
  <2> QED BY <1>3, <2>1, <2>2, <2>3 DEF ApplicationTyped, Outcomes
<1>7. CASE ApplySched
  <2>1. /\ policy' = policy /\ disturbed' = disturbed /\ effective' = effective
        /\ incidents' \in 0..MaxIncidents
    BY <1>1, <1>7 DEF ApplySched, NoSched, RtNotAllowed, SetScheduler, SetSchedulerFails, SetNice,
         SetNiceFails, NoUclamp, SetUclamp, SetUclampFails, Untouched
  <2>2. /\ outcome' \in {outcome, "Exited", "BlockedByPerm"}
        /\ schedError' \in {schedError, "none", "ESRCH", "EPERM"}
        /\ pc' \in {"nice", "uclamp", "done"}
    BY <1>7 DEF ApplySched, NoSched, RtNotAllowed, SetScheduler, SetSchedulerFails, SetNice,
         SetNiceFails, NoUclamp, SetUclamp, SetUclampFails, ConcludeSched
  <2>3. audit' \subseteq audit \cup {"nice_failed", "sched_failed", "uclamp_failed"}
    BY <1>7 DEF ApplySched, NoSched, RtNotAllowed, SetScheduler, SetSchedulerFails, SetNice,
         SetNiceFails, NoUclamp, SetUclamp, SetUclampFails, ConcludeSched, Record
  <2>4. audit' \subseteq Reasons
    BY <2>3, ReasonsAre DEF ApplicationTyped
  <2> QED BY <2>1, <2>2, <2>4 DEF ApplicationTyped, Outcomes
<1>8. CASE Relock \/ Rescan
  BY <1>8 DEF Relock, Rescan, ApplicationTyped, Outcomes
<1>9. CASE \E p \in Packages, t \in ThreadNames : ResolvePolicy(p, t)
  BY <1>9 DEF ResolvePolicy, ApplicationTyped
<1>10. CASE Environment
  <2>1. /\ disturbed' \in {TRUE, disturbed} /\ incidents' \in 0..MaxIncidents
        /\ UNCHANGED <<pc, policy, effective, schedError, outcome, audit>>
    BY <1>1, <1>10 DEF Environment, ThreadExits, GateChanges, MoveOut, AppPins, Hotplug, Outside,
         ApplicationTyped
  <2> QED BY <2>1 DEF ApplicationTyped
<1>11. CASE UNCHANGED vars
  BY <1>11 DEF vars, ApplicationTyped
<1> QED BY <1>4, <1>5, <1>6, <1>7, <1>8, <1>9, <1>10, <1>11 DEF Next, Apply, ApplyAffinity

(***************************************************************************)
(* The topology, what is loaded, the policy and the state of the kernel    *)
(* and of the application, together: the kernel's part rests on the        *)
(* policy's, which rests on what is loaded.                                *)
(***************************************************************************)
TypeInv == LoadedInv /\ PolicyTyped /\ KernelTyped /\ AttributesTyped /\ ApplicationTyped

LEMMA TypeInvariant == Spec => []TypeInv
<1>1. Init => TypeInv
  BY LoadedInit, PolicyTypedInit, TypedStart DEF TypeInv
<1>2. TypeInv /\ [Next]_vars => TypeInv'
  BY LoadedStep, PolicyTypedStep, KernelTypedStep, AttributesTypedStep, ApplicationTypedStep
     DEF TypeInv
<1> QED BY <1>1, <1>2, PTL DEF Spec

(***************************************************************************)
(* A thread is always on CPUs that are on line and in its cpuset, and is   *)
(* given only CPUs of its rule, priorities, niceness and clamps the kernel *)
(* knows, whatever a configuration says (policy.rs).                       *)
(***************************************************************************)
THEOREM TypesAreKept == Spec => []TypeOK
<1> DEFINE ofLoaded == /\ topo.online \subseteq topo.present /\ topo.cpuset_enabled \in BOOLEAN
                       /\ privileged \in BOOLEAN /\ uclampSupported \in BOOLEAN
                       /\ allowed \in BOOLEAN
                       /\ config \in Configs \cup {{}}
           ofKernel == /\ alive \in BOOLEAN
                       /\ group.ours \in BOOLEAN /\ group.cpus \subseteq Cpus
                       /\ mask \subseteq online /\ online \subseteq topo.present
                       /\ mask # {} /\ mask \subseteq Usable(group.cpus, online)
           attributes == /\ sched.prio \in 0..99 /\ nice \in -20..19
                         /\ clamp.min \in 0..1024 /\ clamp.max \in 0..1024
                         /\ clamp.min <= clamp.max
           ofPolicy == policy.cpus \subseteq topo.present
           phases == pc \in {"loaded", "attach", "check", "filter", "degrade", "set", "sched",
                             "nice", "uclamp", "done"}
           ofApplication == /\ disturbed \in BOOLEAN
                            /\ incidents \in 0..MaxIncidents
                            /\ effective \subseteq policy.cpus
                            /\ schedError \in {"none", "ESRCH", "EPERM"}
                            /\ outcome \in Outcomes /\ audit \subseteq Reasons
<1>1. LoadedInv => ofLoaded
  BY DEF LoadedInv
<1>2. KernelTyped => ofKernel
  BY DEF KernelTyped
<1>3. AttributesTyped => attributes
  BY ZenonT(30) DEF AttributesTyped, Units
<1>4. PolicyTyped => ofPolicy
  BY DEF PolicyTyped
<1>5. ApplicationTyped => phases /\ ofApplication
  BY DEF ApplicationTyped
<1>6. ofLoaded /\ ofKernel /\ attributes /\ ofPolicy /\ phases /\ ofApplication => TypeOK
  BY SMT DEF TypeOK
<1>7. TypeInv => TypeOK
  <2> HIDE DEF ofLoaded, ofKernel, attributes, ofPolicy, phases, ofApplication
  <2> QED BY <1>1, <1>2, <1>3, <1>4, <1>5, <1>6 DEF TypeInv
<1> QED BY <1>7, TypeInvariant, PTL

(***************************************************************************)
(* The cpuset directory of a policy is that of its CPUs (ruleset.rs).      *)
(***************************************************************************)
THEOREM DirsHoldPolicies == Spec => []DirHoldsPolicy
<1>1. TypeInv => DirHoldsPolicy
  <2> SUFFICES ASSUME TypeInv PROVE DirHoldsPolicy
    OBVIOUS
  <2>1. /\ policy.cpus \subseteq topo.present /\ topo.present \subseteq Cpus
        /\ policy.cpusetDir = ToRangeString(policy.cpus)
    BY DEF TypeInv, LoadedInv, PolicyTyped
  <2>2. policy.cpus \in SUBSET Cpus
    BY <2>1
  <2>3. ParseCpuRanges(ToRangeString(policy.cpus), topo.present) = policy.cpus
    BY <2>1, <2>2, RangeStringsAreExact
  <2> QED BY <2>1, <2>3 DEF DirHoldsPolicy
<1> QED BY <1>1, TypeInvariant, PTL

-----------------------------------------------------------------------------
(* Class, niceness and clamp.                                              *)

ClassSet ==
    \A s \in policy.sched : SchedAllowed(s) =>
        /\ sched.kind = s.kind
        /\ IsRt(s) => sched.prio = Clamped(s.prio, 1, 99)
ClassInEffect ==
    \A s \in policy.sched : (SchedAllowed(s) /\ outcome # "BlockedByPerm") =>
        /\ sched.kind = s.kind
        /\ IsRt(s) => sched.prio = Clamped(s.prio, 1, 99)
        /\ policy.nice # {} /\ "nice_failed" \notin audit =>
              nice = Clamped(Max(policy.nice), -20, 19)
ClampInEffect ==
    \/ "uclamp_failed" \in audit
    \/ /\ policy.uclampMin # {} => clamp.min = Clamped(Max(policy.uclampMin), 0, 1024)
       /\ policy.uclampMax # {} => clamp.max = Clamped(Max(policy.uclampMax), 0, 1024)

(***************************************************************************)
(* How far an undisturbed application of a thread that lives has come.     *)
(***************************************************************************)
EffectInv ==
    (alive /\ ~disturbed) =>
    /\ (pc = "nice" /\ schedError = "none") => ClassSet
    /\ pc = "uclamp" => ClassInEffect
    /\ pc = "done" =>
          /\ ~(UclampGiven /\ uclampSupported) => ClassInEffect
          /\ (uclampSupported /\ \A s \in policy.sched : SchedAllowed(s)) => ClampInEffect

LEMMA EffectStep ==
    ASSUME TypeInv, ApplyInv, EffectInv, [Next]_vars
    PROVE  EffectInv'
<1> SUFFICES ASSUME alive', ~disturbed'
             PROVE  /\ (pc' = "nice" /\ schedError' = "none") => ClassSet'
                    /\ pc' = "uclamp" => ClassInEffect'
                    /\ pc' = "done" =>
                          /\ ~(UclampGiven /\ uclampSupported)' => ClassInEffect'
                          /\ (uclampSupported /\ \A s \in policy.sched : SchedAllowed(s))'
                                => ClampInEffect'
  BY DEF EffectInv
<1>1. CASE pc' \notin {"nice", "uclamp", "done"}
  BY <1>1
<1>2. CASE UNCHANGED vars
  BY <1>2 DEF vars, EffectInv, ClassSet, ClassInEffect, ClampInEffect, UclampGiven, SchedAllowed
<1>3. CASE Relock \/ Rescan \/ \E p \in Packages, t \in ThreadNames : ResolvePolicy(p, t)
  BY <1>1, <1>3 DEF Relock, Rescan, ResolvePolicy
<1>4. CASE Environment
  <2>1. CASE GateChanges
    BY <2>1 DEF GateChanges, kernel, EffectInv, ClassSet, ClassInEffect, ClampInEffect,
         UclampGiven, SchedAllowed
  <2> QED BY <1>4, <2>1 DEF Environment, ThreadExits, MoveOut, AppPins, Hotplug, Outside
<1>5. CASE ApplyAffinity
  <2>1. pc' \in {"check", "filter", "degrade", "set", "sched"} \/ ~alive
    BY <1>5 DEF ApplyAffinity, SkipNoCpus, NoCpuset, AttachTask, AttachFails, AlreadyPlaced,
         NotYetPlaced, Blocked, CutDown, AllowedUnread, Degrade, DegradeFails, SetAffinity,
         SetAffinityFails, Conclude
  <2>2. alive' = alive
    BY <1>5 DEF ApplyAffinity, SkipNoCpus, NoCpuset, AttachTask, AttachFails, AlreadyPlaced,
         NotYetPlaced, Blocked, CutDown, AllowedUnread, Degrade, DegradeFails, SetAffinity,
         SetAffinityFails, JoinOurs, SetMask, kernel
  <2> QED BY <1>1, <2>1, <2>2
<1>6. CASE ApplySched
  <2>0. /\ alive' = alive /\ UNCHANGED <<policy, disturbed, privileged, uclampSupported>>
    BY <1>6 DEF ApplySched, NoSched, RtNotAllowed, SetScheduler, SetSchedulerFails, SetNice,
         SetNiceFails, NoUclamp, SetUclamp, SetUclampFails, Untouched, device, kernel
  <2>1. CASE NoSched
    BY <2>0, <2>1 DEF NoSched, ClassInEffect
  <2>2. CASE RtNotAllowed
    <3>1. PICK s \in policy.sched : IsRt(s) /\ ~privileged
      BY <2>2 DEF RtNotAllowed
    <3>2. ~SchedAllowed(s)
      BY <3>1 DEF SchedAllowed
    <3>3. \A u \in policy.sched : u = s
      BY DEF TypeInv, PolicyTyped, Optional
    <3>4. pc' = "done"
      BY <2>2 DEF RtNotAllowed
    <3> QED BY <2>0, <3>2, <3>3, <3>4 DEF SchedAllowed, ClassInEffect
  <2>3. ASSUME NEW s \in policy.sched, SetScheduler(s) PROVE pc' = "nice" /\ ClassSet'
    <3>1. /\ sched' = [kind |-> s.kind, prio |-> IF IsRt(s) THEN Clamped(s.prio, 1, 99) ELSE 0]
          /\ pc' = "nice"
      BY <2>3 DEF SetScheduler
    <3>2. \A u \in policy.sched : u = s
      BY DEF TypeInv, PolicyTyped, Optional
    <3>3. sched'.kind = s.kind /\ (IsRt(s) => sched'.prio = Clamped(s.prio, 1, 99))
      BY <3>1
    <3> QED BY <2>0, <3>1, <3>2, <3>3 DEF ClassSet
  <2>4. ASSUME NEW s \in policy.sched, SetSchedulerFails(s) PROVE pc' = "nice" /\ schedError' # "none"
    BY <2>4 DEF SetSchedulerFails
  <2>5. CASE SetNice
    <3>1. /\ pc = "nice" /\ pc' = "uclamp" /\ sched' = sched
          /\ nice' = IF policy.nice = {} THEN nice ELSE Clamped(Max(policy.nice), -20, 19)
          /\ ConcludeSched({})
      BY <2>5 DEF SetNice, ConcludeSched
    <3>2. CASE schedError = "none"
      <4>1. ClassSet
        BY <2>0, <3>1, <3>2 DEF EffectInv
      <4> QED BY <2>0, <3>1, <4>1 DEF ClassSet, ClassInEffect, SchedAllowed
    <3>3. CASE schedError = "EPERM"
      <4>1. outcome' = "BlockedByPerm"
        BY <3>1, <3>3 DEF ConcludeSched
      <4> QED BY <3>1, <4>1 DEF ClassInEffect
    <3>4. schedError # "ESRCH"
      BY <2>0 DEF ApplyInv
    <3> QED BY <3>2, <3>3, <3>4 DEF TypeInv, ApplicationTyped
  <2>6. CASE SetNiceFails
    <3>1. /\ pc = "nice" /\ pc' = "uclamp" /\ sched' = sched /\ ConcludeSched({"nice_failed"})
      BY <2>6 DEF SetNiceFails, ConcludeSched, kernel
    <3>2. CASE schedError = "none"
      <4>1. ClassSet /\ "nice_failed" \in audit'
        BY <2>0, <3>1, <3>2 DEF EffectInv, ConcludeSched
      <4> QED BY <2>0, <3>1, <4>1 DEF ClassSet, ClassInEffect, SchedAllowed
    <3>3. CASE schedError = "EPERM"
      <4>1. outcome' = "BlockedByPerm"
        BY <3>1, <3>3 DEF ConcludeSched
      <4> QED BY <3>1, <4>1 DEF ClassInEffect
    <3>4. schedError # "ESRCH"
      BY <2>0 DEF ApplyInv
    <3> QED BY <3>2, <3>3, <3>4 DEF TypeInv, ApplicationTyped
  <2>7. CASE NoUclamp
    <3>1. /\ pc = "uclamp" /\ pc' = "done" /\ UNCHANGED <<sched, nice, clamp, outcome, audit>>
          /\ ~(UclampGiven /\ uclampSupported)
      BY <2>7 DEF NoUclamp, kernel
    <3>2. ClassInEffect
      BY <2>0, <3>1 DEF EffectInv
    <3>3. ClassInEffect'
      BY <2>0, <3>1, <3>2 DEF ClassInEffect, SchedAllowed
    <3>4. uclampSupported => policy.uclampMin = {} /\ policy.uclampMax = {}
      BY <3>1 DEF UclampGiven
    <3>5. uclampSupported' => ClampInEffect'
      BY <2>0, <3>4 DEF ClampInEffect
    <3> QED BY <3>1, <3>3, <3>5
  <2>8. CASE SetUclamp
    <3>1. /\ pc' = "done" /\ clamp' = Clamp /\ UclampGiven /\ uclampSupported
      BY <2>8 DEF SetUclamp
    <3>2. UclampGiven'
      BY <2>0, <3>1 DEF UclampGiven
    <3>3. /\ policy.uclampMin # {} => Clamp.min = Clamped(Max(policy.uclampMin), 0, 1024)
          /\ policy.uclampMax # {} => Clamp.max = Clamped(Max(policy.uclampMax), 0, 1024)
      BY DEF Clamp
    <3>4. ClampInEffect'
      BY <2>0, <3>1, <3>3 DEF ClampInEffect
    <3> QED BY <2>0, <3>1, <3>2, <3>4
  <2>9. CASE SetUclampFails
    <3>1. pc' = "done" /\ UclampGiven /\ uclampSupported /\ "uclamp_failed" \in audit'
      BY <2>0, <2>9 DEF SetUclampFails, Record
    <3>2. UclampGiven'
      BY <2>0, <3>1 DEF UclampGiven
    <3> QED BY <2>0, <3>1, <3>2 DEF ClampInEffect
  <2> QED BY <1>6, <2>1, <2>2, <2>3, <2>4, <2>5, <2>6, <2>7, <2>8, <2>9 DEF ApplySched
<1> QED BY <1>2, <1>3, <1>4, <1>5, <1>6 DEF Next, Apply

(***************************************************************************)
(* The class, the niceness and the clamps of a policy are in effect after  *)
(* an undisturbed application, or are recorded as failed (policy.rs        *)
(* apply_sched, apply_uclamp).                                             *)
(***************************************************************************)
THEOREM PoliciesAreInEffect == Spec => []PolicyInEffect
<1>1. Init => EffectInv
  BY DEF Init, EffectInv
<1>2. TypeInv /\ ApplyInv /\ EffectInv /\ [Next]_vars => EffectInv'
  BY EffectStep
<1>3. EffectInv => PolicyInEffect
  BY DEF EffectInv, PolicyInEffect, ClassInEffect, ClampInEffect
<1>4. Spec => []EffectInv
  BY <1>1, <1>2, TypeInvariant, ApplyInvariant, PTL DEF Spec
<1> QED BY <1>3, <1>4, PTL

-----------------------------------------------------------------------------
(* Layers.                                                                 *)

LEMMA LeastIsMin ==
    ASSUME NEW set \in SUBSET Nat, set # {}
    PROVE  Min(set) \in set /\ \A i \in set : Min(set) <= i
<1>1. PICK m \in set : \A n \in set : m <= n
  BY Keeping!Least
<1>2. set \in SUBSET Int
  OBVIOUS
<1> QED BY <1>1, <1>2, MinIs

LEMMA FirstOfFour ==
    ASSUME NEW v, NEW set, set = {i \in 1..4 : v[i] # {}}
    PROVE  /\ set # {} => Min(set) \in 1..4
           /\ (IF set = {} THEN {} ELSE v[Min(set)]) = InOrder(v[1], v[2], v[3], v[4])
<1>1. /\ 1 \in set <=> v[1] # {}
      /\ 2 \in set <=> v[2] # {}
      /\ 3 \in set <=> v[3] # {}
      /\ 4 \in set <=> v[4] # {}
  OBVIOUS
<1>2. set \in SUBSET Nat /\ \A i \in set : i \in {1, 2, 3, 4}
  OBVIOUS
<1>3. CASE set = {}
  BY <1>1, <1>3 DEF InOrder, Prefer
<1>4. CASE set # {}
  <2> DEFINE m == Min(set)
  <2>1. m \in set /\ \A i \in set : m <= i
    BY <1>2, <1>4, LeastIsMin
  <2> HIDE DEF m
  <2>2. /\ m = 1 => v[1] # {}
        /\ m = 2 => v[1] = {} /\ v[2] # {}
        /\ m = 3 => v[1] = {} /\ v[2] = {} /\ v[3] # {}
        /\ m = 4 => v[1] = {} /\ v[2] = {} /\ v[3] = {} /\ v[4] # {}
    BY <1>1, <2>1
  <2>3. m \in {1, 2, 3, 4}
    BY <1>2, <2>1
  <2>4. v[m] = InOrder(v[1], v[2], v[3], v[4])
    BY <2>2, <2>3 DEF InOrder, Prefer
  <2> QED BY <1>4, <2>3, <2>4 DEF m
<1> QED BY <1>3, <1>4

\* The first layer of each field.
FirstCpus(layers) == FirstLayer(layers, LAMBDA q : q.cpus)
FirstScheds(layers) == FirstLayer(layers, LAMBDA q : q.sched)
FirstNices(layers) == FirstLayer(layers, LAMBDA q : q.nice)

LEMMA FirstLayers ==
    ASSUME NEW a, NEW b, NEW c, NEW d
    PROVE  /\ FirstCpus(<<a, b, c, d>>) = InOrder(CpusOf(a), CpusOf(b), CpusOf(c), CpusOf(d))
           /\ FirstScheds(<<a, b, c, d>>) = InOrder(SchedsOf(a), SchedsOf(b), SchedsOf(c), SchedsOf(d))
           /\ FirstNices(<<a, b, c, d>>) = InOrder(NicesOf(a), NicesOf(b), NicesOf(c), NicesOf(d))
<1>1. FirstCpus(<<a, b, c, d>>) = InOrder(CpusOf(a), CpusOf(b), CpusOf(c), CpusOf(d))
  <2> DEFINE layers == <<a, b, c, d>>
             v == [i \in 1..4 |-> CpusOf(layers[i])]
             set == {i \in DOMAIN layers : CpusOf(layers[i]) # {}}
  <2>1. FirstCpus(layers) = IF set = {} THEN {} ELSE CpusOf(layers[Min(set)])
    BY DEF FirstCpus, FirstLayer, CpusOf
  <2>2. InOrder(CpusOf(a), CpusOf(b), CpusOf(c), CpusOf(d)) = InOrder(v[1], v[2], v[3], v[4])
    OBVIOUS
  <2>3. DOMAIN layers = 1..4 /\ \A i \in 1..4 : v[i] = CpusOf(layers[i])
    OBVIOUS
  <2> HIDE DEF v, layers
  <2>4. set = {i \in 1..4 : v[i] # {}}
    BY <2>3
  <2> HIDE DEF set
  <2>5. /\ set # {} => Min(set) \in 1..4
        /\ (IF set = {} THEN {} ELSE v[Min(set)]) = InOrder(v[1], v[2], v[3], v[4])
    BY <2>4, FirstOfFour
  <2> QED BY <2>1, <2>2, <2>3, <2>5 DEF layers
<1>2. FirstScheds(<<a, b, c, d>>) = InOrder(SchedsOf(a), SchedsOf(b), SchedsOf(c), SchedsOf(d))
  <2> DEFINE layers == <<a, b, c, d>>
             v == [i \in 1..4 |-> SchedsOf(layers[i])]
             set == {i \in DOMAIN layers : SchedsOf(layers[i]) # {}}
  <2>1. FirstScheds(layers) = IF set = {} THEN {} ELSE SchedsOf(layers[Min(set)])
    BY DEF FirstScheds, FirstLayer, SchedsOf
  <2>2. InOrder(SchedsOf(a), SchedsOf(b), SchedsOf(c), SchedsOf(d)) = InOrder(v[1], v[2], v[3], v[4])
    OBVIOUS
  <2>3. DOMAIN layers = 1..4 /\ \A i \in 1..4 : v[i] = SchedsOf(layers[i])
    OBVIOUS
  <2> HIDE DEF v, layers
  <2>4. set = {i \in 1..4 : v[i] # {}}
    BY <2>3
  <2> HIDE DEF set
  <2>5. /\ set # {} => Min(set) \in 1..4
        /\ (IF set = {} THEN {} ELSE v[Min(set)]) = InOrder(v[1], v[2], v[3], v[4])
    BY <2>4, FirstOfFour
  <2> QED BY <2>1, <2>2, <2>3, <2>5 DEF layers
<1>3. FirstNices(<<a, b, c, d>>) = InOrder(NicesOf(a), NicesOf(b), NicesOf(c), NicesOf(d))
  <2> DEFINE layers == <<a, b, c, d>>
             v == [i \in 1..4 |-> NicesOf(layers[i])]
             set == {i \in DOMAIN layers : NicesOf(layers[i]) # {}}
  <2>1. FirstNices(layers) = IF set = {} THEN {} ELSE NicesOf(layers[Min(set)])
    BY DEF FirstNices, FirstLayer, NicesOf
  <2>2. InOrder(NicesOf(a), NicesOf(b), NicesOf(c), NicesOf(d)) = InOrder(v[1], v[2], v[3], v[4])
    OBVIOUS
  <2>3. DOMAIN layers = 1..4 /\ \A i \in 1..4 : v[i] = NicesOf(layers[i])
    OBVIOUS
  <2> HIDE DEF v, layers
  <2>4. set = {i \in 1..4 : v[i] # {}}
    BY <2>3
  <2> HIDE DEF set
  <2>5. /\ set # {} => Min(set) \in 1..4
        /\ (IF set = {} THEN {} ELSE v[Min(set)]) = InOrder(v[1], v[2], v[3], v[4])
    BY <2>4, FirstOfFour
  <2> QED BY <2>1, <2>2, <2>3, <2>5 DEF layers
<1> QED BY <1>1, <1>2, <1>3

LEMMA LayersAre ==
    ASSUME NEW p, NEW t
    PROVE  Layers(p, t) = <<Hits(rules, Own(p), t), Hits(rules, BestWildcard(rules, p), t),
                            Wholes(rules, Own(p)), Wholes(rules, BestWildcard(rules, p))>>
<1>1. {q \in {p} : ~ContainsWildcard(q)} = Own(p)
  BY DEF Own
<1> DEFINE own == {q \in {p} : ~ContainsWildcard(q)}
<1>2. Layers(p, t) = <<Hits(rules, own, t), Hits(rules, BestWildcard(rules, p), t),
                       Wholes(rules, own), Wholes(rules, BestWildcard(rules, p))>>
  BY DEF Layers, Hits, Wholes
<1> QED BY <1>1, <1>2

\* A policy that sets something, whatever its directory.
LEMMA SetsSomething ==
    ASSUME NEW q \in Policies
    PROVE  [q EXCEPT !.cpusetDir = <<>>] # NoPolicy <=> ~SetsNothing(q)
<1> DEFINE r == [q EXCEPT !.cpusetDir = <<>>]
<1>1. /\ r = [cpus |-> q.cpus, cpusetDir |-> <<>>, sched |-> q.sched, nice |-> q.nice,
              uclampMin |-> q.uclampMin, uclampMax |-> q.uclampMax]
  BY DEF Policies
<1>2. ASSUME SetsNothing(q) PROVE r = NoPolicy
  BY <1>1, <1>2 DEF SetsNothing, NoPolicy
<1>3. ASSUME r = NoPolicy PROVE SetsNothing(q)
  <2>1. /\ r.cpus = q.cpus /\ r.sched = q.sched /\ r.nice = q.nice
        /\ r.uclampMin = q.uclampMin /\ r.uclampMax = q.uclampMax
    BY <1>1
  <2> HIDE DEF r
  <2> QED BY <1>3, <2>1 DEF SetsNothing, NoPolicy
<1> QED BY <1>2, <1>3

LEMMA StrictestIs ==
    ASSUME NEW U \in SUBSET Int, NEW v
    PROVE  /\ GreatestOf(v, U) => v = IF U = {} THEN {} ELSE {Max(U)}
           /\ LeastOf(v, U) => v = IF U = {} THEN {} ELSE {Min(U)}
<1>1. ASSUME GreatestOf(v, U) PROVE v = IF U = {} THEN {} ELSE {Max(U)}
  <2>1. CASE U = {}
    BY <1>1, <2>1 DEF GreatestOf
  <2>2. CASE U # {}
    <3>1. PICK n \in U : v = {n} /\ \A x \in U : x <= n
      BY <1>1, <2>2 DEF GreatestOf
    <3>2. Max(U) = n
      BY <3>1, MaxIs
    <3> QED BY <2>2, <3>1, <3>2
  <2> QED BY <2>1, <2>2
<1>2. ASSUME LeastOf(v, U) PROVE v = IF U = {} THEN {} ELSE {Min(U)}
  <2>1. CASE U = {}
    BY <1>2, <2>1 DEF LeastOf
  <2>2. CASE U # {}
    <3>1. PICK n \in U : v = {n} /\ \A x \in U : n <= x
      BY <1>2, <2>2 DEF LeastOf
    <3>2. Min(U) = n
      BY <3>1, MinIs
    <3> QED BY <2>2, <3>1, <3>2
  <2> QED BY <2>1, <2>2
<1> QED BY <1>1, <1>2

(***************************************************************************)
(* Whatever is loaded, it resolves in layers.                              *)
(***************************************************************************)
LEMMA LoadedIsLayered == LoadedInv => ResolveIsLayered
<1> SUFFICES ASSUME LoadedInv, pc = "loaded", NEW p \in Packages, NEW t \in ThreadNames
             PROVE  LayeredFor(p, t)
  BY DEF ResolveIsLayered
<1> DEFINE wild == BestWildcard(rules, p)
           T1 == Hits(rules, Own(p), t)
           T2 == Hits(rules, wild, t)
           P1 == Wholes(rules, Own(p))
           P2 == Wholes(rules, wild)
           ofT == T1 \cup T2
           ofP == P1 \cup P2
           cs == InOrder(CpusOf(T1), CpusOf(T2), CpusOf(P1), CpusOf(P2))
           ss == InOrder(SchedsOf(T1), SchedsOf(T2), SchedsOf(P1), SchedsOf(P2))
           ns == InOrder(NicesOf(T1), NicesOf(T2), NicesOf(P1), NicesOf(P2))
           ls == Prefer(MinsOf(ofT), MinsOf(ofP))
           us == Prefer(MaxsOf(ofT), MaxsOf(ofP))
           sets(q) == [q EXCEPT !.cpusetDir = <<>>] # NoPolicy
<1>1. /\ rules \in Seq(CompiledRules)
      /\ \A r \in Range(rules) : r \in CompiledRules /\ r.policy.cpus \subseteq topo.present
  BY ReloadsAreTheSame DEF LoadedInv
<1>2. Layers(p, t) = <<T1, T2, P1, P2>>
  BY LayersAre
<1>3. /\ \A q \in Resolve(rules, p, t) : ResolvedFrom(q, T1, T2, P1, P2)
      /\ Resolve(rules, p, t) # {} <=>
            /\ ofT = {} \/ \E q \in ofT : ~SetsNothing(q)
            /\ cs # {} \/ ss # {} \/ ns # {}
  BY <1>1, ResolvedInLayers
<1>4. \A q \in T1 \cup T2 \cup P1 \cup P2 : \E r \in Range(rules) : q = r.policy
  BY DEF Hits, Wholes
<1> HIDE DEF wild, T1, T2, P1, P2
<1>5. /\ MinsOf(ofT) \subseteq Int /\ MinsOf(ofP) \subseteq Int
      /\ MaxsOf(ofT) \subseteq Int /\ MaxsOf(ofP) \subseteq Int
      /\ ofT \subseteq Policies
  <2>1. \A P \in {ofT, ofP} : P \subseteq Policies /\ MinsOf(P) \subseteq Int /\ MaxsOf(P) \subseteq Int
    <3> TAKE P \in {ofT, ofP}
    <3>1. \A q \in P : \E r \in Range(rules) : q = r.policy
      BY <1>4
    <3> DEFINE present == topo.present
    <3>3. rules \in Seq(CompiledRules) /\ \A r \in Range(rules) : r \in CompiledRules /\ r.policy.cpus \subseteq present
      BY <1>1
    <3> HIDE DEF ofT, ofP, present
    <3>2. /\ P \subseteq Policies /\ CpusOf(P) \subseteq present
          /\ SchedsOf(P) \subseteq Scheds /\ NicesOf(P) \subseteq Int
          /\ MinsOf(P) \subseteq Int /\ MaxsOf(P) \subseteq Int
      BY <3>1, <3>3, LayersOfRules
    <3> QED BY <3>2
  <2> QED BY <2>1
<1>6. \A q \in ofT : sets(q) <=> ~SetsNothing(q)
  BY <1>5, SetsSomething
<1>7. /\ FirstLayer(Layers(p, t), LAMBDA q : q.cpus) = cs
      /\ FirstLayer(Layers(p, t), LAMBDA q : q.sched) = ss
      /\ FirstLayer(Layers(p, t), LAMBDA q : q.nice) = ns
  <2>1. /\ FirstCpus(Layers(p, t)) = cs /\ FirstScheds(Layers(p, t)) = ss
        /\ FirstNices(Layers(p, t)) = ns
    BY <1>2, FirstLayers
  <2> QED BY <2>1 DEF FirstCpus, FirstScheds, FirstNices
<1>8. /\ Layers(p, t)[1] \cup Layers(p, t)[2] = ofT
      /\ Layers(p, t)[3] \cup Layers(p, t)[4] = ofP
  BY <1>2
<1>9. /\ \A S : UNION {q.uclampMin : q \in S} = MinsOf(S)
      /\ \A S : UNION {q.uclampMax : q \in S} = MaxsOf(S)
      /\ \/ MinsOf(ofT) # {} /\ MinsOf(ofP) # {}
         \/ MinsOf(ofT \cup ofP) = ls
      /\ \/ MaxsOf(ofT) # {} /\ MaxsOf(ofP) # {}
         \/ MaxsOf(ofT \cup ofP) = us
  <2>1. /\ MinsOf(ofT \cup ofP) = MinsOf(ofT) \cup MinsOf(ofP)
        /\ MaxsOf(ofT \cup ofP) = MaxsOf(ofT) \cup MaxsOf(ofP)
    BY DEF MinsOf, MaxsOf
  <2> QED BY <2>1 DEF MinsOf, MaxsOf, Prefer
<1>10. \A r \in Resolve(rules, p, t) :
          /\ r.cpus = cs
          /\ r.sched \subseteq ss /\ (r.sched = {} <=> ss = {})
          /\ r.nice \subseteq ns /\ (r.nice = {} <=> ns = {})
          /\ r.uclampMin = (IF ls = {} THEN {} ELSE {Max(ls)})
          /\ r.uclampMax = (IF us = {} THEN {} ELSE {Min(us)})
  <2> TAKE r \in Resolve(rules, p, t)
  <2>1. /\ r.cpus = cs /\ SomeOf(r.sched, ss) /\ SomeOf(r.nice, ns)
        /\ GreatestOf(r.uclampMin, ls) /\ LeastOf(r.uclampMax, us)
    BY <1>3 DEF ResolvedFrom
  <2>2. ls \subseteq Int /\ us \subseteq Int
    BY <1>5 DEF Prefer
  <2> HIDE DEF cs, ss, ns, ls, us
  <2>3. /\ r.sched \subseteq ss /\ (r.sched = {} <=> ss = {})
        /\ r.nice \subseteq ns /\ (r.nice = {} <=> ns = {})
    BY <2>1 DEF SomeOf
  <2>4. /\ r.uclampMin = (IF ls = {} THEN {} ELSE {Max(ls)})
        /\ r.uclampMax = (IF us = {} THEN {} ELSE {Min(us)})
    BY <2>1, <2>2, StrictestIs
  <2> QED BY <2>1, <2>3, <2>4
<1> HIDE DEF cs, ss, ns, ls, us, ofT, ofP
<1> QED BY <1>3, <1>6, <1>7, <1>8, <1>9, <1>10 DEF LayeredFor

(***************************************************************************)
(* Whatever the configuration, the chip, the package and the thread, the   *)
(* policy is that of the layers of the rules (ruleset.rs resolve).         *)
(***************************************************************************)
THEOREM ResolvesInLayers == Spec => []ResolveIsLayered
<1>1. TypeInv => ResolveIsLayered
  BY LoadedIsLayered DEF TypeInv
<1> QED BY <1>1, TypeInvariant, PTL

-----------------------------------------------------------------------------
(* Scores.                                                                 *)

LEMMA TimesIsMonotone ==
    ASSUME NEW a \in Nat, NEW b \in Nat, NEW c \in Nat, a <= b
    PROVE  c * a \in Nat /\ c * b \in Nat /\ c * a <= c * b
<1> DEFINE d == b - a
<1>1. d \in Nat /\ b = a + d
  OBVIOUS
<1> HIDE DEF d
<1>2. c * b = c * a + c * d /\ c * d \in Nat /\ c * a \in Nat
  BY <1>1
<1> QED BY <1>2

LEMMA ScoreInRange ==
    ASSUME NEW P \in Nat, NEW W \in Nat, NEW M \in Nat \ {0}, NEW X \in Nat, (P + 1) * X < M,
           NEW k \in Nat, NEW n \in Nat, NEW L \in Nat, k + n <= L, L < X,
           k > 0, 2 * (W * n) <= P
    PROVE  LET score == P * k + L - n - W * n
           IN score > 0 /\ score < M /\ score % M = score
<1> DEFINE A == P * k
           B == W * n
<1>1. P * 1 \in Nat /\ P * 1 <= A /\ A \in Nat /\ B \in Nat
  BY TimesIsMonotone
<1>2. A <= P * L /\ P * L \in Nat
  BY TimesIsMonotone
<1>3. (P + 1) * L <= (P + 1) * X /\ (P + 1) * L \in Nat /\ (P + 1) * X \in Nat
  BY TimesIsMonotone
<1>4. (P + 1) * L = P * L + L
  OBVIOUS
<1>5. P * 1 = P
  OBVIOUS
<1> DEFINE C == (P + 1) * X
           D == P * L
<1>6. C < M /\ 2 * B <= P /\ P <= A /\ A <= D /\ D + L <= C /\ C \in Nat /\ D \in Nat
  BY <1>1, <1>2, <1>3, <1>4, <1>5
<1> DEFINE score == A + L - n - B
<1> HIDE DEF A, B, C, D
<1>7. score > 0 /\ score < M /\ score \in Nat
  BY <1>1, <1>6
<1> HIDE DEF score
<1>8. score % M = score
  BY <1>7
<1> QED BY <1>7, <1>8 DEF score, A, B

LEMMA LongerScoresMore ==
    ASSUME NEW P \in Nat, NEW W \in Nat,
           NEW k \in Nat, NEW n \in Nat, NEW L \in Nat, k + n <= L, 2 * (L - k - n) <= P,
           NEW j \in Nat, NEW m \in Nat, NEW K \in Nat, j + m <= K, 2 * (W * m) <= P,
           k < j
    PROVE  P * k + L - n - W * n < P * j + K - m - W * m
<1> DEFINE A == P * k
           B == P * j
           C == W * n
           D == W * m
<1>1. A \in Nat /\ B \in Nat /\ C \in Nat /\ D \in Nat
  OBVIOUS
<1>2. A + P <= B
  <2>1. P * (k + 1) <= P * j
    BY TimesIsMonotone
  <2>2. P * (k + 1) = P * k + P
    OBVIOUS
  <2> QED BY <2>1, <2>2
<1>3. 2 * D <= P
  OBVIOUS
<1> HIDE DEF A, B, C, D
<1>4. A + L - n - C < B + K - m - D
  BY <1>1, <1>2, <1>3
<1> QED BY <1>4 DEF A, B, C, D

LEMMA LightTailScores ==
    ASSUME NEW w \in Names, Len(w) < MaxPkgLen, LightTail(w)
    PROVE  LET n == Cardinality(WildcardPlaces(w))
           IN /\ PatternSpecificity(w) =
                   PrefixWeight * FixedPrefix(w) + Len(w) - n - WildcardWeight * n
              /\ PatternSpecificity(w) > 0
<1> DEFINE n == Cardinality(WildcardPlaces(w))
           k == FixedPrefix(w)
           L == Len(w)
<1>1. /\ k \in Nat /\ n \in Nat /\ k + n <= L
      /\ PatternSpecificity(w) = (PrefixWeight * k + L - n - WildcardWeight * n) % WordModulus
  BY SpecificityParts
<1>2. k > 0 /\ 2 * (WildcardWeight * n) <= PrefixWeight
  BY DEF LightTail
<1>3. L \in Nat /\ L < MaxPkgLen
  BY DEF Names
<1>4. /\ PrefixWeight \in Nat /\ WildcardWeight \in Nat /\ WordModulus \in Nat \ {0}
      /\ MaxPkgLen \in Nat /\ (PrefixWeight + 1) * MaxPkgLen < WordModulus
  BY RulesAssumption
<1> HIDE DEF k, L, n
<1>5. LET score == PrefixWeight * k + L - n - WildcardWeight * n
      IN score > 0 /\ score < WordModulus /\ score % WordModulus = score
  BY <1>1, <1>2, <1>3, <1>4, ScoreInRange
<1> QED BY <1>1, <1>5 DEF k, L, n

LEMMA LongerPrefixWins ==
    ASSUME NEW v \in Names, Len(v) < MaxPkgLen, LightTail(v),
           NEW w \in Names, Len(w) < MaxPkgLen, LightTail(w),
           FixedPrefix(v) < FixedPrefix(w)
    PROVE  PatternSpecificity(v) < PatternSpecificity(w)
<1> DEFINE n(x) == Cardinality(WildcardPlaces(x))
           k(x) == FixedPrefix(x)
<1>1. \A x \in {v, w} :
         /\ k(x) \in Nat /\ n(x) \in Nat /\ k(x) + n(x) <= Len(x)
         /\ PatternSpecificity(x) = PrefixWeight * k(x) + Len(x) - n(x) - WildcardWeight * n(x)
         /\ Len(x) \in Nat
         /\ 2 * (Len(x) - k(x) - n(x)) <= PrefixWeight
         /\ 2 * (WildcardWeight * n(x)) <= PrefixWeight
  <2> TAKE x \in {v, w}
  <2>1. x \in Names /\ Len(x) < MaxPkgLen /\ LightTail(x)
    OBVIOUS
  <2>2. k(x) \in Nat /\ n(x) \in Nat /\ k(x) + n(x) <= Len(x)
    BY <2>1, SpecificityParts
  <2>3. PatternSpecificity(x) = PrefixWeight * k(x) + Len(x) - n(x) - WildcardWeight * n(x)
    BY <2>1, LightTailScores
  <2>4. Len(x) \in Nat
    BY <2>1 DEF Names
  <2>5. /\ 2 * (Len(x) - k(x) - n(x)) <= PrefixWeight
        /\ 2 * (WildcardWeight * n(x)) <= PrefixWeight
    BY <2>1 DEF LightTail
  <2> QED BY <2>2, <2>3, <2>4, <2>5
<1>2. PrefixWeight \in Nat /\ WildcardWeight \in Nat /\ k(v) < k(w)
  BY RulesAssumption
<1> HIDE DEF k, n
<1>3. PrefixWeight * k(v) + Len(v) - n(v) - WildcardWeight * n(v)
        < PrefixWeight * k(w) + Len(w) - n(w) - WildcardWeight * n(w)
  BY <1>1, <1>2, LongerScoresMore
<1> QED BY <1>1, <1>3

LEMMA LoadedPrefixWins == LoadedInv => LongestPrefixWins
<1> SUFFICES ASSUME LoadedInv, pc = "loaded", NEW p \in Packages,
                    MatchingWildcards(rules, p) # {},
                    \A w \in MatchingWildcards(rules, p) : LightTail(w)
             PROVE  /\ BestWildcard(rules, p) # {}
                    /\ \A w \in MatchingWildcards(rules, p), b \in BestWildcard(rules, p) :
                          FixedPrefix(w) <= FixedPrefix(b)
  <2>1. ASSUME LoadedInv, pc = "loaded" PROVE Range(WildcardGroups(rules)) = WildcardsOf(rules)
    BY <2>1, ReloadsAreTheSame, WildcardGroupsAre DEF LoadedInv
  <2> QED BY <2>1 DEF LongestPrefixWins, MatchingWildcards
<1> DEFINE matching == MatchingWildcards(rules, p)
           best == BestWildcard(rules, p)
<1>1. /\ rules \in Seq(CompiledRules)
      /\ \A r \in Range(rules) : r.pkg \in Names /\ Len(r.pkg) < MaxPkgLen
  BY ReloadsAreTheSame DEF LoadedInv
<1>2. \A w \in matching : w \in Names /\ Len(w) < MaxPkgLen
  BY <1>1 DEF MatchingWildcards, WildcardsOf
<1>3. /\ best = {} \/ \E w \in matching : best = {w} /\ PatternSpecificity(w) > 0
      /\ \A w \in matching : /\ best = {} => PatternSpecificity(w) = 0
                             /\ \A b \in best : PatternSpecificity(w) <= PatternSpecificity(b)
  BY <1>1, BestWildcardIsBest
<1>4. \A w \in matching : PatternSpecificity(w) > 0 /\ LightTail(w)
  BY <1>2, LightTailScores
<1>5. \A w \in matching : /\ PatternSpecificity(w) \in Nat
                          /\ FixedPrefix(w) \in Nat
  <2> SUFFICES ASSUME NEW w \in matching PROVE PatternSpecificity(w) \in Nat /\ FixedPrefix(w) \in Nat
    OBVIOUS
  <2>1. PatternSpecificity(w) \in 0..(WordModulus - 1) /\ FixedPrefix(w) \in Nat
    BY <1>2, SpecificityParts
  <2> QED BY <2>1
<1> HIDE DEF matching, best
<1>6. best # {}
  <2>1. PICK w \in matching : TRUE
    BY DEF matching
  <2> QED BY <1>3, <1>4, <1>5, <2>1
<1>7. ASSUME NEW w \in matching, NEW b \in best PROVE FixedPrefix(w) <= FixedPrefix(b)
  <2>1. b \in matching /\ PatternSpecificity(w) <= PatternSpecificity(b)
    BY <1>3
  <2>2. FixedPrefix(b) < FixedPrefix(w) => PatternSpecificity(b) < PatternSpecificity(w)
    BY <1>2, <1>4, <2>1, LongerPrefixWins
  <2> QED BY <1>5, <2>1, <2>2
<1> QED BY <1>6, <1>7 DEF matching, best

(***************************************************************************)
(* Among the patterns that match a package, all of a light tail, the best  *)
(* wildcard is one of the longest fixed prefix (ruleset.rs                 *)
(* pattern_specificity, docs/matcher.md).                                  *)
(***************************************************************************)
THEOREM LongestPrefixesWin == Spec => []LongestPrefixWins
<1>1. TypeInv => LongestPrefixWins
  BY LoadedPrefixWins DEF TypeInv
<1> QED BY <1>1, TypeInvariant, PTL

-----------------------------------------------------------------------------
(* Reloads.                                                                *)

LEMMA InRange ==
    ASSUME NEW T, NEW seq \in Seq(T)
    PROVE  \A x \in Range(seq) : x \in T
BY DEF Range

LEMMA SameBest ==
    ASSUME NEW R \in Seq(CompiledRules), NEW Q \in Seq(CompiledRules), Range(R) = Range(Q), NEW p,
           \A v, w \in MatchingWildcards(R, p) :
              v # w => PatternSpecificity(v) # PatternSpecificity(w)
    PROVE  BestWildcard(R, p) = BestWildcard(Q, p)
<1> DEFINE matching == MatchingWildcards(R, p)
           a == BestWildcard(R, p)
           b == BestWildcard(Q, p)
<1>1. MatchingWildcards(Q, p) = matching
  BY DEF MatchingWildcards, WildcardsOf
<1>2. /\ a = {} \/ \E w \in matching : a = {w} /\ PatternSpecificity(w) > 0
      /\ \A w \in matching : /\ a = {} => PatternSpecificity(w) = 0
                             /\ \A x \in a : PatternSpecificity(w) <= PatternSpecificity(x)
  BY BestWildcardIsBest
<1>3. /\ b = {} \/ \E w \in matching : b = {w} /\ PatternSpecificity(w) > 0
      /\ \A w \in matching : /\ b = {} => PatternSpecificity(w) = 0
                             /\ \A x \in b : PatternSpecificity(w) <= PatternSpecificity(x)
  BY <1>1, BestWildcardIsBest
<1>4. \A w \in matching : PatternSpecificity(w) \in Nat
  <2> SUFFICES ASSUME NEW w \in matching PROVE PatternSpecificity(w) \in Nat
    OBVIOUS
  <2>1. w \in Names
    <3>1. \A r \in Range(R) : r \in CompiledRules
      BY InRange
    <3> QED BY <3>1 DEF MatchingWildcards, WildcardsOf, CompiledRules
  <2>2. PatternSpecificity(w) \in 0..(WordModulus - 1)
    BY <2>1, SpecificityParts
  <2> QED BY <2>2
<1> HIDE DEF matching, a, b
<1>5. ASSUME a = {} PROVE a = b
  BY <1>2, <1>3, <1>4, <1>5
<1>6. ASSUME b = {} PROVE a = b
  BY <1>2, <1>3, <1>4, <1>6
<1>7. ASSUME NEW v \in matching, a = {v}, NEW w \in matching, b = {w} PROVE a = b
  <2>1. PatternSpecificity(v) <= PatternSpecificity(w) /\ PatternSpecificity(w) <= PatternSpecificity(v)
    BY <1>2, <1>3, <1>7
  <2>2. PatternSpecificity(v) = PatternSpecificity(w)
    BY <1>4, <2>1
  <2>3. v = w
    BY <2>2 DEF matching
  <2> QED BY <1>7, <2>3
<1> QED BY <1>2, <1>3, <1>5, <1>6, <1>7 DEF a, b

\* What of a policy does not depend on the order of its rules.
Lasting(R, p, t) == {<<r.cpus, r.uclampMin, r.uclampMax>> : r \in Resolve(R, p, t)}

LEMMA LastingFromRange ==
    ASSUME NEW R \in Seq(CompiledRules), NEW Q \in Seq(CompiledRules), Range(R) = Range(Q),
           NEW p, NEW t, BestWildcard(R, p) = BestWildcard(Q, p)
    PROVE  Lasting(R, p, t) \subseteq Lasting(Q, p, t)
<1> DEFINE T1 == Hits(R, Own(p), t)
           T2 == Hits(R, BestWildcard(R, p), t)
           P1 == Wholes(R, Own(p))
           P2 == Wholes(R, BestWildcard(R, p))
           ls == Prefer(MinsOf(T1 \cup T2), MinsOf(P1 \cup P2))
           us == Prefer(MaxsOf(T1 \cup T2), MaxsOf(P1 \cup P2))
           some == /\ T1 \cup T2 = {} \/ \E q \in T1 \cup T2 : ~SetsNothing(q)
                   /\ \/ InOrder(CpusOf(T1), CpusOf(T2), CpusOf(P1), CpusOf(P2)) # {}
                      \/ InOrder(SchedsOf(T1), SchedsOf(T2), SchedsOf(P1), SchedsOf(P2)) # {}
                      \/ InOrder(NicesOf(T1), NicesOf(T2), NicesOf(P1), NicesOf(P2)) # {}
<1>1. /\ T1 = Hits(Q, Own(p), t) /\ T2 = Hits(Q, BestWildcard(Q, p), t)
      /\ P1 = Wholes(Q, Own(p)) /\ P2 = Wholes(Q, BestWildcard(Q, p))
  BY DEF Hits, Wholes
<1>2. /\ \A q \in Resolve(R, p, t) : ResolvedFrom(q, T1, T2, P1, P2)
      /\ Resolve(R, p, t) # {} <=> some
  BY ResolvedInLayers
<1> HIDE DEF some
<1>3. /\ \A q \in Resolve(Q, p, t) : ResolvedFrom(q, T1, T2, P1, P2)
      /\ Resolve(Q, p, t) # {} <=> some
  <2>1. LET U1 == Hits(Q, Own(p), t)
            U2 == Hits(Q, BestWildcard(Q, p), t)
            S1 == Wholes(Q, Own(p))
            S2 == Wholes(Q, BestWildcard(Q, p))
        IN /\ \A q \in Resolve(Q, p, t) : ResolvedFrom(q, U1, U2, S1, S2)
           /\ Resolve(Q, p, t) # {} <=>
                /\ U1 \cup U2 = {} \/ \E q \in U1 \cup U2 : ~SetsNothing(q)
                /\ \/ InOrder(CpusOf(U1), CpusOf(U2), CpusOf(S1), CpusOf(S2)) # {}
                   \/ InOrder(SchedsOf(U1), SchedsOf(U2), SchedsOf(S1), SchedsOf(S2)) # {}
                   \/ InOrder(NicesOf(U1), NicesOf(U2), NicesOf(S1), NicesOf(S2)) # {}
    BY ResolvedInLayers
  <2> HIDE DEF T1, T2, P1, P2
  <2> QED BY <1>1, <2>1 DEF some
<1>4. ls \in SUBSET Int /\ us \in SUBSET Int
  <2>1. \A r \in Range(R) : r \in CompiledRules /\ r.policy.cpus \subseteq Cpus
    <3>1. \A r \in Range(R) : r \in CompiledRules
      BY InRange
    <3> QED BY <3>1 DEF CompiledRules, Policies
  <2>2. \A q \in T1 \cup T2 : \E r \in Range(R) : q = r.policy
    BY DEF Hits
  <2>3. \A q \in P1 \cup P2 : \E r \in Range(R) : q = r.policy
    BY DEF Wholes
  <2> HIDE DEF T1, T2, P1, P2
  <2>4. /\ MinsOf(T1 \cup T2) \subseteq Int /\ MaxsOf(T1 \cup T2) \subseteq Int
    <3> DEFINE P == T1 \cup T2
    <3> HIDE DEF P
    <3>1. \A q \in P : \E r \in Range(R) : q = r.policy
      BY <2>2 DEF P
    <3>2. MinsOf(P) \subseteq Int /\ MaxsOf(P) \subseteq Int
      BY <2>1, <3>1, LayersOfRules
    <3> QED BY <3>2 DEF P
  <2>5. /\ MinsOf(P1 \cup P2) \subseteq Int /\ MaxsOf(P1 \cup P2) \subseteq Int
    <3> DEFINE P == P1 \cup P2
    <3> HIDE DEF P
    <3>1. \A q \in P : \E r \in Range(R) : q = r.policy
      BY <2>3 DEF P
    <3>2. MinsOf(P) \subseteq Int /\ MaxsOf(P) \subseteq Int
      BY <2>1, <3>1, LayersOfRules
    <3> QED BY <3>2 DEF P
  <2> QED BY <2>4, <2>5 DEF Prefer
<1> SUFFICES ASSUME NEW q \in Resolve(R, p, t)
             PROVE  <<q.cpus, q.uclampMin, q.uclampMax>> \in Lasting(Q, p, t)
  BY DEF Lasting
<1> HIDE DEF T1, T2, P1, P2
<1>5. PICK r \in Resolve(Q, p, t) : TRUE
  BY <1>2, <1>3
<1>6. /\ ResolvedFrom(q, T1, T2, P1, P2) /\ ResolvedFrom(r, T1, T2, P1, P2)
  BY <1>2, <1>3
<1>7. /\ q.cpus = r.cpus
      /\ GreatestOf(q.uclampMin, ls) /\ GreatestOf(r.uclampMin, ls)
      /\ LeastOf(q.uclampMax, us) /\ LeastOf(r.uclampMax, us)
  BY <1>6 DEF ResolvedFrom
<1> HIDE DEF ls, us
<1>8. q.uclampMin = r.uclampMin /\ q.uclampMax = r.uclampMax
  <2>1. \A v : /\ GreatestOf(v, ls) => v = IF ls = {} THEN {} ELSE {Max(ls)}
               /\ LeastOf(v, us) => v = IF us = {} THEN {} ELSE {Min(us)}
    BY <1>4, StrictestIs
  <2> QED BY <1>7, <2>1
<1> QED BY <1>7, <1>8 DEF Lasting

LEMMA LoadedIsStable == LoadedInv => StableAcrossReloads
<1> SUFFICES ASSUME LoadedInv, pc = "loaded", NEW p \in Packages,
                    \A v, w \in MatchingWildcards(rules, p) :
                       v # w => PatternSpecificity(v) # PatternSpecificity(w),
                    NEW t \in ThreadNames
             PROVE  Cardinality({Lasting(R, p, t) : R \in ReloadedRules}) = 1
  <2>1. ASSUME LoadedInv, pc = "loaded" PROVE Range(WildcardGroups(rules)) = WildcardsOf(rules)
    BY <2>1, ReloadsAreTheSame, WildcardGroupsAre DEF LoadedInv
  <2> QED BY <2>1 DEF StableAcrossReloads, MatchingWildcards, ReloadedRules, Lasting
<1>1. /\ rules \in Seq(CompiledRules) /\ Range(rules) = ConfiguredRules
  BY ReloadsAreTheSame DEF LoadedInv
<1>2. ASSUME NEW R \in ReloadedRules PROVE Lasting(R, p, t) = Lasting(rules, p, t)
  <2>1. R \in Seq(CompiledRules) /\ Range(R) = ConfiguredRules
    BY ReloadsAreTheSame
  <2>2. BestWildcard(rules, p) = BestWildcard(R, p)
    BY <1>1, <2>1, SameBest
  <2>3. Lasting(R, p, t) \subseteq Lasting(rules, p, t)
    BY <1>1, <2>1, <2>2, LastingFromRange
  <2>4. Lasting(rules, p, t) \subseteq Lasting(R, p, t)
    BY <1>1, <2>1, <2>2, LastingFromRange
  <2> QED BY <2>3, <2>4
<1>3. rules \in ReloadedRules
  BY DEF LoadedInv
<1>4. {Lasting(R, p, t) : R \in ReloadedRules} = {Lasting(rules, p, t)}
  BY <1>2, <1>3
<1> QED BY <1>4, FS_Singleton

(***************************************************************************)
(* The order of the hash maps decides nothing about CPUs and clamps,       *)
(* unless two patterns that match score the same (config.rs                *)
(* to_rules_with_clusters, ruleset.rs).                                    *)
(***************************************************************************)
THEOREM ReloadsAreStable == Spec => []StableAcrossReloads
<1>1. TypeInv => StableAcrossReloads
  BY LoadedIsStable DEF TypeInv
<1> QED BY <1>1, TypeInvariant, PTL


-----------------------------------------------------------------------------
(* The whitelist.                                                          *)

LEMMA LoadedRuleOf ==
    ASSUME LoadedInv, pc = "loaded", ClustersPresent(topo.clusters, topo.present),
           NEW app \in config, WellFormed(app)
    PROVE  \E r \in Range(rules) : r.pkg = app.pkg
<1>1. /\ rules \in ReloadedRules /\ config \in Configs
      /\ topo.present \subseteq Cpus /\ IsClusters(topo.clusters)
  BY DEF LoadedInv
<1>2. /\ Range(rules) = ConfiguredRules
      /\ \A a \in config : IsApplication(a)
  BY <1>1, ReloadsAreTheSame, PlacementAssumption
<1>3. IsValidProfile(app, topo.present) /\ app.pkg # <<>> /\ Len(app.pkg) < MaxPkgLen
  BY DEF WellFormed, IsValidProfile, IsValidModel, IsRangeOf, Range
<1>4. PICK rc \in RulesOf(app, topo.clusters) : rc.pkg = app.pkg /\ IsValid(rc, topo.present)
  BY <1>1, <1>2, <1>3, RuleOfApplication
<1>5. CompileRule(rc, topo.present) \in Range(rules)
  BY <1>2, <1>4 DEF ConfiguredRules, CompiledFrom
<1>6. CompileRule(rc, topo.present).pkg = app.pkg
  BY <1>4 DEF CompileRule
<1> QED BY <1>5, <1>6

LEMMA MatchIsCollected ==
    ASSUME NEW R \in Seq(CompiledRules), NEW p \in Names, NEW r \in Range(R), Fnmatch(r.pkg, p),
           ContainsWildcard(r.pkg) => PatternSpecificity(r.pkg) > 0
    PROVE  IsInterested(R, p)
<1> DEFINE M == CollectPkgMatches(R, p)
           of(pkgs) == {x \in Range(R) : x.pkg \in pkgs}
<1>1. /\ M \in Seq(Matches)
      /\ {m \in Range(M) : m.source = "PackageExact"} =
            {[rule |-> x, source |-> "PackageExact"] : x \in of(Own(p))}
      /\ {m \in Range(M) : m.source = "PackageWildcard"} =
            {[rule |-> x, source |-> "PackageWildcard"] : x \in of(BestWildcard(R, p))}
  BY CollectedMatches
<1>2. r.pkg \in Names
  <2>1. r \in CompiledRules
    BY InRange
  <2> QED BY <2>1 DEF CompiledRules
<1> HIDE DEF M
<1>3. of(Own(p)) \cup of(BestWildcard(R, p)) # {}
  <2>1. CASE ~ContainsWildcard(r.pkg)
    <3>1. r.pkg = p
      BY <1>2, <2>1, LiteralsMatchThemselves
    <3> QED BY <2>1, <3>1 DEF Own
  <2>2. CASE ContainsWildcard(r.pkg)
    <3>1. r.pkg \in MatchingWildcards(R, p)
      BY <2>2 DEF MatchingWildcards, WildcardsOf
    <3>2. /\ BestWildcard(R, p) = {} \/ \E w \in MatchingWildcards(R, p) :
                BestWildcard(R, p) = {w} /\ PatternSpecificity(w) > 0
          /\ BestWildcard(R, p) = {} => PatternSpecificity(r.pkg) = 0
      BY <3>1, BestWildcardIsBest
    <3>3. PICK w \in MatchingWildcards(R, p) : BestWildcard(R, p) = {w}
      BY <2>2, <3>2
    <3>4. \E x \in Range(R) : x.pkg = w
      BY DEF MatchingWildcards, WildcardsOf
    <3> QED BY <3>3, <3>4
  <2> QED BY <2>1, <2>2
<1>4. \E m : m \in Range(M)
  BY <1>1, <1>3
<1>5. M # <<>>
  BY <1>4 DEF Range
<1> QED BY <1>5 DEF IsInterested, M

LEMMA LoadedIsWhitelisted == LoadedInv => ConfiguredIsWhitelisted
<1> SUFFICES ASSUME LoadedInv, pc = "loaded", ClustersPresent(topo.clusters, topo.present),
                    NEW app \in config, NEW p \in Packages, WellFormed(app), Fnmatch(app.pkg, p)
             PROVE  IsInterested(rules, p) /\ \E r \in Range(rules) : r.pkg = app.pkg
  BY DEF ConfiguredIsWhitelisted, ClustersPresent
<1>1. PICK r \in Range(rules) : r.pkg = app.pkg
  BY LoadedRuleOf
<1>2. rules \in Seq(CompiledRules)
  BY ReloadsAreTheSame DEF LoadedInv
<1>3. p \in Names
  BY PlacementAssumption
<1>4. ContainsWildcard(app.pkg) => PatternSpecificity(app.pkg) > 0
  BY DEF WellFormed
<1> QED BY <1>1, <1>2, <1>3, <1>4, MatchIsCollected

(***************************************************************************)
(* Every package that a well-formed application names is on the whitelist  *)
(* (config.rs has_any, ruleset.rs is_interested).                          *)
(***************************************************************************)
THEOREM ConfiguredAreWhitelisted == Spec => []ConfiguredIsWhitelisted
<1>1. TypeInv => ConfiguredIsWhitelisted
  BY LoadedIsWhitelisted DEF TypeInv
<1> QED BY <1>1, TypeInvariant, PTL

=============================================================================
