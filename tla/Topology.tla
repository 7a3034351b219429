------------------------------ MODULE Topology ------------------------------
(***************************************************************************)
(* CPU sets, their range strings and the clusters of a system on chip:     *)
(* core/src/topology.rs, as operators. A CPU set is a set of numbers; a    *)
(* range string "0-3,6" is the sequence <<<<0, 3>>, <<6, 6>>>> of the      *)
(* numbers as they are written; a part that is no number is NotANumber.    *)
(*                                                                         *)
(* A system on chip is a record: the CPUs that are present, those online   *)
(* when the daemon starts, the cpu_capacity of those that report one, and  *)
(* whether /dev/cpuset can be used.                                        *)
(***************************************************************************)
EXTENDS Integers, Sequences, FiniteSets, SequencesExt

CONSTANTS
    CpuSetSize,         \* CPU_SETSIZE
    AllBigMaxRatio,     \* ALL_BIG_MAX_RATIO
    AllBigMinCapacity   \* ALL_BIG_MIN_CAPACITY

ASSUME TopologyAssumption ==
    CpuSetSize \in Nat \ {0} /\ AllBigMaxRatio \in Nat /\ AllBigMinCapacity \in Nat

Cpus == 0..(CpuSetSize - 1)
\* The first n numbers, in order.
Ascending(n) == [i \in 1..n |-> i - 1]
NotANumber == -1

-----------------------------------------------------------------------------
(* Range strings.                                                          *)

\* parse_cpu_ranges: the bounds of a range may come in either order; a part
\* whose first number cannot be read is skipped, a second one that cannot be
\* read is taken to be the first.
PartCpus(part) ==
    LET a == part[1]
        b == IF part[2] = NotANumber THEN a ELSE part[2]
    IN IF a = NotANumber THEN {} ELSE Cpus \cap (Min({a, b})..Max({a, b}))

ParseCpuRanges(spec, present) == present \cap UNION {PartCpus(p) : p \in Range(spec)}

\* to_range_string, in ascending order: a CPU next to the last range extends
\* it, another one begins a range.
\* Defect: a range is extended over a gap of one CPU.
ExtendRangeLoosely(out, cpu) ==
    IF out # <<>> /\ cpu <= Last(out)[2] + 2
    THEN ReplaceAt(out, Len(out), <<Last(out)[1], cpu>>)
    ELSE Append(out, <<cpu, cpu>>)

ExtendRange(out, cpu) ==
    IF out # <<>> /\ cpu = Last(out)[2] + 1
    THEN ReplaceAt(out, Len(out), <<Last(out)[1], cpu>>)
    ELSE Append(out, <<cpu, cpu>>)

ToRangeString(cpus) ==
    LET push(out, cpu) == IF cpu \in cpus THEN ExtendRange(out, cpu) ELSE out
    IN FoldLeft(push, <<>>, Ascending(CpuSetSize))

-----------------------------------------------------------------------------
(* Clusters.                                                               *)

\* classify_clusters: the kind of the i-th of the groups of equal capacity,
\* in ascending order.
ClassifyCluster(capacities, i) ==
    LET n == Len(capacities)
        allBig == /\ capacities[2] < AllBigMaxRatio * capacities[1]
                  /\ capacities[1] > AllBigMinCapacity
    IN CASE n = 1 -> "unknown"
         [] n = 2 -> IF allBig THEN <<"big", "prime">>[i] ELSE <<"little", "big">>[i]
         [] n > 2 /\ i = 1 -> "little"
         [] n > 2 /\ i = n -> "prime"
         [] n > 3 /\ i = 2 -> "mid"
         [] OTHER -> "big"

\* detect_clusters: without any capacity, one cluster of the CPUs online.
DetectClusters(soc) ==
    LET values == Range(soc.capacity)
        capacities == [i \in 1..Cardinality(values) |->
                         CHOOSE v \in values : Cardinality({w \in values : w < v}) = i - 1]
    IN IF values = {}
       THEN <<[kind |-> "unknown", cpus |-> soc.online, capacity |-> 0]>>
       ELSE [i \in DOMAIN capacities |->
               [kind |-> ClassifyCluster(capacities, i),
                cpus |-> {c \in DOMAIN soc.capacity : soc.capacity[c] = capacities[i]},
                capacity |-> capacities[i]]]

InitCpuTopo(soc) ==
    [present |-> soc.present, online |-> soc.online, cpuset_enabled |-> soc.cpuset,
     clusters |-> DetectClusters(soc)]

=============================================================================
