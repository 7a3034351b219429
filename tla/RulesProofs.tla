----------------------------- MODULE RulesProofs -----------------------------
(* What matching and merging come to, for every list of rules.             *)
EXTENDS Rules, FiniteSetTheorems, TLAPS

-----------------------------------------------------------------------------
(* Keeping.                                                                *)

KeepStep(c, out, x) == IF x \in c.of THEN Append(out, x) ELSE out
Kept(c, k, out) ==
    out \in Seq(c.type) /\ Range(out) = {c.seq[i] : i \in 1..k} \cap c.of

Keeping == INSTANCE FoldTheorems WITH Op <- KeepStep, Inv <- Kept

LEMMA KeepFolds ==
    ASSUME NEW seq, NEW S, NEW T
    PROVE  Keep(seq, S) = Keeping!Fold([seq |-> seq, of |-> S, type |-> T], <<>>, seq)
BY DEF Keep, FoldLeft, MapThenFoldSet, Max, Keeping!Fold, Keeping!FoldLeft,
       Keeping!MapThenFoldSet, Keeping!Max, KeepStep

LEMMA RangeOfAppend ==
    ASSUME NEW T, NEW out \in Seq(T), NEW x \in T
    PROVE  Append(out, x) \in Seq(T) /\ Range(Append(out, x)) = Range(out) \cup {x}
<1>1. /\ Append(out, x) \in Seq(T) /\ Len(Append(out, x)) = Len(out) + 1
      /\ \A i \in 1..Len(out) : Append(out, x)[i] = out[i]
      /\ Append(out, x)[Len(out) + 1] = x
      /\ DOMAIN out = 1..Len(out) /\ DOMAIN Append(out, x) = 1..(Len(out) + 1)
      /\ Len(out) \in Nat
  OBVIOUS
<1>2. 1..(Len(out) + 1) = 1..Len(out) \cup {Len(out) + 1}
  BY <1>1
<1> HIDE <1>1
<1>3. ASSUME NEW y \in Range(Append(out, x)) PROVE y \in Range(out) \cup {x}
  BY <1>1, <1>2 DEF Range
<1>4. ASSUME NEW y \in Range(out) \cup {x} PROVE y \in Range(Append(out, x))
  BY <1>1, <1>2 DEF Range
<1> QED BY <1>1, <1>3, <1>4

LEMMA KeepRange ==
    ASSUME NEW T, NEW seq \in Seq(T), NEW S
    PROVE  Keep(seq, S) \in Seq(T) /\ Range(Keep(seq, S)) = Range(seq) \cap S
<1> DEFINE c == [seq |-> seq, of |-> S, type |-> T]
<1>1. Kept(c, 0, <<>>)
  BY DEF Kept, Range
<1>2. ASSUME NEW k \in 1..Len(seq), NEW out, Kept(c, k - 1, out)
      PROVE  Kept(c, k, KeepStep(c, out, seq[k]))
  <2>1. out \in Seq(T) /\ Range(out) = {seq[i] : i \in 1..(k - 1)} \cap S /\ seq[k] \in T
    BY <1>2 DEF Kept
  <2>2. {seq[i] : i \in 1..k} = {seq[i] : i \in 1..(k - 1)} \cup {seq[k]}
    OBVIOUS
  <2>3. CASE seq[k] \in S
    BY <2>1, <2>2, <2>3, RangeOfAppend DEF Kept, KeepStep
  <2>4. CASE seq[k] \notin S
    BY <2>1, <2>2, <2>4 DEF Kept, KeepStep
  <2> QED BY <2>3, <2>4
<1>3. Kept(c, Len(seq), Keeping!Fold(c, <<>>, seq))
  <2> HIDE DEF c, Kept, KeepStep
  <2> QED BY <1>1, <1>2, Keeping!FoldInvariant
<1>4. Range(seq) = {seq[i] : i \in 1..Len(seq)}
  BY DEF Range
<1> QED BY <1>3, <1>4, KeepFolds DEF Kept
-----------------------------------------------------------------------------
(* Merging.                                                                *)

Policies ==
    [cpus : SUBSET Cpus, cpusetDir : RangeStrings, sched : Optional(Scheds),
     nice : Optional(Int), uclampMin : Optional(Int), uclampMax : Optional(Int)]
CompiledRules == [pkg : Names, thread : Names, policy : Policies]
Sources == {"PackageExact", "PackageWildcard"}
Matches == [rule : CompiledRules, source : Sources]

CpusOf(P) == UNION {q.cpus : q \in P}
SchedsOf(P) == UNION {q.sched : q \in P}
NicesOf(P) == UNION {q.nice : q \in P}
MinsOf(P) == UNION {q.uclampMin : q \in P}
MaxsOf(P) == UNION {q.uclampMax : q \in P}

\* One of the values if there are any.
SomeOf(value, values) ==
    \/ value = {} /\ values = {}
    \/ \E x \in values : value = {x}
\* The greatest, the least of the values if there are any.
GreatestOf(value, values) ==
    \/ value = {} /\ values = {}
    \/ \E n \in values : value = {n} /\ \A x \in values : x <= n
LeastOf(value, values) ==
    \/ value = {} /\ values = {}
    \/ \E n \in values : value = {n} /\ \A x \in values : n <= x

\* What the loop of merge_rules has made of the policies E of the package's
\* own rules and those W of the wildcard's.
MergedSoFar(E, W, acc) ==
    /\ acc.source \in Sources \cup {"none"}
    /\ acc.source = "none" => E = {} /\ W = {} /\ acc.cpus = {} /\ acc.group = {}
    /\ acc.source = "PackageExact" => W = {} /\ acc.cpus = {} /\ acc.group = CpusOf(E)
    /\ acc.source = "PackageWildcard" => acc.cpus = CpusOf(E) /\ acc.group = CpusOf(W)
    /\ SomeOf(acc.sched, Prefer(SchedsOf(E), SchedsOf(W)))
    /\ SomeOf(acc.nice, Prefer(NicesOf(E), NicesOf(W)))
    /\ GreatestOf(acc.uclampMin, MinsOf(E \cup W))
    /\ LeastOf(acc.uclampMax, MaxsOf(E \cup W))

LEMMA MaxIs ==
    ASSUME NEW S \in SUBSET Int, NEW n \in S, \A x \in S : x <= n
    PROVE  Max(S) = n
<1>1. \A x \in S : (\A y \in S : x >= y) => x = n
  OBVIOUS
<1>2. \A y \in S : n >= y
  OBVIOUS
<1> QED BY <1>1, <1>2 DEF Max

LEMMA MinIs ==
    ASSUME NEW S \in SUBSET Int, NEW n \in S, \A x \in S : n <= x
    PROVE  Min(S) = n
<1>1. \A x \in S : (\A y \in S : x <= y) => x = n
  OBVIOUS
<1>2. \A y \in S : n <= y
  OBVIOUS
<1> QED BY <1>1, <1>2 DEF Min

LEMMA OptionalIs ==
    ASSUME NEW S, NEW v \in Optional(S)
    PROVE  v = {} \/ \E x \in S : v = {x}
<1>1. v \subseteq S /\ \A x, y \in v : x = y
  BY DEF Optional
<1>2. ASSUME NEW x \in v PROVE v = {x}
  BY <1>1, <1>2
<1> QED BY <1>1, <1>2

LEMMA HighestIsGreatest ==
    ASSUME NEW U \in SUBSET Int, NEW a, GreatestOf(a, U), NEW b \in Optional(Int)
    PROVE  GreatestOf(Highest(a, b), U \cup b)
<1>1. CASE a = {} /\ U = {}
  <2>1. CASE b = {}
    BY <1>1, <2>1 DEF GreatestOf, Highest
  <2>2. ASSUME NEW x \in Int, b = {x} PROVE GreatestOf(Highest(a, b), U \cup b)
    <3>1. Max(b) = x
      BY <2>2, MaxIs
    <3> QED BY <1>1, <2>2, <3>1 DEF GreatestOf, Highest
  <2> QED BY <2>1, <2>2, OptionalIs
<1>2. ASSUME NEW n \in U, a = {n}, \A x \in U : x <= n
      PROVE  GreatestOf(Highest(a, b), U \cup b)
  <2>1. PICK m \in a \cup b : \A x \in a \cup b : x <= m
    BY <1>2 DEF Optional
  <2>2. Max(a \cup b) = m
    BY <1>2, <2>1, MaxIs DEF Optional
  <2>3. Highest(a, b) = {m}
    BY <1>2, <2>2 DEF Highest
  <2>4. \A x \in U \cup b : x <= m
    BY <1>2, <2>1 DEF Optional
  <2>5. m \in U \cup b
    BY <1>2, <2>1
  <2> QED BY <2>3, <2>4, <2>5 DEF GreatestOf
<1> QED BY <1>1, <1>2 DEF GreatestOf

LEMMA LowestIsLeast ==
    ASSUME NEW U \in SUBSET Int, NEW a, LeastOf(a, U), NEW b \in Optional(Int)
    PROVE  LeastOf(Lowest(a, b), U \cup b)
<1>1. CASE a = {} /\ U = {}
  <2>1. CASE b = {}
    BY <1>1, <2>1 DEF LeastOf, Lowest
  <2>2. ASSUME NEW x \in Int, b = {x} PROVE LeastOf(Lowest(a, b), U \cup b)
    <3>1. Min(b) = x
      BY <2>2, MinIs
    <3> QED BY <1>1, <2>2, <3>1 DEF LeastOf, Lowest
  <2> QED BY <2>1, <2>2, OptionalIs
<1>2. ASSUME NEW n \in U, a = {n}, \A x \in U : n <= x
      PROVE  LeastOf(Lowest(a, b), U \cup b)
  <2>1. PICK m \in a \cup b : \A x \in a \cup b : m <= x
    BY <1>2 DEF Optional
  <2>2. Min(a \cup b) = m
    BY <1>2, <2>1, MinIs DEF Optional
  <2>3. Lowest(a, b) = {m}
    BY <1>2, <2>2 DEF Lowest
  <2>4. \A x \in U \cup b : m <= x
    BY <1>2, <2>1 DEF Optional
  <2>5. m \in U \cup b
    BY <1>2, <2>1
  <2> QED BY <2>3, <2>4, <2>5 DEF LeastOf
<1> QED BY <1>1, <1>2 DEF LeastOf

LEMMA FirstStaysFirst ==
    ASSUME NEW T, NEW U, NEW V, NEW a, SomeOf(a, Prefer(U, V)), NEW b \in Optional(T)
    PROVE  /\ SomeOf(Prefer(a, b), Prefer(U, V \cup b))
           /\ V = {} => SomeOf(Prefer(a, b), Prefer(U \cup b, V))
<1>1. CASE a # {}
  <2>1. PICK x \in Prefer(U, V) : a = {x}
    BY <1>1 DEF SomeOf
  <2> QED BY <2>1 DEF SomeOf, Prefer
<1>2. CASE a = {}
  <2>1. U = {} /\ V = {}
    BY <1>2 DEF SomeOf, Prefer
  <2> QED BY <1>2, <2>1 DEF SomeOf, Prefer, Optional
<1> QED BY <1>1, <1>2

LEMMA FieldsOfUnion ==
    ASSUME NEW P, NEW q
    PROVE  /\ CpusOf(P \cup {q}) = CpusOf(P) \cup q.cpus
           /\ SchedsOf(P \cup {q}) = SchedsOf(P) \cup q.sched
           /\ NicesOf(P \cup {q}) = NicesOf(P) \cup q.nice
           /\ MinsOf(P \cup {q}) = MinsOf(P) \cup q.uclampMin
           /\ MaxsOf(P \cup {q}) = MaxsOf(P) \cup q.uclampMax
BY DEF CpusOf, SchedsOf, NicesOf, MinsOf, MaxsOf

LEMMA MergeStep ==
    ASSUME NEW E \in SUBSET Policies, NEW W \in SUBSET Policies, NEW acc, MergedSoFar(E, W, acc),
           NEW match \in Matches
    PROVE  LET p == match.rule.policy
           IN /\ (match.source = "PackageExact" /\ acc.source # "PackageWildcard")
                    => MergedSoFar(E \cup {p}, W, MergeRule(acc, match))
              /\ match.source = "PackageWildcard" => MergedSoFar(E, W \cup {p}, MergeRule(acc, match))
<1> DEFINE p == match.rule.policy
           new == MergeRule(acc, match)
<1>1. p \in Policies /\ match.source \in Sources
  BY DEF Matches, CompiledRules
<1>2. /\ p.sched \in Optional(Scheds) /\ p.nice \in Optional(Int)
      /\ p.uclampMin \in Optional(Int) /\ p.uclampMax \in Optional(Int)
      /\ MinsOf(E \cup W) \in SUBSET Int /\ MaxsOf(E \cup W) \in SUBSET Int
  <2>1. \A q \in Policies : /\ q.sched \in Optional(Scheds) /\ q.nice \in Optional(Int)
                           /\ q.uclampMin \in Optional(Int) /\ q.uclampMax \in Optional(Int)
    BY DEF Policies
  <2>2. \A S \in Optional(Int) : S \subseteq Int
    BY DEF Optional
  <2>3. E \cup W \subseteq Policies
    OBVIOUS
  <2> HIDE DEF p
  <2> QED BY <1>1, <2>1, <2>2, <2>3 DEF MinsOf, MaxsOf
<1>3. /\ new.source = match.source
      /\ new.cpus = IF match.source = acc.source THEN acc.cpus ELSE Flushed(acc)
      /\ new.group = (IF match.source = acc.source THEN acc.group ELSE {}) \cup p.cpus
      /\ new.sched = Prefer(acc.sched, p.sched) /\ new.nice = Prefer(acc.nice, p.nice)
      /\ new.uclampMin = Highest(acc.uclampMin, p.uclampMin)
      /\ new.uclampMax = Lowest(acc.uclampMax, p.uclampMax)
  BY DEF MergeRule
<1> HIDE DEF p, new
<1>4. GreatestOf(new.uclampMin, MinsOf(E \cup W) \cup p.uclampMin)
  <2>1. GreatestOf(acc.uclampMin, MinsOf(E \cup W))
    BY DEF MergedSoFar
  <2>2. GreatestOf(Highest(acc.uclampMin, p.uclampMin), MinsOf(E \cup W) \cup p.uclampMin)
    BY <1>2, <2>1, HighestIsGreatest
  <2> QED BY <1>3, <2>2
<1>5. LeastOf(new.uclampMax, MaxsOf(E \cup W) \cup p.uclampMax)
  <2>1. LeastOf(acc.uclampMax, MaxsOf(E \cup W))
    BY DEF MergedSoFar
  <2>2. LeastOf(Lowest(acc.uclampMax, p.uclampMax), MaxsOf(E \cup W) \cup p.uclampMax)
    BY <1>2, <2>1, LowestIsLeast
  <2> QED BY <1>3, <2>2
<1>6. /\ CpusOf(E \cup {p}) = CpusOf(E) \cup p.cpus /\ CpusOf(W \cup {p}) = CpusOf(W) \cup p.cpus
      /\ SchedsOf(E \cup {p}) = SchedsOf(E) \cup p.sched
      /\ SchedsOf(W \cup {p}) = SchedsOf(W) \cup p.sched
      /\ NicesOf(E \cup {p}) = NicesOf(E) \cup p.nice
      /\ NicesOf(W \cup {p}) = NicesOf(W) \cup p.nice
  BY FieldsOfUnion
<1>7. /\ MinsOf((E \cup {p}) \cup W) = MinsOf(E \cup W) \cup p.uclampMin
      /\ MaxsOf((E \cup {p}) \cup W) = MaxsOf(E \cup W) \cup p.uclampMax
      /\ MinsOf(E \cup (W \cup {p})) = MinsOf(E \cup W) \cup p.uclampMin
      /\ MaxsOf(E \cup (W \cup {p})) = MaxsOf(E \cup W) \cup p.uclampMax
  <2>1. (E \cup {p}) \cup W = (E \cup W) \cup {p} /\ E \cup (W \cup {p}) = (E \cup W) \cup {p}
    OBVIOUS
  <2>2. /\ MinsOf((E \cup W) \cup {p}) = MinsOf(E \cup W) \cup p.uclampMin
        /\ MaxsOf((E \cup W) \cup {p}) = MaxsOf(E \cup W) \cup p.uclampMax
    BY FieldsOfUnion
  <2> QED BY <2>1, <2>2
<1>8. ASSUME match.source = "PackageExact", acc.source # "PackageWildcard"
      PROVE  MergedSoFar(E \cup {p}, W, new)
  <2>1. W = {} /\ acc.cpus = {} /\ acc.group = CpusOf(E)
    BY <1>8 DEF MergedSoFar, CpusOf, Sources
  <2>3. SchedsOf(W) = {} /\ NicesOf(W) = {} /\ CpusOf(W) = {}
    BY <2>1 DEF SchedsOf, NicesOf, CpusOf
  <2>4. new.cpus = {} /\ new.group = CpusOf(E \cup {p}) /\ new.source = "PackageExact"
    <3>1. CASE acc.source = "PackageExact"
      BY <1>3, <1>8, <2>1, <3>1, <1>6
    <3>2. CASE acc.source = "none"
      BY <1>3, <1>8, <2>1, <3>2, <1>6 DEF MergedSoFar, Flushed, CpusOf
    <3> QED BY <1>8, <3>1, <3>2 DEF MergedSoFar, Sources
  <2>5. SomeOf(new.sched, Prefer(SchedsOf(E \cup {p}), SchedsOf(W)))
    <3>1. SomeOf(acc.sched, Prefer(SchedsOf(E), SchedsOf(W)))
      BY DEF MergedSoFar
    <3>2. SomeOf(Prefer(acc.sched, p.sched), Prefer(SchedsOf(E) \cup p.sched, SchedsOf(W)))
      BY <1>2, <2>3, <3>1, FirstStaysFirst
    <3> QED BY <1>3, <1>6, <3>2
  <2>6. SomeOf(new.nice, Prefer(NicesOf(E \cup {p}), NicesOf(W)))
    <3>1. SomeOf(acc.nice, Prefer(NicesOf(E), NicesOf(W)))
      BY DEF MergedSoFar
    <3>2. SomeOf(Prefer(acc.nice, p.nice), Prefer(NicesOf(E) \cup p.nice, NicesOf(W)))
      BY <1>2, <2>3, <3>1, FirstStaysFirst
    <3> QED BY <1>3, <1>6, <3>2
  <2>7. GreatestOf(new.uclampMin, MinsOf((E \cup {p}) \cup W))
    BY <1>4, <1>7
  <2>8. LeastOf(new.uclampMax, MaxsOf((E \cup {p}) \cup W))
    BY <1>5, <1>7
  <2> QED BY <2>1, <2>4, <2>5, <2>6, <2>7, <2>8 DEF MergedSoFar, Sources
<1>9. ASSUME match.source = "PackageWildcard"
      PROVE  MergedSoFar(E, W \cup {p}, new)
  <2>2. new.cpus = CpusOf(E) /\ new.group = CpusOf(W \cup {p})
    <3>1. CASE acc.source = "PackageWildcard"
      BY <1>3, <1>9, <3>1, <1>6 DEF MergedSoFar
    <3>2. CASE acc.source = "PackageExact"
      BY <1>3, <1>9, <3>2, <1>6 DEF MergedSoFar, Flushed, CpusOf
    <3>3. CASE acc.source = "none"
      BY <1>3, <1>9, <3>3, <1>6 DEF MergedSoFar, Flushed, CpusOf
    <3> QED BY <3>1, <3>2, <3>3 DEF MergedSoFar, Sources
  <2>3. SomeOf(new.sched, Prefer(SchedsOf(E), SchedsOf(W \cup {p})))
    <3>1. SomeOf(acc.sched, Prefer(SchedsOf(E), SchedsOf(W)))
      BY DEF MergedSoFar
    <3>2. SomeOf(Prefer(acc.sched, p.sched), Prefer(SchedsOf(E), SchedsOf(W) \cup p.sched))
      BY <1>2, <3>1, FirstStaysFirst
    <3> QED BY <1>3, <1>6, <3>2
  <2>4. SomeOf(new.nice, Prefer(NicesOf(E), NicesOf(W \cup {p})))
    <3>1. SomeOf(acc.nice, Prefer(NicesOf(E), NicesOf(W)))
      BY DEF MergedSoFar
    <3>2. SomeOf(Prefer(acc.nice, p.nice), Prefer(NicesOf(E), NicesOf(W) \cup p.nice))
      BY <1>2, <3>1, FirstStaysFirst
    <3> QED BY <1>3, <1>6, <3>2
  <2>5. GreatestOf(new.uclampMin, MinsOf(E \cup (W \cup {p})))
    BY <1>4, <1>7
  <2>6. LeastOf(new.uclampMax, MaxsOf(E \cup (W \cup {p})))
    BY <1>5, <1>7
  <2> QED BY <1>3, <1>9, <2>2, <2>3, <2>4, <2>5, <2>6 DEF MergedSoFar, Sources
<1> QED BY <1>8, <1>9 DEF p, new

-----------------------------------------------------------------------------
(* Range strings.                                                          *)

Covered(out) == UNION {out[i][1]..out[i][2] : i \in 1..Len(out)}

PushStep(cpus, out, cpu) == IF cpu \in cpus THEN ExtendRange(out, cpu) ELSE out
\* The ranges written after k CPUs have been looked at.
Pushed(cpus, k, out) ==
    /\ out \in Seq(Cpus \X Cpus)
    /\ \A i \in 1..Len(out) : out[i][1] <= out[i][2] /\ out[i][2] < k
    /\ Covered(out) = cpus \cap 0..(k - 1)

Pushing == INSTANCE FoldTheorems WITH Op <- PushStep, Inv <- Pushed

LEMMA ToRangeStringFolds ==
    ASSUME NEW cpus
    PROVE  ToRangeString(cpus) = Pushing!Fold(cpus, <<>>, Ascending(CpuSetSize))
BY DEF ToRangeString, FoldLeft, MapThenFoldSet, Max, Pushing!Fold, Pushing!FoldLeft,
       Pushing!MapThenFoldSet, Pushing!Max, PushStep

LEMMA AppendCovers ==
    ASSUME NEW out \in Seq(Cpus \X Cpus), NEW cpu \in Cpus
    PROVE  /\ Append(out, <<cpu, cpu>>) \in Seq(Cpus \X Cpus)
           /\ Covered(Append(out, <<cpu, cpu>>)) = Covered(out) \cup {cpu}
<1> DEFINE new == Append(out, <<cpu, cpu>>)
<1>1. /\ new \in Seq(Cpus \X Cpus) /\ Len(new) = Len(out) + 1 /\ Len(out) \in Nat
      /\ \A i \in 1..Len(out) : new[i] = out[i]
      /\ new[Len(out) + 1] = <<cpu, cpu>>
  OBVIOUS
<1>2. 1..(Len(out) + 1) = 1..Len(out) \cup {Len(out) + 1}
  BY <1>1
<1>3. cpu..cpu = {cpu}
  BY DEF Cpus
<1> HIDE DEF new
<1>4. \A x \in Covered(new) : x \in Covered(out) \cup {cpu}
  <2> TAKE x \in Covered(new)
  <2>1. PICK i \in 1..Len(new) : x \in new[i][1]..new[i][2]
    BY DEF Covered
  <2>2. CASE i \in 1..Len(out)
    BY <1>1, <2>1, <2>2 DEF Covered
  <2>3. CASE i = Len(out) + 1
    <3>1. new[i][1] = cpu /\ new[i][2] = cpu
      BY <1>1, <2>3
    <3> QED BY <1>3, <2>1, <3>1
  <2> QED BY <1>1, <1>2, <2>2, <2>3
<1>5. \A x \in Covered(out) : x \in Covered(new)
  BY <1>1, <1>2 DEF Covered
<1>6. cpu \in Covered(new)
  <2>1. new[Len(new)][1]..new[Len(new)][2] = {cpu} /\ Len(new) \in 1..Len(new)
    BY <1>1, <1>3
  <2> QED BY <2>1 DEF Covered
<1> QED BY <1>1, <1>4, <1>5, <1>6 DEF new

LEMMA ReplaceCovers ==
    ASSUME NEW out \in Seq(Cpus \X Cpus), out # <<>>, NEW cpu \in Cpus,
           cpu = Last(out)[2] + 1, Last(out)[1] <= Last(out)[2]
    PROVE  LET new == ReplaceAt(out, Len(out), <<Last(out)[1], cpu>>)
           IN /\ new \in Seq(Cpus \X Cpus) /\ Len(new) = Len(out)
              /\ new[Len(out)] = <<Last(out)[1], cpu>>
              /\ \A i \in 1..(Len(out) - 1) : new[i] = out[i]
              /\ Covered(new) = Covered(out) \cup {cpu}
<1> DEFINE n == Len(out)
           a == Last(out)[1]
           b == Last(out)[2]
           new == ReplaceAt(out, Len(out), <<Last(out)[1], cpu>>)
<1>1. n \in Nat \ {0} /\ n \in 1..n /\ out[n] \in Cpus \X Cpus
  OBVIOUS
<1>2. out[n] = <<a, b>> /\ a \in Int /\ b \in Int /\ a \in Cpus
  BY <1>1 DEF Last, Cpus
<1>3. /\ new \in Seq(Cpus \X Cpus) /\ Len(new) = n
      /\ new[n] = <<a, cpu>> /\ \A i \in 1..(n - 1) : new[i] = out[i]
  BY <1>1, <1>2 DEF ReplaceAt, Last
<1>4. a..cpu = (a..b) \cup {cpu}
  BY <1>2
<1>5. 1..n = 1..(n - 1) \cup {n}
  BY <1>1
<1> HIDE DEF n, a, b, new
<1>6. \A x \in Covered(new) : x \in Covered(out) \cup {cpu}
  <2> TAKE x \in Covered(new)
  <2>1. PICK i \in 1..n : x \in new[i][1]..new[i][2]
    BY <1>3 DEF Covered
  <2>2. CASE i \in 1..(n - 1)
    <3>1. new[i] = out[i] /\ i \in 1..n
      BY <1>3, <1>5, <2>2
    <3> QED BY <2>1, <3>1 DEF Covered, n
  <2>3. CASE i = n
    <3>1. new[i][1] = a /\ new[i][2] = cpu /\ out[n][1] = a /\ out[n][2] = b
      BY <1>2, <1>3, <2>3
    <3>2. x \in out[n][1]..out[n][2] \/ x = cpu
      BY <1>4, <2>1, <3>1
    <3> QED BY <1>1, <3>2 DEF Covered, n
  <2> QED BY <1>5, <2>2, <2>3
<1>7. \A x \in Covered(out) : x \in Covered(new)
  <2> TAKE x \in Covered(out)
  <2>1. PICK i \in 1..n : x \in out[i][1]..out[i][2]
    BY DEF Covered, n
  <2>2. CASE i \in 1..(n - 1)
    <3>1. new[i] = out[i] /\ i \in 1..Len(new)
      BY <1>3, <1>5, <2>2
    <3> QED BY <2>1, <3>1 DEF Covered
  <2>3. CASE i = n
    <3>1. new[i][1] = a /\ new[i][2] = cpu /\ out[i][1] = a /\ out[i][2] = b
      BY <1>2, <1>3, <2>3
    <3>2. x \in new[i][1]..new[i][2] /\ i \in 1..Len(new)
      BY <1>3, <1>4, <2>1, <3>1
    <3> QED BY <3>2 DEF Covered
  <2> QED BY <1>5, <2>2, <2>3
<1>8. cpu \in Covered(new)
  <2>1. new[n][1] = a /\ new[n][2] = cpu /\ n \in 1..Len(new)
    BY <1>1, <1>3
  <2>2. cpu \in new[n][1]..new[n][2]
    BY <1>4, <2>1
  <2> QED BY <2>1, <2>2 DEF Covered
<1>9. Covered(new) = Covered(out) \cup {cpu}
  BY <1>6, <1>7, <1>8
<1> QED BY <1>3, <1>9 DEF n, a, b, new

LEMMA AscendingIs ==
    ASSUME NEW n \in Nat
    PROVE  Ascending(n) \in Seq(Int) /\ Len(Ascending(n)) = n /\ \A k \in 1..n : Ascending(n)[k] = k - 1
BY DEF Ascending

LEMMA PushStepCovers ==
    ASSUME NEW cpus \in SUBSET Cpus, NEW k \in 1..CpuSetSize, NEW out, Pushed(cpus, k - 1, out)
    PROVE  Pushed(cpus, k, PushStep(cpus, out, k - 1))
<1> DEFINE cpu == k - 1
           new == PushStep(cpus, out, cpu)
<1>1. /\ out \in Seq(Cpus \X Cpus) /\ cpu \in Cpus /\ cpu \in Nat /\ k = cpu + 1
      /\ \A i \in 1..Len(out) : out[i][1] <= out[i][2] /\ out[i][2] < cpu
      /\ Covered(out) = cpus \cap 0..(cpu - 1)
  BY TopologyAssumption DEF Pushed, Cpus
<1>2. \A i \in 1..Len(out) : out[i][1] \in Int /\ out[i][2] \in Int
  BY <1>1 DEF Cpus
<1>3. 0..(k - 1) = 0..(cpu - 1) \cup {cpu}
  BY <1>1
<1> HIDE DEF cpu
<1>4. CASE cpu \notin cpus
  <2>1. new = out
    BY <1>4 DEF PushStep
  <2>2. \A i \in 1..Len(out) : out[i][1] <= out[i][2] /\ out[i][2] < k
    BY <1>1, <1>2
  <2>3. cpus \cap 0..(k - 1) = cpus \cap 0..(cpu - 1)
    BY <1>3, <1>4
  <2> HIDE DEF new
  <2>4. Pushed(cpus, k, new)
    BY <1>1, <2>1, <2>2, <2>3 DEF Pushed
  <2> QED BY <2>4 DEF new, cpu
<1>5. CASE cpu \in cpus /\ out # <<>> /\ cpu = Last(out)[2] + 1
  <2>1. Len(out) \in 1..Len(out) /\ Last(out) = out[Len(out)]
    BY <1>1, <1>5 DEF Last
  <2>2. new = ReplaceAt(out, Len(out), <<Last(out)[1], cpu>>)
    BY <1>5 DEF PushStep, ExtendRange
  <2>3. Last(out)[1] <= Last(out)[2]
    BY <1>1, <2>1
  <2> HIDE DEF new
  <2>4. /\ new \in Seq(Cpus \X Cpus) /\ Len(new) = Len(out)
        /\ new[Len(out)] = <<Last(out)[1], cpu>>
        /\ \A i \in 1..(Len(out) - 1) : new[i] = out[i]
        /\ Covered(new) = Covered(out) \cup {cpu}
    BY <1>1, <1>5, <2>2, <2>3, ReplaceCovers
  <2>5. ASSUME NEW i \in 1..Len(new) PROVE new[i][1] <= new[i][2] /\ new[i][2] < k
    <3>1. CASE i = Len(out)
      BY <1>1, <1>2, <1>5, <2>1, <2>3, <2>4, <3>1
    <3>2. CASE i \in 1..(Len(out) - 1)
      BY <1>1, <1>2, <2>4, <3>2
    <3> QED BY <2>1, <2>4, <3>1, <3>2
  <2>6. Covered(new) = cpus \cap 0..(k - 1)
    BY <1>1, <1>3, <1>5, <2>4
  <2> QED BY <2>4, <2>5, <2>6 DEF Pushed, new, cpu
<1>6. CASE cpu \in cpus /\ ~(out # <<>> /\ cpu = Last(out)[2] + 1)
  <2>1. new = Append(out, <<cpu, cpu>>)
    BY <1>6 DEF PushStep, ExtendRange
  <2> HIDE DEF new
  <2>2. new \in Seq(Cpus \X Cpus) /\ Covered(new) = Covered(out) \cup {cpu}
    BY <1>1, <2>1, AppendCovers
  <2>3. /\ Len(new) = Len(out) + 1 /\ Len(out) \in Nat /\ new[Len(out) + 1] = <<cpu, cpu>>
        /\ \A i \in 1..Len(out) : new[i] = out[i]
    BY <1>1, <2>1
  <2>4. ASSUME NEW i \in 1..Len(new) PROVE new[i][1] <= new[i][2] /\ new[i][2] < k
    <3>1. CASE i = Len(out) + 1
      BY <1>1, <2>3, <3>1
    <3>2. CASE i \in 1..Len(out)
      BY <1>1, <1>2, <2>3, <3>2
    <3> QED BY <2>3, <3>1, <3>2
  <2>5. Covered(new) = cpus \cap 0..(k - 1)
    BY <1>1, <1>3, <1>6, <2>2
  <2> QED BY <2>2, <2>4, <2>5 DEF Pushed, new, cpu
<1> QED BY <1>4, <1>5, <1>6 DEF cpu

LEMMA ToRangeStringCovers ==
    ASSUME NEW cpus \in SUBSET Cpus
    PROVE  Pushed(cpus, CpuSetSize, ToRangeString(cpus))
<1> DEFINE seq == Ascending(CpuSetSize)
<1>1. seq \in Seq(Int) /\ Len(seq) = CpuSetSize /\ \A k \in 1..CpuSetSize : seq[k] = k - 1
  BY TopologyAssumption, AscendingIs
<1>2. Pushed(cpus, 0, <<>>)
  BY DEF Pushed, Covered
<1>3. ASSUME NEW k \in 1..Len(seq), NEW out, Pushed(cpus, k - 1, out)
      PROVE  Pushed(cpus, k, PushStep(cpus, out, seq[k]))
  BY <1>1, <1>3, PushStepCovers
<1>4. Pushed(cpus, Len(seq), Pushing!Fold(cpus, <<>>, seq))
  <2> HIDE DEF seq, Pushed, PushStep
  <2> QED BY <1>1, <1>2, <1>3, Pushing!FoldInvariant
<1> QED BY <1>1, <1>4, ToRangeStringFolds

(***************************************************************************)
(* A range string names the CPUs it was made of (topology.rs).             *)
(***************************************************************************)
THEOREM RangeStringsAreExact ==
    ASSUME NEW cpus \in SUBSET Cpus
    PROVE  /\ ToRangeString(cpus) \in Seq(Int \X Int)
           /\ \A present : cpus \subseteq present =>
                 ParseCpuRanges(ToRangeString(cpus), present) = cpus
           /\ ToRangeString(cpus) = <<>> <=> cpus = {}
<1> DEFINE out == ToRangeString(cpus)
<1>1. /\ out \in Seq(Cpus \X Cpus) /\ \A i \in 1..Len(out) : out[i][1] <= out[i][2]
      /\ Covered(out) = cpus \cap 0..(CpuSetSize - 1)
  BY ToRangeStringCovers DEF Pushed
<1>2. Covered(out) = cpus
  BY <1>1 DEF Cpus
<1> HIDE DEF out
<1>3. Cpus \X Cpus \subseteq Int \X Int
  BY DEF Cpus
<1>4. out \in Seq(Int \X Int)
  BY <1>1, <1>3
<1>5. ASSUME NEW i \in 1..Len(out) PROVE PartCpus(out[i]) = out[i][1]..out[i][2]
  <2> DEFINE a == out[i][1]
             b == out[i][2]
  <2>1. a \in Cpus /\ b \in Cpus /\ a <= b
    BY <1>1
  <2>2. a \in Nat /\ b \in Nat /\ a..b \subseteq Cpus
    <3> HIDE DEF a, b
    <3>1. a \in 0..(CpuSetSize - 1) /\ b \in 0..(CpuSetSize - 1) /\ CpuSetSize \in Nat
      BY <2>1, TopologyAssumption DEF Cpus
    <3> QED BY <2>1, <3>1 DEF Cpus
  <2> HIDE DEF a, b
  <2>3. /\ {a, b} \in SUBSET Int /\ a \in {a, b} /\ b \in {a, b}
        /\ \A x \in {a, b} : a <= x /\ x <= b
    BY <2>1, <2>2
  <2>4. Min({a, b}) = a
    BY <2>3, MinIs
  <2>5. Max({a, b}) = b
    BY <2>3, MaxIs
  <2>6. PartCpus(<<a, b>>) = a..b
    <3>1. a # NotANumber /\ b # NotANumber
      BY <2>2 DEF NotANumber
    <3>2. PartCpus(<<a, b>>) = Cpus \cap (Min({a, b})..Max({a, b}))
      BY <3>1 DEF PartCpus
    <3> QED BY <2>2, <2>4, <2>5, <3>2
  <2>7. out[i] = <<a, b>>
    BY <1>1 DEF a, b
  <2> QED BY <2>6, <2>7 DEF a, b
<1>6. UNION {PartCpus(p) : p \in Range(out)} = Covered(out)
  <2>1. {PartCpus(p) : p \in Range(out)} = {out[i][1]..out[i][2] : i \in 1..Len(out)}
    BY <1>1, <1>5 DEF Range
  <2> QED BY <2>1 DEF Covered
<1>7. out = <<>> <=> cpus = {}
  <2>1. ASSUME out # <<>> PROVE cpus # {}
    <3>1. 1 \in 1..Len(out)
      BY <1>1, <2>1
    <3>2. out[1][1] \in Cpus /\ out[1][2] \in Cpus /\ out[1][1] <= out[1][2]
      BY <1>1, <3>1
    <3>3. out[1][1] \in out[1][1]..out[1][2]
      BY <3>2 DEF Cpus
    <3> QED BY <1>2, <3>1, <3>3 DEF Covered
  <2>2. ASSUME out = <<>> PROVE cpus = {}
    BY <1>2, <2>2 DEF Covered
  <2> QED BY <2>1, <2>2
<1> QED BY <1>2, <1>4, <1>6, <1>7 DEF ParseCpuRanges, out

-----------------------------------------------------------------------------
(* The merge of a list of matches.                                         *)

\* The policies of the first k matches that come from a source.
UpTo(seq, k, source) == {seq[i].rule.policy : i \in {j \in 1..k : seq[j].source = source}}

MergeOp(seq, acc, match) == MergeRule(acc, match)
MergedUpTo(seq, k, acc) ==
    /\ acc.source = IF k = 0 THEN "none" ELSE seq[k].source
    /\ MergedSoFar(UpTo(seq, k, "PackageExact"), UpTo(seq, k, "PackageWildcard"), acc)

Merging == INSTANCE FoldTheorems WITH Op <- MergeOp, Inv <- MergedUpTo

LEMMA MergeFolds ==
    ASSUME NEW seq
    PROVE  FoldLeft(MergeRule, NothingMerged, seq) = Merging!Fold(seq, NothingMerged, seq)
BY DEF FoldLeft, MapThenFoldSet, Max, Merging!Fold, Merging!FoldLeft,
       Merging!MapThenFoldSet, Merging!Max, MergeOp

\* The own rules of the package before those of the wildcard.
ExactFirst(seq) ==
    \A i, j \in 1..Len(seq) :
        i < j /\ seq[i].source = "PackageWildcard" => seq[j].source = "PackageWildcard"

LEMMA MergeSorted ==
    ASSUME NEW seq \in Seq(Matches), ExactFirst(seq)
    PROVE  MergedUpTo(seq, Len(seq), FoldLeft(MergeRule, NothingMerged, seq))
<1>1. MergedUpTo(seq, 0, NothingMerged)
  <2>1. UpTo(seq, 0, "PackageExact") = {} /\ UpTo(seq, 0, "PackageWildcard") = {}
    BY DEF UpTo
  <2>2. MergedSoFar({}, {}, NothingMerged)
    BY DEF MergedSoFar, NothingMerged, SomeOf, Prefer, GreatestOf, LeastOf, CpusOf, SchedsOf,
           NicesOf, MinsOf, MaxsOf
  <2> QED BY <2>1, <2>2 DEF MergedUpTo, NothingMerged
<1>2. ASSUME NEW k \in 1..Len(seq), NEW acc, MergedUpTo(seq, k - 1, acc)
      PROVE  MergedUpTo(seq, k, MergeOp(seq, acc, seq[k]))
  <2> DEFINE E == UpTo(seq, k - 1, "PackageExact")
             W == UpTo(seq, k - 1, "PackageWildcard")
             p == seq[k].rule.policy
  <2>1. seq[k] \in Matches /\ seq[k].source \in Sources /\ k \in Nat \ {0}
    <3>1. seq[k] \in Matches
      OBVIOUS
    <3> QED BY <3>1 DEF Matches
  <2>2. E \in SUBSET Policies /\ W \in SUBSET Policies
    <3>1. \A i \in 1..(k - 1) : seq[i] \in Matches
      BY <2>1
    <3>2. \A m \in Matches : m.rule.policy \in Policies
      BY DEF Matches, CompiledRules
    <3> QED BY <3>1, <3>2 DEF UpTo
  <2>3. MergedSoFar(E, W, acc) /\ acc.source = IF k - 1 = 0 THEN "none" ELSE seq[k - 1].source
    BY <1>2 DEF MergedUpTo
  <2>4. 1..k = 1..(k - 1) \cup {k}
    BY <2>1
  <2>5. \A s \in Sources : UpTo(seq, k, s) = IF seq[k].source = s THEN UpTo(seq, k - 1, s) \cup {p}
                                             ELSE UpTo(seq, k - 1, s)
    BY <2>4 DEF UpTo
  <2>6. MergeOp(seq, acc, seq[k]).source = seq[k].source /\ k # 0
    BY <2>1 DEF MergeOp, MergeRule
  <2> HIDE DEF E, W, p
  <2>7. CASE seq[k].source = "PackageExact"
    <3>1. acc.source # "PackageWildcard"
      <4>1. CASE k = 1
        BY <2>3, <4>1
      <4>2. CASE k # 1
        <5>1. k - 1 \in 1..Len(seq) /\ k - 1 < k /\ k - 1 # 0
          BY <2>1, <4>2
        <5>2. seq[k - 1].source # "PackageWildcard"
          BY <2>7, <5>1 DEF ExactFirst
        <5> QED BY <2>3, <5>1, <5>2
      <4> QED BY <4>1, <4>2
    <3>2. MergedSoFar(E \cup {p}, W, MergeRule(acc, seq[k]))
      BY <2>1, <2>2, <2>3, <2>7, <3>1, MergeStep DEF p
    <3>3. UpTo(seq, k, "PackageExact") = E \cup {p} /\ UpTo(seq, k, "PackageWildcard") = W
      BY <2>5, <2>7 DEF Sources, E, W
    <3> QED BY <2>6, <3>2, <3>3 DEF MergedUpTo, MergeOp
  <2>8. CASE seq[k].source = "PackageWildcard"
    <3>1. MergedSoFar(E, W \cup {p}, MergeRule(acc, seq[k]))
      BY <2>1, <2>2, <2>3, <2>8, MergeStep DEF p
    <3>2. UpTo(seq, k, "PackageExact") = E /\ UpTo(seq, k, "PackageWildcard") = W \cup {p}
      BY <2>5, <2>8 DEF Sources, E, W
    <3> QED BY <2>6, <3>1, <3>2 DEF MergedUpTo, MergeOp
  <2> QED BY <2>1, <2>7, <2>8 DEF Sources
<1>3. MergedUpTo(seq, Len(seq), Merging!Fold(seq, NothingMerged, seq))
  <2> HIDE DEF MergedUpTo, MergeOp
  <2> QED BY <1>1, <1>2, Merging!FoldInvariant
<1> QED BY <1>3, MergeFolds

\* The policies of the matches from a source.
From(matches, source) == {m.rule.policy : m \in {x \in Range(matches) : x.source = source}}

LEMMA MergeRulesSorts ==
    ASSUME NEW matches \in Seq(Matches)
    PROVE  \E end : /\ MergedSoFar(From(matches, "PackageExact"), From(matches, "PackageWildcard"), end)
                    /\ MergeRules(matches) =
                         LET merged == [cpus |-> Flushed(end), cpusetDir |-> ToRangeString(Flushed(end)),
                                        sched |-> end.sched, nice |-> end.nice,
                                        uclampMin |-> end.uclampMin, uclampMax |-> end.uclampMax]
                         IN IF merged = NoPolicy THEN {} ELSE {merged}
<1> DEFINE of(source) == Keep(matches, {m \in Range(matches) : m.source = source})
           e == of("PackageExact")
           w == of("PackageWildcard")
           seq == e \o w
<1>1. /\ e \in Seq(Matches) /\ Range(e) = {m \in Range(matches) : m.source = "PackageExact"}
      /\ w \in Seq(Matches) /\ Range(w) = {m \in Range(matches) : m.source = "PackageWildcard"}
  BY KeepRange
<1>2. MergeRules(matches) =
        LET end == FoldLeft(MergeRule, NothingMerged, seq)
            merged == [cpus |-> Flushed(end), cpusetDir |-> ToRangeString(Flushed(end)),
                       sched |-> end.sched, nice |-> end.nice,
                       uclampMin |-> end.uclampMin, uclampMax |-> end.uclampMax]
        IN IF merged = NoPolicy THEN {} ELSE {merged}
  BY DEF MergeRules
<1> HIDE DEF e, w
<1>3. /\ seq \in Seq(Matches) /\ Len(seq) = Len(e) + Len(w) /\ Len(e) \in Nat /\ Len(w) \in Nat
      /\ \A i \in 1..Len(e) : seq[i] = e[i]
      /\ \A i \in 1..Len(w) : seq[Len(e) + i] = w[i]
      /\ \A i \in 1..Len(seq) : i \in 1..Len(e) \/ (i - Len(e) \in 1..Len(w) /\ seq[i] = w[i - Len(e)])
  BY <1>1
<1>4. /\ \A i \in 1..Len(e) : seq[i] \in Range(e) /\ seq[i].source = "PackageExact"
      /\ \A i \in 1..Len(seq) : i \notin 1..Len(e) =>
            seq[i] \in Range(w) /\ seq[i].source = "PackageWildcard"
  BY <1>1, <1>3 DEF Range
<1> HIDE DEF seq
<1>5. ExactFirst(seq)
  <2> SUFFICES ASSUME NEW i \in 1..Len(seq), NEW j \in 1..Len(seq), i < j, j \in 1..Len(e)
               PROVE  seq[i].source # "PackageWildcard"
    BY <1>4 DEF ExactFirst
  <2>1. i \in 1..Len(e)
    BY <1>3
  <2> QED BY <1>4, <2>1
<1>6. UpTo(seq, Len(seq), "PackageExact") = From(matches, "PackageExact")
  <2>1. ASSUME NEW i \in 1..Len(seq), seq[i].source = "PackageExact"
        PROVE  seq[i] \in Range(e)
    BY <1>4, <2>1
  <2>2. ASSUME NEW m \in Range(e) PROVE \E i \in 1..Len(seq) : seq[i] = m
    BY <1>1, <1>3 DEF Range
  <2> QED BY <1>1, <2>1, <2>2 DEF UpTo, From
<1>7. UpTo(seq, Len(seq), "PackageWildcard") = From(matches, "PackageWildcard")
  <2>1. ASSUME NEW i \in 1..Len(seq), seq[i].source = "PackageWildcard"
        PROVE  seq[i] \in Range(w)
    BY <1>4, <2>1
  <2>2. ASSUME NEW m \in Range(w) PROVE \E i \in 1..Len(seq) : seq[i] = m
    <3>1. PICK i \in 1..Len(w) : m = w[i]
      BY <1>1 DEF Range
    <3>2. Len(e) + i \in 1..Len(seq) /\ seq[Len(e) + i] = m
      BY <1>3, <3>1
    <3> QED BY <3>2
  <2> QED BY <1>1, <2>1, <2>2 DEF UpTo, From
<1>8. MergedSoFar(From(matches, "PackageExact"), From(matches, "PackageWildcard"),
                  FoldLeft(MergeRule, NothingMerged, seq))
  BY <1>3, <1>5, <1>6, <1>7, MergeSorted DEF MergedUpTo
<1> QED BY <1>2, <1>8

SetsNothing(q) ==
    q.cpus = {} /\ q.sched = {} /\ q.nice = {} /\ q.uclampMin = {} /\ q.uclampMax = {}

LEMMA NothingIsNoPolicy ==
    ASSUME NEW q, q = [cpus |-> q.cpus, cpusetDir |-> ToRangeString(q.cpus), sched |-> q.sched,
                       nice |-> q.nice, uclampMin |-> q.uclampMin, uclampMax |-> q.uclampMax]
    PROVE  q = NoPolicy <=> SetsNothing(q)
<1>1. ToRangeString({}) = <<>>
  BY RangeStringsAreExact
<1>2. ASSUME q = NoPolicy PROVE SetsNothing(q)
  BY <1>2 DEF NoPolicy, SetsNothing
<1>3. ASSUME SetsNothing(q) PROVE q = NoPolicy
  BY <1>1, <1>3 DEF NoPolicy, SetsNothing
<1> QED BY <1>2, <1>3

PolicyFields == {"cpus", "cpusetDir", "sched", "nice", "uclampMin", "uclampMax"}

\* A policy merged from E and, where these say nothing, W.
Layered(p, E, W) ==
    /\ DOMAIN p = PolicyFields
    /\ p.cpus = Prefer(CpusOf(E), CpusOf(W))
    /\ SomeOf(p.sched, Prefer(SchedsOf(E), SchedsOf(W)))
    /\ SomeOf(p.nice, Prefer(NicesOf(E), NicesOf(W)))
    /\ GreatestOf(p.uclampMin, MinsOf(E \cup W))
    /\ LeastOf(p.uclampMax, MaxsOf(E \cup W))

(***************************************************************************)
(* Merging is layering: the CPUs, the class and the niceness of the first  *)
(* source that gives any, the strictest clamps of both (merge.rs).         *)
(***************************************************************************)
THEOREM MergeIsLayered ==
    ASSUME NEW matches \in Seq(Matches)
    PROVE  LET E == From(matches, "PackageExact")
               W == From(matches, "PackageWildcard")
           IN /\ \A p \in MergeRules(matches) : Layered(p, E, W)
              /\ MergeRules(matches) = {} <=> \A q \in E \cup W : SetsNothing(q)
<1> DEFINE E == From(matches, "PackageExact")
           W == From(matches, "PackageWildcard")
<1>1. PICK end : /\ MergedSoFar(E, W, end)
                 /\ MergeRules(matches) =
                         LET merged == [cpus |-> Flushed(end), cpusetDir |-> ToRangeString(Flushed(end)),
                                        sched |-> end.sched, nice |-> end.nice,
                                        uclampMin |-> end.uclampMin, uclampMax |-> end.uclampMax]
                         IN IF merged = NoPolicy THEN {} ELSE {merged}
  BY MergeRulesSorts
<1> DEFINE merged == [cpus |-> Flushed(end), cpusetDir |-> ToRangeString(Flushed(end)),
                      sched |-> end.sched, nice |-> end.nice,
                      uclampMin |-> end.uclampMin, uclampMax |-> end.uclampMax]
<1>2. MergeRules(matches) = IF merged = NoPolicy THEN {} ELSE {merged}
  BY <1>1
<1>3. merged = NoPolicy <=> SetsNothing(merged)
  BY NothingIsNoPolicy
<1> HIDE DEF E, W
<1>4. Flushed(end) = Prefer(CpusOf(E), CpusOf(W))
  <2>1. end.source \in {"none", "PackageExact", "PackageWildcard"}
    BY <1>1 DEF MergedSoFar, Sources
  <2>2. CASE end.source = "none"
    BY <1>1, <2>2 DEF MergedSoFar, Flushed, Prefer, CpusOf
  <2>3. CASE end.source = "PackageExact"
    <3>1. W = {} /\ end.cpus = {} /\ end.group = CpusOf(E)
      BY <1>1, <2>3 DEF MergedSoFar
    <3>2. CpusOf(W) = {}
      BY <3>1 DEF CpusOf
    <3> QED BY <3>1, <3>2 DEF Flushed, Prefer
  <2>4. CASE end.source = "PackageWildcard"
    BY <1>1, <2>4 DEF MergedSoFar, Flushed, Prefer
  <2> QED BY <2>1, <2>2, <2>3, <2>4
<1>5. /\ DOMAIN merged = PolicyFields
      /\ merged.cpus = Flushed(end) /\ merged.sched = end.sched /\ merged.nice = end.nice
      /\ merged.uclampMin = end.uclampMin /\ merged.uclampMax = end.uclampMax
  BY DEF PolicyFields
<1> HIDE DEF merged
<1>6. Layered(merged, E, W)
  BY <1>1, <1>4, <1>5 DEF Layered, MergedSoFar
<1>7. SetsNothing(merged) <=> \A q \in E \cup W : SetsNothing(q)
  <2>1. /\ merged.cpus = {} <=> CpusOf(E) = {} /\ CpusOf(W) = {}
        /\ merged.sched = {} <=> SchedsOf(E) = {} /\ SchedsOf(W) = {}
        /\ merged.nice = {} <=> NicesOf(E) = {} /\ NicesOf(W) = {}
    BY <1>6 DEF Layered, SomeOf, Prefer
  <2>2. /\ merged.uclampMin = {} <=> MinsOf(E \cup W) = {}
        /\ merged.uclampMax = {} <=> MaxsOf(E \cup W) = {}
    BY <1>6 DEF Layered, GreatestOf, LeastOf
  <2>3. \A P : /\ CpusOf(P) = {} <=> \A q \in P : q.cpus = {}
               /\ SchedsOf(P) = {} <=> \A q \in P : q.sched = {}
               /\ NicesOf(P) = {} <=> \A q \in P : q.nice = {}
               /\ MinsOf(P) = {} <=> \A q \in P : q.uclampMin = {}
               /\ MaxsOf(P) = {} <=> \A q \in P : q.uclampMax = {}
    BY DEF CpusOf, SchedsOf, NicesOf, MinsOf, MaxsOf
  <2> QED BY <2>1, <2>2, <2>3 DEF SetsNothing
<1> QED BY <1>2, <1>3, <1>6, <1>7 DEF E, W

-----------------------------------------------------------------------------
(* Matching.                                                               *)

LEMMA RangeOfConcat ==
    ASSUME NEW T, NEW a \in Seq(T), NEW b \in Seq(T)
    PROVE  a \o b \in Seq(T) /\ Range(a \o b) = Range(a) \cup Range(b)
<1>1. /\ a \o b \in Seq(T) /\ Len(a \o b) = Len(a) + Len(b) /\ Len(a) \in Nat /\ Len(b) \in Nat
      /\ \A i \in 1..Len(a) : (a \o b)[i] = a[i]
      /\ \A i \in 1..Len(b) : (a \o b)[Len(a) + i] = b[i]
      /\ \A i \in 1..Len(a \o b) :
            i \in 1..Len(a) \/ (i - Len(a) \in 1..Len(b) /\ (a \o b)[i] = b[i - Len(a)])
  OBVIOUS
<1>2. DOMAIN a = 1..Len(a) /\ DOMAIN b = 1..Len(b) /\ DOMAIN (a \o b) = 1..Len(a \o b)
  BY <1>1
<1>3. ASSUME NEW x \in Range(a \o b) PROVE x \in Range(a) \cup Range(b)
  <2>1. PICK i \in 1..Len(a \o b) : x = (a \o b)[i]
    BY <1>2 DEF Range
  <2>2. CASE i \in 1..Len(a)
    BY <1>1, <1>2, <2>1, <2>2 DEF Range
  <2>3. CASE i - Len(a) \in 1..Len(b) /\ (a \o b)[i] = b[i - Len(a)]
    BY <1>2, <2>1, <2>3 DEF Range
  <2> QED BY <1>1, <2>2, <2>3
<1>4. ASSUME NEW x \in Range(a) PROVE x \in Range(a \o b)
  <2>1. PICK i \in 1..Len(a) : x = a[i]
    BY <1>2 DEF Range
  <2>2. i \in 1..Len(a \o b) /\ (a \o b)[i] = x
    BY <1>1, <2>1
  <2> QED BY <1>2, <2>2 DEF Range
<1>5. ASSUME NEW x \in Range(b) PROVE x \in Range(a \o b)
  <2>1. PICK i \in 1..Len(b) : x = b[i]
    BY <1>2 DEF Range
  <2>2. Len(a) + i \in 1..Len(a \o b) /\ (a \o b)[Len(a) + i] = x
    BY <1>1, <2>1
  <2> QED BY <1>2, <2>2 DEF Range
<1> QED BY <1>1, <1>3, <1>4, <1>5

LEMMA RuleMatchesIs ==
    ASSUME NEW R \in Seq(CompiledRules), NEW source \in Sources, NEW pkgs
    PROVE  /\ RuleMatches(R, source, pkgs) \in Seq(Matches)
           /\ Range(RuleMatches(R, source, pkgs)) =
                {[rule |-> r, source |-> source] : r \in {x \in Range(R) : x.pkg \in pkgs}}
<1> DEFINE hits == Keep(R, {r \in Range(R) : r.pkg \in pkgs})
           M == [k \in DOMAIN hits |-> [rule |-> hits[k], source |-> source]]
<1>1. hits \in Seq(CompiledRules) /\ Range(hits) = {r \in Range(R) : r.pkg \in pkgs}
  BY KeepRange
<1>2. RuleMatches(R, source, pkgs) = M
  BY DEF RuleMatches
<1> HIDE DEF hits
<1>3. DOMAIN hits = 1..Len(hits) /\ Len(hits) \in Nat /\ \A k \in DOMAIN hits : hits[k] \in CompiledRules
  BY <1>1
<1>4. M \in Seq(Matches)
  BY <1>3 DEF Matches
<1>5. Range(M) = {[rule |-> r, source |-> source] : r \in Range(hits)}
  BY DEF Range
<1> QED BY <1>1, <1>2, <1>4, <1>5

\* The package, for the rules that name it; a name with a wildcard is none.
Own(p) == IF ContainsWildcard(p) THEN {} ELSE {p}

LEMMA CollectedMatches ==
    ASSUME NEW R \in Seq(CompiledRules), NEW p
    PROVE  LET M == CollectPkgMatches(R, p)
               rules(pkgs) == {x \in Range(R) : x.pkg \in pkgs}
           IN /\ M \in Seq(Matches)
              /\ {m \in Range(M) : m.source = "PackageExact"} =
                    {[rule |-> r, source |-> "PackageExact"] : r \in rules(Own(p))}
              /\ {m \in Range(M) : m.source = "PackageWildcard"} =
                    {[rule |-> r, source |-> "PackageWildcard"] : r \in rules(BestWildcard(R, p))}
<1> DEFINE a == RuleMatches(R, "PackageExact", Own(p))
           b == RuleMatches(R, "PackageWildcard", BestWildcard(R, p))
<1>1. CollectPkgMatches(R, p) = a \o b
  BY DEF CollectPkgMatches, Own
<1>2. /\ a \in Seq(Matches) /\ b \in Seq(Matches)
      /\ Range(a) = {[rule |-> r, source |-> "PackageExact"] : r \in {x \in Range(R) : x.pkg \in Own(p)}}
      /\ Range(b) = {[rule |-> r, source |-> "PackageWildcard"] :
                        r \in {x \in Range(R) : x.pkg \in BestWildcard(R, p)}}
  BY RuleMatchesIs DEF Sources
<1> HIDE DEF a, b
<1>3. a \o b \in Seq(Matches) /\ Range(a \o b) = Range(a) \cup Range(b)
  BY <1>2, RangeOfConcat
<1>4. /\ \A m \in Range(a) : m.source = "PackageExact"
      /\ \A m \in Range(b) : m.source = "PackageWildcard"
  BY <1>2
<1>5. /\ {m \in Range(a \o b) : m.source = "PackageExact"} = Range(a)
      /\ {m \in Range(a \o b) : m.source = "PackageWildcard"} = Range(b)
  BY <1>3, <1>4
<1> QED BY <1>1, <1>2, <1>3, <1>5

\* The policies of the rules that match a package and the name of a thread,
\* or have no thread.
Hits(R, pkgs, t) ==
    {r.policy : r \in {x \in Range(R) : x.pkg \in pkgs /\ x.thread # <<>> /\ Fnmatch(x.thread, t)}}
Wholes(R, pkgs) ==
    {r.policy : r \in {x \in Range(R) : x.pkg \in pkgs /\ x.thread = <<>>}}

\* The policies of the rules for some packages whose matches from a source are in S.
Selected(R, pkgs, source, S) ==
    {r.policy : r \in {x \in Range(R) : x.pkg \in pkgs /\ [rule |-> x, source |-> source] \in S}}

LEMMA KeptFrom ==
    ASSUME NEW R \in Seq(CompiledRules), NEW p, NEW S, S \subseteq Range(CollectPkgMatches(R, p))
    PROVE  LET kept == Keep(CollectPkgMatches(R, p), S)
           IN /\ kept \in Seq(Matches) /\ Range(kept) = S
              /\ kept = <<>> <=> S = {}
              /\ From(kept, "PackageExact") = Selected(R, Own(p), "PackageExact", S)
              /\ From(kept, "PackageWildcard") = Selected(R, BestWildcard(R, p), "PackageWildcard", S)
<1> DEFINE M == CollectPkgMatches(R, p)
           kept == Keep(M, S)
           rules(pkgs) == {x \in Range(R) : x.pkg \in pkgs}
<1>1. /\ M \in Seq(Matches)
      /\ {m \in Range(M) : m.source = "PackageExact"} =
            {[rule |-> r, source |-> "PackageExact"] : r \in rules(Own(p))}
      /\ {m \in Range(M) : m.source = "PackageWildcard"} =
            {[rule |-> r, source |-> "PackageWildcard"] : r \in rules(BestWildcard(R, p))}
  BY CollectedMatches
<1> HIDE DEF M
<1>2. kept \in Seq(Matches) /\ Range(kept) = S
  <2>1. kept \in Seq(Matches) /\ Range(kept) = Range(M) \cap S
    BY <1>1, KeepRange
  <2>2. S \subseteq Range(M)
    BY DEF M
  <2> QED BY <2>1, <2>2
<1> HIDE DEF kept
<1>3. kept = <<>> <=> Range(kept) = {}
  <2>1. kept # <<>> => 1 \in DOMAIN kept
    BY <1>2
  <2>2. kept = <<>> => DOMAIN kept = {}
    OBVIOUS
  <2> QED BY <2>1, <2>2 DEF Range
<1>4. ASSUME NEW source \in Sources, NEW pkgs,
             {m \in Range(M) : m.source = source} = {[rule |-> r, source |-> source] : r \in rules(pkgs)}
      PROVE  From(kept, source) = {r.policy : r \in {x \in rules(pkgs) : [rule |-> x, source |-> source] \in S}}
  <2>1. {m \in S : m.source = source} =
           {[rule |-> r, source |-> source] : r \in {x \in rules(pkgs) : [rule |-> x, source |-> source] \in S}}
    <3> DEFINE all == {[rule |-> r, source |-> source] : r \in rules(pkgs)}
    <3>1. {m \in S : m.source = source} = S \cap {m \in Range(M) : m.source = source}
      BY DEF M
    <3>2. S \cap {m \in Range(M) : m.source = source} = S \cap all
      BY <1>4
    <3>3. S \cap all =
            {[rule |-> r, source |-> source] : r \in {x \in rules(pkgs) : [rule |-> x, source |-> source] \in S}}
      <4> HIDE DEF rules
      <4> QED OBVIOUS
    <3> QED BY <3>1, <3>2, <3>3
  <2> DEFINE rs == {x \in rules(pkgs) : [rule |-> x, source |-> source] \in S}
  <2>2. {x \in Range(kept) : x.source = source} = {[rule |-> r, source |-> source] : r \in rs}
    BY <1>2, <2>1
  <2> HIDE DEF rs, rules
  <2>3. {m.rule.policy : m \in {[rule |-> r, source |-> source] : r \in rs}} = {r.policy : r \in rs}
    <3> DEFINE ms == {[rule |-> r, source |-> source] : r \in rs}
    <3>1. \A m \in ms : \E r \in rs : m.rule = r
      OBVIOUS
    <3>2. \A r \in rs : \E m \in ms : m.rule = r
      <4> TAKE r \in rs
      <4>1. [rule |-> r, source |-> source] \in ms /\ [rule |-> r, source |-> source].rule = r
        OBVIOUS
      <4> QED BY <4>1
    <3> HIDE DEF ms
    <3>3. \A m \in ms : m.rule.policy \in {r.policy : r \in rs}
      BY <3>1
    <3>4. \A r \in rs : r.policy \in {m.rule.policy : m \in ms}
      BY <3>2
    <3>5. {m.rule.policy : m \in ms} = {r.policy : r \in rs}
      BY <3>3, <3>4
    <3> QED BY <3>5 DEF ms
  <2>4. From(kept, source) = {r.policy : r \in rs}
    BY <2>2, <2>3 DEF From
  <2> QED BY <2>4 DEF rs
<1>5. \A pkgs, source : {x \in rules(pkgs) : [rule |-> x, source |-> source] \in S} =
                        {x \in Range(R) : x.pkg \in pkgs /\ [rule |-> x, source |-> source] \in S}
  OBVIOUS
<1>6. From(kept, "PackageExact") =
        {r.policy : r \in {x \in rules(Own(p)) : [rule |-> x, source |-> "PackageExact"] \in S}}
  BY <1>1, <1>4 DEF Sources
<1>7. From(kept, "PackageWildcard") =
        {r.policy : r \in {x \in rules(BestWildcard(R, p)) : [rule |-> x, source |-> "PackageWildcard"] \in S}}
  BY <1>1, <1>4 DEF Sources
<1> QED BY <1>2, <1>3, <1>5, <1>6, <1>7 DEF kept, M, Selected

InOrder(a, b, c, d) == Prefer(a, Prefer(b, Prefer(c, d)))

\* A policy that resolves from the layers T1, T2 of the thread and P1, P2 of the package.
ResolvedFrom(q, T1, T2, P1, P2) ==
    /\ q.cpus = InOrder(CpusOf(T1), CpusOf(T2), CpusOf(P1), CpusOf(P2))
    /\ q.cpusetDir = ToRangeString(q.cpus)
    /\ SomeOf(q.sched, InOrder(SchedsOf(T1), SchedsOf(T2), SchedsOf(P1), SchedsOf(P2)))
    /\ SomeOf(q.nice, InOrder(NicesOf(T1), NicesOf(T2), NicesOf(P1), NicesOf(P2)))
    /\ GreatestOf(q.uclampMin, Prefer(MinsOf(T1 \cup T2), MinsOf(P1 \cup P2)))
    /\ LeastOf(q.uclampMax, Prefer(MaxsOf(T1 \cup T2), MaxsOf(P1 \cup P2)))

Places(q) == q.cpus # {} \/ q.sched # {} \/ q.nice # {}

LEMMA NoPolicyIsLayered ==
    ASSUME NEW E, NEW W, \A q \in E \cup W : SetsNothing(q)
    PROVE  Layered(NoPolicy, E, W)
<1>1. /\ CpusOf(E) = {} /\ CpusOf(W) = {} /\ SchedsOf(E) = {} /\ SchedsOf(W) = {}
      /\ NicesOf(E) = {} /\ NicesOf(W) = {} /\ MinsOf(E \cup W) = {} /\ MaxsOf(E \cup W) = {}
  BY DEF SetsNothing, CpusOf, SchedsOf, NicesOf, MinsOf, MaxsOf
<1> QED BY <1>1 DEF Layered, NoPolicy, PolicyFields, Prefer, SomeOf, GreatestOf, LeastOf

LEMMA FilledIsResolved ==
    ASSUME NEW T1, NEW T2, NEW P1, NEW P2, NEW a, NEW b, Layered(a, T1, T2), Layered(b, P1, P2),
           NEW q, q = [FillMissing(a, b) EXCEPT !.cpusetDir = ToRangeString(FillMissing(a, b).cpus)]
    PROVE  ResolvedFrom(q, T1, T2, P1, P2)
<1>1. /\ q.cpus = Prefer(a.cpus, b.cpus) /\ q.cpusetDir = ToRangeString(q.cpus)
      /\ q.sched = Prefer(a.sched, b.sched) /\ q.nice = Prefer(a.nice, b.nice)
      /\ q.uclampMin = Prefer(a.uclampMin, b.uclampMin)
      /\ q.uclampMax = Prefer(a.uclampMax, b.uclampMax)
  BY DEF FillMissing
<1>2. \A x, y, U, V, A, B : SomeOf(x, Prefer(U, V)) /\ SomeOf(y, Prefer(A, B))
                               => SomeOf(Prefer(x, y), InOrder(U, V, A, B))
  BY DEF SomeOf, Prefer, InOrder
<1>3. \A x, y, U, V : GreatestOf(x, U) /\ GreatestOf(y, V) => GreatestOf(Prefer(x, y), Prefer(U, V))
  BY DEF GreatestOf, Prefer
<1>4. \A x, y, U, V : LeastOf(x, U) /\ LeastOf(y, V) => LeastOf(Prefer(x, y), Prefer(U, V))
  BY DEF LeastOf, Prefer
<1>5. q.cpus = InOrder(CpusOf(T1), CpusOf(T2), CpusOf(P1), CpusOf(P2))
  BY <1>1 DEF Layered, Prefer, InOrder
<1>6. /\ SomeOf(q.sched, InOrder(SchedsOf(T1), SchedsOf(T2), SchedsOf(P1), SchedsOf(P2)))
      /\ SomeOf(q.nice, InOrder(NicesOf(T1), NicesOf(T2), NicesOf(P1), NicesOf(P2)))
  BY <1>1, <1>2 DEF Layered
<1>7. /\ GreatestOf(q.uclampMin, Prefer(MinsOf(T1 \cup T2), MinsOf(P1 \cup P2)))
      /\ LeastOf(q.uclampMax, Prefer(MaxsOf(T1 \cup T2), MaxsOf(P1 \cup P2)))
  BY <1>1, <1>3, <1>4 DEF Layered
<1> QED BY <1>1, <1>5, <1>6, <1>7 DEF ResolvedFrom

(***************************************************************************)
(* Resolving is layering, for every list of rules and every name: the      *)
(* rules of the thread before those of the package, and in each the        *)
(* package's own before those of the best wildcard (ruleset.rs resolve).   *)
(***************************************************************************)
THEOREM ResolvedInLayers ==
    ASSUME NEW R \in Seq(CompiledRules), NEW p, NEW t
    PROVE  LET wild == BestWildcard(R, p)
               T1 == Hits(R, Own(p), t)
               T2 == Hits(R, wild, t)
               P1 == Wholes(R, Own(p))
               P2 == Wholes(R, wild)
           IN /\ \A q \in Resolve(R, p, t) : ResolvedFrom(q, T1, T2, P1, P2) /\ Places(q)
              /\ Resolve(R, p, t) # {} <=>
                   /\ T1 \cup T2 = {} \/ \E q \in T1 \cup T2 : ~SetsNothing(q)
                   /\ \/ InOrder(CpusOf(T1), CpusOf(T2), CpusOf(P1), CpusOf(P2)) # {}
                      \/ InOrder(SchedsOf(T1), SchedsOf(T2), SchedsOf(P1), SchedsOf(P2)) # {}
                      \/ InOrder(NicesOf(T1), NicesOf(T2), NicesOf(P1), NicesOf(P2)) # {}
<1> DEFINE wild == BestWildcard(R, p)
           T1 == Hits(R, Own(p), t)
           T2 == Hits(R, wild, t)
           P1 == Wholes(R, Own(p))
           P2 == Wholes(R, wild)
           M == CollectPkgMatches(R, p)
           H == {m \in Range(M) : m.rule.thread # <<>> /\ Fnmatch(m.rule.thread, t)}
           N == {m \in Range(M) : m.rule.thread = <<>>}
           hits == Keep(M, H)
           ofThread == MergeRules(hits)
           ofPackage == MergeRules(Keep(M, N))
           fallbacks == Prefer(ofPackage, {NoPolicy})
           filled == {FillMissing(a, f) : a \in ofThread, f \in fallbacks}
           policies == IF hits = <<>> THEN ofPackage ELSE filled
<1>1. Resolve(R, p, t) = {[q EXCEPT !.cpusetDir = ToRangeString(q.cpus)] :
                             q \in {x \in policies : Places(x)}}
  BY DEF Resolve, Places
<1>2. \A x \in Range(R), source \in Sources : \A pkgs :
         LET m == [rule |-> x, source |-> source]
         IN pkgs = (IF source = "PackageExact" THEN Own(p) ELSE wild) /\ x.pkg \in pkgs => m \in Range(M)
  BY CollectedMatches DEF Sources
<1>3. /\ hits \in Seq(Matches) /\ Range(hits) = H /\ (hits = <<>> <=> H = {})
      /\ From(hits, "PackageExact") = T1 /\ From(hits, "PackageWildcard") = T2
  <2>0. H \subseteq Range(M)
    OBVIOUS
  <2>1. /\ hits \in Seq(Matches) /\ Range(hits) = H
        /\ hits = <<>> <=> H = {}
        /\ From(hits, "PackageExact") = Selected(R, Own(p), "PackageExact", H)
        /\ From(hits, "PackageWildcard") = Selected(R, wild, "PackageWildcard", H)
    <3> HIDE DEF H
    <3> QED BY <2>0, KeptFrom
  <2>2. ASSUME NEW x \in Range(R), NEW source \in Sources, NEW pkgs,
               pkgs = IF source = "PackageExact" THEN Own(p) ELSE wild, x.pkg \in pkgs
        PROVE  [rule |-> x, source |-> source] \in H <=> x.thread # <<>> /\ Fnmatch(x.thread, t)
    <3>1. [rule |-> x, source |-> source] \in Range(M)
      BY <1>2, <2>2
    <3> QED BY <3>1
  <2> HIDE DEF H, M, hits, wild
  <2>3. \A x \in Range(R) : x.pkg \in Own(p) =>
            ([rule |-> x, source |-> "PackageExact"] \in H <=> x.thread # <<>> /\ Fnmatch(x.thread, t))
    BY <2>2 DEF Sources
  <2>4. \A x \in Range(R) : x.pkg \in wild =>
            ([rule |-> x, source |-> "PackageWildcard"] \in H <=> x.thread # <<>> /\ Fnmatch(x.thread, t))
    BY <2>2 DEF Sources
  <2> QED BY <2>1, <2>3, <2>4 DEF Hits, Selected
<1>4. /\ Keep(M, N) \in Seq(Matches)
      /\ From(Keep(M, N), "PackageExact") = P1 /\ From(Keep(M, N), "PackageWildcard") = P2
  <2>0. N \subseteq Range(M)
    OBVIOUS
  <2>1. /\ Keep(M, N) \in Seq(Matches)
        /\ From(Keep(M, N), "PackageExact") = Selected(R, Own(p), "PackageExact", N)
        /\ From(Keep(M, N), "PackageWildcard") = Selected(R, wild, "PackageWildcard", N)
    <3> HIDE DEF N
    <3> QED BY <2>0, KeptFrom
  <2>2. ASSUME NEW x \in Range(R), NEW source \in Sources, NEW pkgs,
               pkgs = IF source = "PackageExact" THEN Own(p) ELSE wild, x.pkg \in pkgs
        PROVE  [rule |-> x, source |-> source] \in N <=> x.thread = <<>>
    <3>1. [rule |-> x, source |-> source] \in Range(M)
      BY <1>2, <2>2
    <3> QED BY <3>1
  <2> HIDE DEF N, M, wild
  <2>3. \A x \in Range(R) : x.pkg \in Own(p) =>
            ([rule |-> x, source |-> "PackageExact"] \in N <=> x.thread = <<>>)
    BY <2>2 DEF Sources
  <2>4. \A x \in Range(R) : x.pkg \in wild =>
            ([rule |-> x, source |-> "PackageWildcard"] \in N <=> x.thread = <<>>)
    BY <2>2 DEF Sources
  <2> QED BY <2>1, <2>3, <2>4 DEF Wholes, Selected
<1>5. H = {} <=> T1 \cup T2 = {}
  <2>1. ASSUME NEW m \in H PROVE T1 \cup T2 # {}
    <3>1. m \in Range(hits) /\ m \in Matches
      <4>1. m \in Range(hits)
        BY <1>3, <2>1
      <4>2. PICK i \in DOMAIN hits : m = hits[i]
        BY <4>1 DEF Range
      <4> QED BY <1>3, <4>1, <4>2
    <3>2. m.rule.policy \in From(hits, m.source) /\ m.source \in Sources
      BY <3>1 DEF From, Matches
    <3> QED BY <1>3, <3>2 DEF Sources
  <2>2. ASSUME H = {} PROVE T1 \cup T2 = {}
    <3>1. Range(hits) = {}
      BY <1>3, <2>2 DEF Range
    <3> QED BY <1>3, <3>1 DEF From
  <2> QED BY <2>1, <2>2
<1> HIDE DEF H, N, M, hits, T1, T2, P1, P2, wild
<1>6. /\ \A q \in ofThread : Layered(q, T1, T2)
      /\ ofThread = {} <=> \A q \in T1 \cup T2 : SetsNothing(q)
  BY <1>3, MergeIsLayered
<1>7. /\ \A q \in ofPackage : Layered(q, P1, P2)
      /\ ofPackage = {} <=> \A q \in P1 \cup P2 : SetsNothing(q)
  BY <1>4, MergeIsLayered
<1> HIDE DEF ofThread, ofPackage
<1>8. fallbacks # {} /\ \A f \in fallbacks : Layered(f, P1, P2)
  BY <1>7, NoPolicyIsLayered DEF Prefer
<1> HIDE DEF fallbacks
<1>9. \A x \in policies :
         ResolvedFrom([x EXCEPT !.cpusetDir = ToRangeString(x.cpus)], T1, T2, P1, P2)
  <2> SUFFICES ASSUME NEW x \in policies
               PROVE  ResolvedFrom([x EXCEPT !.cpusetDir = ToRangeString(x.cpus)], T1, T2, P1, P2)
    OBVIOUS
  <2>1. CASE hits = <<>>
    <3> DEFINE q == [x EXCEPT !.cpusetDir = ToRangeString(x.cpus)]
    <3>1. /\ CpusOf({}) = {} /\ SchedsOf({}) = {} /\ NicesOf({}) = {}
          /\ MinsOf({}) = {} /\ MaxsOf({}) = {}
      BY DEF CpusOf, SchedsOf, NicesOf, MinsOf, MaxsOf
    <3>2. T1 = {} /\ T2 = {} /\ T1 \cup T2 = {}
      BY <1>3, <1>5, <2>1
    <3>3. Layered(x, P1, P2)
      BY <1>7, <2>1
    <3>4. /\ q.cpus = x.cpus /\ q.sched = x.sched /\ q.nice = x.nice
          /\ q.uclampMin = x.uclampMin /\ q.uclampMax = x.uclampMax
          /\ q.cpusetDir = ToRangeString(q.cpus)
      BY <3>3 DEF Layered, PolicyFields
    <3> HIDE DEF q
    <3>5. ResolvedFrom(q, T1, T2, P1, P2)
      BY <3>1, <3>2, <3>3, <3>4 DEF Layered, ResolvedFrom, InOrder, Prefer
    <3> QED BY <3>5 DEF q
  <2>2. CASE hits # <<>>
    <3>1. PICK a \in ofThread, f \in fallbacks : x = FillMissing(a, f)
      BY <2>2
    <3>2. Layered(a, T1, T2) /\ Layered(f, P1, P2)
      BY <1>6, <1>8
    <3> HIDE DEF policies
    <3> QED BY <3>1, <3>2, FilledIsResolved
  <2> QED BY <2>1, <2>2
<1>10. \A x \in policies : DOMAIN x = PolicyFields
  <2>1. \A a, f : DOMAIN FillMissing(a, f) = PolicyFields
    BY DEF FillMissing, PolicyFields
  <2>2. \A x \in ofPackage : DOMAIN x = PolicyFields
    BY <1>7 DEF Layered
  <2> QED BY <2>1, <2>2
<1>11. policies # {} <=> (T1 \cup T2 = {} /\ ofPackage # {}) \/ \E q \in T1 \cup T2 : ~SetsNothing(q)
  <2>1. CASE hits = <<>>
    BY <1>3, <1>5, <2>1
  <2>2. CASE hits # <<>>
    <3>1. filled # {} <=> ofThread # {}
      <4>1. ASSUME NEW a \in ofThread PROVE filled # {}
        <5>1. PICK f \in fallbacks : TRUE
          BY <1>8
        <5>2. FillMissing(a, f) \in filled
          BY <5>1
        <5> HIDE DEF filled
        <5> QED BY <5>2
      <4>2. ofThread = {} => filled = {}
        OBVIOUS
      <4> HIDE DEF filled
      <4> QED BY <4>1, <4>2
    <3> HIDE DEF filled
    <3>2. policies = filled /\ T1 \cup T2 # {}
      BY <1>3, <1>5, <2>2
    <3> QED BY <1>6, <3>1, <3>2
  <2> QED BY <2>1, <2>2
<1> DEFINE layered == \/ InOrder(CpusOf(T1), CpusOf(T2), CpusOf(P1), CpusOf(P2)) # {}
                      \/ InOrder(SchedsOf(T1), SchedsOf(T2), SchedsOf(P1), SchedsOf(P2)) # {}
                      \/ InOrder(NicesOf(T1), NicesOf(T2), NicesOf(P1), NicesOf(P2)) # {}
<1> HIDE DEF policies
<1>12. \A x \in policies :
          LET q == [x EXCEPT !.cpusetDir = ToRangeString(x.cpus)]
          IN /\ q.cpus = x.cpus /\ q.sched = x.sched /\ q.nice = x.nice
             /\ Places(q) <=> Places(x)
             /\ Places(x) <=> layered
  <2> SUFFICES ASSUME NEW x \in policies
               PROVE  LET q == [x EXCEPT !.cpusetDir = ToRangeString(x.cpus)]
                      IN /\ q.cpus = x.cpus /\ q.sched = x.sched /\ q.nice = x.nice
                         /\ Places(q) <=> Places(x)
                         /\ Places(x) <=> layered
    OBVIOUS
  <2> DEFINE q == [x EXCEPT !.cpusetDir = ToRangeString(x.cpus)]
  <2>1. q.cpus = x.cpus /\ q.sched = x.sched /\ q.nice = x.nice
    BY <1>10 DEF PolicyFields
  <2>2. ResolvedFrom(q, T1, T2, P1, P2)
    BY <1>9
  <2> HIDE DEF q
  <2>3. Places(q) <=> layered
    BY <2>2 DEF ResolvedFrom, Places, SomeOf
  <2>4. Places(q) <=> Places(x)
    BY <2>1 DEF Places
  <2> QED BY <2>1, <2>3, <2>4 DEF q
<1>13. T1 \cup T2 = {} /\ ofPackage = {} => ~layered
  <2> SUFFICES ASSUME T1 = {}, T2 = {}, \A q \in P1 \cup P2 : SetsNothing(q)
               PROVE  ~layered
    BY <1>7
  <2>1. /\ CpusOf(T1) = {} /\ CpusOf(T2) = {} /\ CpusOf(P1) = {} /\ CpusOf(P2) = {}
        /\ SchedsOf(T1) = {} /\ SchedsOf(T2) = {} /\ SchedsOf(P1) = {} /\ SchedsOf(P2) = {}
        /\ NicesOf(T1) = {} /\ NicesOf(T2) = {} /\ NicesOf(P1) = {} /\ NicesOf(P2) = {}
    BY DEF SetsNothing, CpusOf, SchedsOf, NicesOf
  <2> QED BY <2>1 DEF InOrder, Prefer
<1>14. \A q \in Resolve(R, p, t) : ResolvedFrom(q, T1, T2, P1, P2) /\ Places(q)
  <2> SUFFICES ASSUME NEW x \in policies, Places(x)
               PROVE  LET q == [x EXCEPT !.cpusetDir = ToRangeString(x.cpus)]
                      IN ResolvedFrom(q, T1, T2, P1, P2) /\ Places(q)
    BY <1>1
  <2> QED BY <1>9, <1>12
<1>15. Resolve(R, p, t) # {} <=> policies # {} /\ layered
  <2>1. Resolve(R, p, t) # {} <=> \E x \in policies : Places(x)
    BY <1>1
  <2>2. \A x \in policies : Places(x) <=> layered
    BY <1>12
  <2> QED BY <2>1, <2>2
<1> HIDE DEF layered
<1>16. Resolve(R, p, t) # {} <=>
          (T1 \cup T2 = {} \/ \E q \in T1 \cup T2 : ~SetsNothing(q)) /\ layered
  BY <1>11, <1>13, <1>15
<1> QED BY <1>14, <1>16 DEF layered, T1, T2, P1, P2, wild
-----------------------------------------------------------------------------
(* The best wildcard.                                                      *)

LEMMA SpecificityParts ==
    ASSUME NEW w \in Names
    PROVE  LET k == FixedPrefix(w)
               n == Cardinality(WildcardPlaces(w))
           IN /\ k \in Nat /\ n \in Nat /\ k + n <= Len(w)
              /\ PatternSpecificity(w) = (PrefixWeight * k + Len(w) - n - WildcardWeight * n) % WordModulus
              /\ PatternSpecificity(w) \in 0..(WordModulus - 1)
<1> DEFINE S == WildcardPlaces(w)
           k == FixedPrefix(w)
           n == Cardinality(S)
<1>1. Len(w) \in Nat /\ S \subseteq 1..Len(w)
  BY DEF WildcardPlaces, Names
<1> HIDE DEF S
<1>2. S \cup {Len(w) + 1} \in SUBSET Nat /\ S \cup {Len(w) + 1} # {}
  <2>1. \A j \in Nat : j + 1 \in Nat /\ 1..j \subseteq Nat
    OBVIOUS
  <2>2. Len(w) + 1 \in Nat /\ S \subseteq Nat
    BY <1>1, <2>1
  <2> QED BY <2>2
<1>3. PICK m \in S \cup {Len(w) + 1} : \A x \in S \cup {Len(w) + 1} : m <= x
  BY <1>2, Keeping!Least
<1>4. k = m - 1
  <2>1. S \cup {Len(w) + 1} \in SUBSET Int
    BY <1>2
  <2>2. Min(S \cup {Len(w) + 1}) = m
    BY <1>3, <2>1, MinIs
  <2> QED BY <2>2 DEF FixedPrefix, S
<1>5. m \in 1..(Len(w) + 1)
  BY <1>1, <1>3
<1>6. S \in SUBSET (m..Len(w))
  BY <1>1, <1>3, <1>5
<1>7. IsFiniteSet(m..Len(w)) /\ Cardinality(m..Len(w)) = Len(w) - m + 1
  <2>1. m \in Int /\ Len(w) \in Int /\ m <= Len(w) + 1
    BY <1>1, <1>5
  <2>2. IsFiniteSet(m..Len(w)) /\ Cardinality(m..Len(w)) = IF m > Len(w) THEN 0 ELSE Len(w) - m + 1
    BY <2>1, FS_Interval
  <2> QED BY <2>1, <2>2
<1>8. IsFiniteSet(S) /\ n <= Len(w) - m + 1
  <2> DEFINE T == m..Len(w)
  <2>1. IsFiniteSet(T) /\ Cardinality(T) = Len(w) - m + 1 /\ S \in SUBSET T
    BY <1>6, <1>7
  <2> HIDE DEF T
  <2>2. IsFiniteSet(S) /\ Cardinality(S) <= Cardinality(T)
    BY <2>1, FS_Subset
  <2> QED BY <2>1, <2>2
<1>9. n \in Nat
  BY <1>8, FS_CardinalityType
<1> HIDE DEF n
<1>10. k \in Nat /\ k + n <= Len(w)
  BY <1>1, <1>4, <1>5, <1>8, <1>9
<1>11. PatternSpecificity(w) = (PrefixWeight * k + Len(w) - n - WildcardWeight * n) % WordModulus
  BY DEF PatternSpecificity, n, S
<1> HIDE DEF k
<1>12. PrefixWeight * k + Len(w) - n - WildcardWeight * n \in Int
  BY <1>1, <1>9, <1>10, RulesAssumption
<1>13. PatternSpecificity(w) \in 0..(WordModulus - 1)
  <2>1. \A x \in Int, M \in Nat \ {0} : x % M \in 0..(M - 1)
    OBVIOUS
  <2> QED BY <1>11, <1>12, <2>1, RulesAssumption
<1> QED BY <1>9, <1>10, <1>11, <1>13 DEF k, n, S

GroupStep(patterns, groups, pattern) ==
    IF ContainsWildcard(pattern) /\ ~Contains(groups, pattern) THEN Append(groups, pattern) ELSE groups
Grouped(patterns, k, groups) ==
    /\ groups \in Seq(Names)
    /\ Range(groups) = {patterns[i] : i \in {j \in 1..k : ContainsWildcard(patterns[j])}}

Grouping == INSTANCE FoldTheorems WITH Op <- GroupStep, Inv <- Grouped

\* The wildcard patterns of a list of rules.
WildcardsOf(R) == {r.pkg : r \in {x \in Range(R) : ContainsWildcard(x.pkg)}}

LEMMA WildcardGroupsAre ==
    ASSUME NEW R \in Seq(CompiledRules)
    PROVE  WildcardGroups(R) \in Seq(Names) /\ Range(WildcardGroups(R)) = WildcardsOf(R)
<1> DEFINE patterns == [i \in DOMAIN R |-> R[i].pkg]
<1>1. WildcardGroups(R) = Grouping!Fold(patterns, <<>>, patterns)
  BY DEF WildcardGroups, FoldLeft, MapThenFoldSet, Max, Grouping!Fold, Grouping!FoldLeft,
         Grouping!MapThenFoldSet, Grouping!Max, GroupStep
<1>2. patterns \in Seq(Names) /\ Len(patterns) = Len(R) /\ \A i \in 1..Len(R) : patterns[i] = R[i].pkg
  <2>1. \A x \in CompiledRules : x.pkg \in Names
    BY DEF CompiledRules
  <2>2. DOMAIN R = 1..Len(R) /\ Len(R) \in Nat /\ \A i \in 1..Len(R) : R[i] \in CompiledRules
    OBVIOUS
  <2>3. patterns = [i \in 1..Len(R) |-> R[i].pkg] /\ \A i \in 1..Len(R) : R[i].pkg \in Names
    BY <2>1, <2>2
  <2> QED BY <2>2, <2>3
<1> HIDE DEF patterns
<1>3. Grouped(patterns, 0, <<>>)
  BY DEF Grouped, Range
<1>4. ASSUME NEW k \in 1..Len(patterns), NEW groups, Grouped(patterns, k - 1, groups)
      PROVE  Grouped(patterns, k, GroupStep(patterns, groups, patterns[k]))
  <2> DEFINE seen(n) == {patterns[i] : i \in {j \in 1..n : ContainsWildcard(patterns[j])}}
  <2>1. groups \in Seq(Names) /\ Range(groups) = seen(k - 1) /\ patterns[k] \in Names
    BY <1>2, <1>4 DEF Grouped
  <2>2. seen(k) = IF ContainsWildcard(patterns[k]) THEN seen(k - 1) \cup {patterns[k]} ELSE seen(k - 1)
    <3>1. 1..k = 1..(k - 1) \cup {k}
      OBVIOUS
    <3> QED BY <3>1
  <2>3. Contains(groups, patterns[k]) <=> patterns[k] \in Range(groups)
    <3>1. DOMAIN groups = 1..Len(groups)
      BY <2>1
    <3> QED BY <3>1 DEF Contains, Range
  <2> HIDE DEF seen
  <2>4. CASE ContainsWildcard(patterns[k]) /\ ~Contains(groups, patterns[k])
    <3>1. Append(groups, patterns[k]) \in Seq(Names)
          /\ Range(Append(groups, patterns[k])) = Range(groups) \cup {patterns[k]}
      BY <2>1, RangeOfAppend
    <3> QED BY <2>1, <2>2, <2>4, <3>1 DEF Grouped, GroupStep, seen
  <2>5. CASE ~(ContainsWildcard(patterns[k]) /\ ~Contains(groups, patterns[k]))
    <3>1. seen(k) = seen(k - 1)
      BY <2>1, <2>2, <2>3, <2>5
    <3> QED BY <2>1, <2>5, <3>1 DEF Grouped, GroupStep, seen
  <2> QED BY <2>4, <2>5
<1>5. Grouped(patterns, Len(patterns), Grouping!Fold(patterns, <<>>, patterns))
  <2> HIDE DEF Grouped, GroupStep
  <2> QED BY <1>2, <1>3, <1>4, Grouping!FoldInvariant
<1>6. Range(R) = {R[i] : i \in 1..Len(R)}
  BY DEF Range
<1>7. {patterns[i] : i \in {j \in 1..Len(R) : ContainsWildcard(patterns[j])}} = WildcardsOf(R)
  <2>1. \A i \in 1..Len(R) : ContainsWildcard(patterns[i]) => patterns[i] \in WildcardsOf(R)
    BY <1>2, <1>6 DEF WildcardsOf
  <2>2. ASSUME NEW v \in WildcardsOf(R)
        PROVE  v \in {patterns[i] : i \in {j \in 1..Len(R) : ContainsWildcard(patterns[j])}}
    <3>1. PICK x \in Range(R) : ContainsWildcard(x.pkg) /\ v = x.pkg
      BY DEF WildcardsOf
    <3>2. PICK i \in 1..Len(R) : x = R[i]
      BY <1>6
    <3> QED BY <1>2, <3>1, <3>2
  <2> QED BY <2>1, <2>2
<1> QED BY <1>1, <1>2, <1>5, <1>7 DEF Grouped

Score(best) == IF best = {} THEN 0 ELSE PatternSpecificity(CHOOSE b \in best : TRUE)
BetterStep(c, best, pattern) ==
    IF PatternSpecificity(pattern) > Score(best) /\ Fnmatch(pattern, c.pkg) THEN {pattern} ELSE best
\* The best of the first k groups.
BestSoFar(c, k, best) ==
    /\ \/ best = {}
       \/ \E i \in 1..k : /\ best = {c.groups[i]} /\ Fnmatch(c.groups[i], c.pkg)
                          /\ PatternSpecificity(c.groups[i]) > 0
    /\ \A i \in 1..k : Fnmatch(c.groups[i], c.pkg) => PatternSpecificity(c.groups[i]) <= Score(best)

Bettering == INSTANCE FoldTheorems WITH Op <- BetterStep, Inv <- BestSoFar

LEMMA ScoreOfOne == ASSUME NEW w PROVE Score({w}) = PatternSpecificity(w) /\ Score({}) = 0
BY DEF Score

\* The wildcard patterns that match a package.
MatchingWildcards(R, p) == {w \in WildcardsOf(R) : Fnmatch(w, p)}

(***************************************************************************)
(* The best wildcard is one of the highest score among those that match;   *)
(* there is none only when none that matches scores (ruleset.rs            *)
(* collect_pkg_matches).                                                   *)
(***************************************************************************)
THEOREM BestWildcardIsBest ==
    ASSUME NEW R \in Seq(CompiledRules), NEW p
    PROVE  /\ BestWildcard(R, p) = {} \/ \E w \in MatchingWildcards(R, p) :
                 BestWildcard(R, p) = {w} /\ PatternSpecificity(w) > 0
           /\ \A w \in MatchingWildcards(R, p) :
                 /\ BestWildcard(R, p) = {} => PatternSpecificity(w) = 0
                 /\ \A b \in BestWildcard(R, p) : PatternSpecificity(w) <= PatternSpecificity(b)
<1> DEFINE groups == WildcardGroups(R)
           c == [pkg |-> p, groups |-> groups]
           best == BestWildcard(R, p)
<1>1. best = Bettering!Fold(c, {}, groups)
  BY DEF BestWildcard, FoldLeft, MapThenFoldSet, Max, Bettering!Fold, Bettering!FoldLeft,
         Bettering!MapThenFoldSet, Bettering!Max, BetterStep, Score
<1>2. groups \in Seq(Names) /\ Range(groups) = WildcardsOf(R)
  BY WildcardGroupsAre
<1>3. c.pkg = p /\ c.groups = groups
  OBVIOUS
<1> HIDE DEF groups, c, best
<1>4. \A i \in 1..Len(groups) : groups[i] \in Names /\ PatternSpecificity(groups[i]) \in Nat
  <2> SUFFICES ASSUME NEW i \in 1..Len(groups)
               PROVE  groups[i] \in Names /\ PatternSpecificity(groups[i]) \in Nat
    OBVIOUS
  <2>1. groups[i] \in Names
    BY <1>2
  <2>2. PatternSpecificity(groups[i]) \in 0..(WordModulus - 1)
    BY <2>1, SpecificityParts
  <2> QED BY <2>1, <2>2, RulesAssumption
<1>5. BestSoFar(c, 0, {})
  BY DEF BestSoFar
<1>6. ASSUME NEW k \in 1..Len(groups), NEW b, BestSoFar(c, k - 1, b)
      PROVE  BestSoFar(c, k, BetterStep(c, b, groups[k]))
  <2> DEFINE g == groups[k]
  <2>1. 1..k = 1..(k - 1) \cup {k} /\ 1..(k - 1) \subseteq 1..Len(groups)
    OBVIOUS
  <2>2. PatternSpecificity(g) \in Nat /\ Score(b) \in Nat
    <3>1. PatternSpecificity(g) \in Nat
      BY <1>4
    <3>2. Score(b) \in Nat
      <4>1. CASE b = {}
        <5>1. Score(b) = 0
          BY <4>1, ScoreOfOne
        <5> QED BY <5>1
      <4>2. ASSUME NEW i \in 1..(k - 1), b = {groups[i]} PROVE Score(b) \in Nat
        <5>1. Score(b) = PatternSpecificity(groups[i])
          BY <4>2, ScoreOfOne
        <5> QED BY <1>4, <2>1, <5>1
      <4> QED BY <1>3, <1>6, <4>1, <4>2 DEF BestSoFar
    <3> QED BY <3>1, <3>2
  <2>3. \A i \in 1..(k - 1) : PatternSpecificity(groups[i]) \in Nat
    BY <1>4, <2>1
  <2>4. \A i \in 1..(k - 1) : Fnmatch(groups[i], p) => PatternSpecificity(groups[i]) <= Score(b)
    BY <1>3, <1>6 DEF BestSoFar
  <2>5. CASE PatternSpecificity(g) > Score(b) /\ Fnmatch(g, p)
    <3>1. BetterStep(c, b, g) = {g} /\ Score({g}) = PatternSpecificity(g)
      BY <1>3, <2>5, ScoreOfOne DEF BetterStep
    <3>2. PatternSpecificity(g) > 0
      BY <2>2, <2>5
    <3>3. \A i \in 1..k : Fnmatch(groups[i], p) => PatternSpecificity(groups[i]) <= Score({g})
      <4> SUFFICES ASSUME NEW i \in 1..k, Fnmatch(groups[i], p)
                   PROVE  PatternSpecificity(groups[i]) <= PatternSpecificity(g)
        BY <3>1
      <4>1. CASE i = k
        BY <2>2, <4>1
      <4>2. CASE i \in 1..(k - 1)
        BY <2>2, <2>3, <2>4, <2>5, <4>2
      <4> QED BY <2>1, <4>1, <4>2
    <3> QED BY <1>3, <2>1, <2>5, <3>1, <3>2, <3>3 DEF BestSoFar
  <2>6. CASE ~(PatternSpecificity(g) > Score(b) /\ Fnmatch(g, p))
    <3>1. BetterStep(c, b, g) = b
      BY <1>3, <2>6 DEF BetterStep
    <3>2. \A i \in 1..k : Fnmatch(groups[i], p) => PatternSpecificity(groups[i]) <= Score(b)
      <4> SUFFICES ASSUME NEW i \in 1..k, Fnmatch(groups[i], p)
                   PROVE  PatternSpecificity(groups[i]) <= Score(b)
        OBVIOUS
      <4>1. CASE i = k
        BY <2>2, <2>6, <4>1
      <4>2. CASE i \in 1..(k - 1)
        BY <2>4, <4>2
      <4> QED BY <2>1, <4>1, <4>2
    <3> HIDE DEF g
    <3>3. \/ b = {}
          \/ \E i \in 1..k : b = {c.groups[i]} /\ Fnmatch(c.groups[i], c.pkg)
                             /\ PatternSpecificity(c.groups[i]) > 0
      BY <1>6, <2>1 DEF BestSoFar
    <3> QED BY <1>3, <3>1, <3>2, <3>3 DEF BestSoFar, g
  <2> QED BY <2>5, <2>6
<1>7. BestSoFar(c, Len(groups), best)
  <2> HIDE DEF BestSoFar, BetterStep
  <2> QED BY <1>1, <1>2, <1>5, <1>6, Bettering!FoldInvariant
<1>8. Range(groups) = {groups[i] : i \in 1..Len(groups)}
  BY <1>2 DEF Range
<1>9. \A w \in WildcardsOf(R) : w \in Names /\ PatternSpecificity(w) \in Nat
  BY <1>2, <1>4, <1>8
<1>10. \A w \in MatchingWildcards(R, p) : PatternSpecificity(w) <= Score(best)
  BY <1>2, <1>3, <1>7, <1>8 DEF BestSoFar, MatchingWildcards
<1>11. best = {} \/ \E w \in MatchingWildcards(R, p) : best = {w} /\ PatternSpecificity(w) > 0
  BY <1>2, <1>3, <1>7, <1>8 DEF BestSoFar, MatchingWildcards
<1>12. ASSUME NEW w \in MatchingWildcards(R, p)
       PROVE  /\ best = {} => PatternSpecificity(w) = 0
              /\ \A b \in best : PatternSpecificity(w) <= PatternSpecificity(b)
  <2>1. PatternSpecificity(w) \in Nat /\ PatternSpecificity(w) <= Score(best)
    BY <1>9, <1>10 DEF MatchingWildcards
  <2>2. CASE best = {}
    <3>1. Score(best) = 0
      BY <2>2, ScoreOfOne
    <3> QED BY <2>1, <2>2, <3>1
  <2>3. ASSUME NEW v, best = {v}
        PROVE  PatternSpecificity(w) <= PatternSpecificity(v)
    BY <2>1, <2>3, ScoreOfOne
  <2> QED BY <1>11, <2>2, <2>3
<1> QED BY <1>11, <1>12 DEF best

-----------------------------------------------------------------------------
(* Compilation.                                                            *)

RuleConfigs ==
    [pkg : Names, thread : Names, cpus : RangeStrings, sched : Optional(Scheds),
     nice : Optional(Int), uclampMin : Optional(Int), uclampMax : Optional(Int)]

LEMMA CompileRuleTyped ==
    ASSUME NEW rc \in RuleConfigs, NEW present \in SUBSET Cpus
    PROVE  /\ CompileRule(rc, present) \in CompiledRules
           /\ CompileRule(rc, present).pkg = rc.pkg
           /\ CompileRule(rc, present).policy.cpus \subseteq present
<1> DEFINE cpus == ParseCpuRanges(rc.cpus, present)
<1>1. cpus \subseteq present /\ cpus \in SUBSET Cpus
  BY DEF ParseCpuRanges
<1> HIDE DEF cpus
<1>2. ToRangeString(cpus) \in RangeStrings
  BY <1>1, RangeStringsAreExact DEF RangeStrings
<1>3. /\ rc.pkg \in Names /\ rc.thread \in Names /\ rc.nice \in Optional(Int)
      /\ rc.uclampMin \in Optional(Int) /\ rc.uclampMax \in Optional(Int)
      /\ rc.sched \in Optional(Scheds)
  BY DEF RuleConfigs
<1>4. SchedSpec(rc.sched) \in Optional(Scheds)
  BY <1>3 DEF SchedSpec, Optional
<1>5. CompileRule(rc, present) =
        [pkg |-> rc.pkg, thread |-> rc.thread,
         policy |-> [cpus |-> cpus, cpusetDir |-> ToRangeString(cpus),
                     sched |-> SchedSpec(rc.sched), nice |-> rc.nice,
                     uclampMin |-> rc.uclampMin, uclampMax |-> rc.uclampMax]]
  BY DEF CompileRule, cpus
<1> QED BY <1>1, <1>2, <1>3, <1>4, <1>5 DEF CompiledRules, Policies

\* What the rules of a configuration are compiled to.
CompiledFrom(rcs, present) == {CompileRule(rc, present) : rc \in {x \in rcs : IsValid(x, present)}}

LEMMA CompileIs ==
    ASSUME NEW e \in Seq(RuleConfigs), NEW topo, topo.present \subseteq Cpus
    PROVE  /\ Compile(e, topo) \in Seq(CompiledRules)
           /\ Range(Compile(e, topo)) = CompiledFrom(Range(e), topo.present)
           /\ \A r \in Range(Compile(e, topo)) :
                 /\ r \in CompiledRules /\ r.policy.cpus \subseteq topo.present
                 /\ r.pkg \in Names /\ Len(r.pkg) < MaxPkgLen
<1> DEFINE present == topo.present
           valid == Keep(e, {rc \in Range(e) : IsValid(rc, present)})
           out == [i \in DOMAIN valid |-> CompileRule(valid[i], present)]
<1>1. Compile(e, topo) = out
  BY DEF Compile
<1>2. valid \in Seq(RuleConfigs) /\ Range(valid) = {rc \in Range(e) : IsValid(rc, present)}
  BY KeepRange
<1>3. present \in SUBSET Cpus
  OBVIOUS
<1> HIDE DEF valid, present
<1>4. /\ DOMAIN valid = 1..Len(valid) /\ Len(valid) \in Nat
      /\ \A i \in DOMAIN valid : valid[i] \in RuleConfigs /\ IsValid(valid[i], present)
  BY <1>2 DEF Range
<1>5. \A i \in DOMAIN valid : /\ CompileRule(valid[i], present) \in CompiledRules
                              /\ CompileRule(valid[i], present).pkg = valid[i].pkg
                              /\ CompileRule(valid[i], present).policy.cpus \subseteq present
  BY <1>3, <1>4, CompileRuleTyped
<1>6. out \in Seq(CompiledRules)
  BY <1>4, <1>5
<1>7. Range(out) = {CompileRule(rc, present) : rc \in Range(valid)}
  BY DEF Range
<1>8. \A i \in DOMAIN valid : valid[i].pkg \in Names /\ Len(valid[i].pkg) < MaxPkgLen
  BY <1>4 DEF RuleConfigs, IsValid
<1>9. ASSUME NEW r \in Range(out)
      PROVE  /\ r \in CompiledRules /\ r.policy.cpus \subseteq present
             /\ r.pkg \in Names /\ Len(r.pkg) < MaxPkgLen
  <2>1. PICK i \in DOMAIN valid : r = CompileRule(valid[i], present)
    BY DEF Range
  <2> QED BY <1>5, <1>8, <2>1
<1> QED BY <1>1, <1>2, <1>6, <1>7, <1>9 DEF CompiledFrom, present

-----------------------------------------------------------------------------
(* Expansion.                                                              *)

JoinStep(seqs, out, seq) == out \o seq
JoinedUpTo(c, k, out) ==
    out \in Seq(c.type) /\ Range(out) = UNION {Range(c.seqs[i]) : i \in 1..k}

Joining == INSTANCE FoldTheorems WITH Op <- JoinStep, Inv <- JoinedUpTo

LEMMA UnionOfMore ==
    ASSUME NEW S, NEW T, NEW x, \A s \in S : s \in T \/ s = x, x \in S, \A s \in T : s \in S
    PROVE  UNION S = (UNION T) \cup x
<1>1. ASSUME NEW e \in UNION S PROVE e \in (UNION T) \cup x
  <2>1. PICK s \in S : e \in s
    OBVIOUS
  <2> QED BY <2>1
<1>2. ASSUME NEW e \in (UNION T) \cup x PROVE e \in UNION S
  <2>1. CASE e \in x
    BY <2>1
  <2>2. CASE e \in UNION T
    <3>1. PICK s \in T : e \in s
      BY <2>2
    <3> QED BY <3>1
  <2> QED BY <2>1, <2>2
<1> QED BY <1>1, <1>2

LEMMA JoinedIs ==
    ASSUME NEW T, NEW seqs \in Seq(Seq(T))
    PROVE  /\ Joined(seqs) \in Seq(T)
           /\ Range(Joined(seqs)) = UNION {Range(seqs[i]) : i \in DOMAIN seqs}
<1> DEFINE c == [seqs |-> seqs, type |-> T]
<1>1. Joined(seqs) = Joining!Fold(c, <<>>, seqs)
  BY DEF Joined, FoldLeft, MapThenFoldSet, Max, Joining!Fold, Joining!FoldLeft,
         Joining!MapThenFoldSet, Joining!Max, JoinStep
<1>2. c.seqs = seqs /\ c.type = T
  OBVIOUS
<1> HIDE DEF c
<1>3. JoinedUpTo(c, 0, <<>>)
  BY <1>2 DEF JoinedUpTo, Range
<1>4. ASSUME NEW k \in 1..Len(seqs), NEW out, JoinedUpTo(c, k - 1, out)
      PROVE  JoinedUpTo(c, k, JoinStep(c, out, seqs[k]))
  <2>1. out \in Seq(T) /\ Range(out) = UNION {Range(seqs[i]) : i \in 1..(k - 1)} /\ seqs[k] \in Seq(T)
    BY <1>2, <1>4 DEF JoinedUpTo
  <2>2. out \o seqs[k] \in Seq(T) /\ Range(out \o seqs[k]) = Range(out) \cup Range(seqs[k])
    BY <2>1, RangeOfConcat
  <2>3. 1..k = 1..(k - 1) \cup {k}
    OBVIOUS
  <2>4. UNION {Range(seqs[i]) : i \in 1..k} = (UNION {Range(seqs[i]) : i \in 1..(k - 1)}) \cup Range(seqs[k])
    <3> DEFINE all == {Range(seqs[i]) : i \in 1..k}
               before == {Range(seqs[i]) : i \in 1..(k - 1)}
    <3>1. \A s \in all : s \in before \/ s = Range(seqs[k])
      BY <2>3
    <3>2. Range(seqs[k]) \in all /\ \A s \in before : s \in all
      BY <2>3
    <3> HIDE DEF all, before
    <3>3. UNION all = (UNION before) \cup Range(seqs[k])
      BY <3>1, <3>2, UnionOfMore
    <3> QED BY <3>3 DEF all, before
  <2> QED BY <1>2, <2>1, <2>2, <2>4 DEF JoinedUpTo, JoinStep
<1>5. JoinedUpTo(c, Len(seqs), Joining!Fold(c, <<>>, seqs))
  <2> HIDE DEF JoinedUpTo, JoinStep
  <2> QED BY <1>3, <1>4, Joining!FoldInvariant
<1>6. DOMAIN seqs = 1..Len(seqs)
  OBVIOUS
<1> QED BY <1>1, <1>2, <1>5, <1>6 DEF JoinedUpTo

LEMMA OrderOfSet ==
    ASSUME NEW S, IsFiniteSet(S), NEW order \in SetToSeqs(S)
    PROVE  order \in Seq(S) /\ DOMAIN order = 1..Cardinality(S) /\ Range(order) = S
<1> DEFINE n == Cardinality(S)
<1>1. n \in Nat
  BY FS_CardinalityType
<1>2. order \in [1..n -> S] /\ \A i, j \in 1..n : i # j => order[i] # order[j]
  BY DEF SetToSeqs
<1> HIDE DEF n
<1>3. order \in Injection(1..n, S)
  BY <1>2 DEF Injection, IsInjective
<1>4. IsFiniteSet(1..n) /\ Cardinality(1..n) = n
  BY <1>1, FS_Interval
<1>5. order \in Surjection(1..n, S)
  BY <1>3, <1>4, FS_Injection DEF n
<1>6. Range(order) = S
  BY <1>2, <1>5 DEF Surjection, Range
<1> QED BY <1>1, <1>2, <1>6 DEF n

\* The clusters of a chip, as far as rules depend on them.
IsClusters(clusters) ==
    clusters \in Seq(Range(clusters)) /\ \A c \in Range(clusters) : c.cpus \subseteq Cpus

LEMMA ClusterRangesTyped ==
    ASSUME NEW clusters, IsClusters(clusters), NEW cluster, cluster.range \in RangeStrings
    PROVE  ClusterRange(cluster, clusters) \subseteq RangeStrings
<1> DEFINE all == Range(clusters)
           named(kind) == Keep(clusters, {c \in all : c.kind = kind})
<1>1. clusters \in Seq(all) /\ \A c \in all : c.cpus \in SUBSET Cpus
  BY DEF IsClusters
<1>2. \A c \in all : ToRangeString(c.cpus) \in RangeStrings
  BY <1>1, RangeStringsAreExact DEF RangeStrings
<1> HIDE DEF all
<1>3. ASSUME NEW kind, named(kind) # <<>>
      PROVE  Head(named(kind)) \in all
  <2>1. named(kind) \in Seq(all)
    BY <1>1, KeepRange
  <2> HIDE DEF named
  <2> QED BY <1>3, <2>1
<1>4. ClusterRange(cluster, clusters) =
        IF named(cluster.kind) # <<>> THEN {ToRangeString(Head(named(cluster.kind)).cpus)}
        ELSE IF cluster.kind = "numeric" THEN {cluster.range}
        ELSE IF named("big") # <<>> THEN {ToRangeString(Head(named("big")).cpus)}
        ELSE {ToRangeString(c.cpus) : c \in {d \in all : \A e \in all : e.capacity <= d.capacity}}
  BY DEF ClusterRange, all
<1> HIDE DEF named
<1> QED BY <1>2, <1>3, <1>4

LEMMA PolicyToRulesTyped ==
    ASSUME NEW pkg \in Names, NEW thread \in Names, NEW model \in PolicyModels,
           NEW clusters, IsClusters(clusters)
    PROVE  PolicyToRules(pkg, thread, model, clusters) \in Seq(RuleConfigs)
<1> DEFINE ranges == Prefer(model.cpus, UNION {ClusterRange(n, clusters) : n \in model.cluster})
           cpus == IF ranges = {} THEN <<>> ELSE CHOOSE r \in ranges : TRUE
<1>1. /\ model.sched \in Optional(Scheds) /\ model.nice \in Optional(Int)
      /\ model.uclampMin \in Optional(Int) /\ model.uclampMax \in Optional(Int)
      /\ model.cpus \subseteq RangeStrings
      /\ \A n \in model.cluster : n.range \in RangeStrings
  BY DEF PolicyModels, Optional
<1>2. \A n \in model.cluster : ClusterRange(n, clusters) \subseteq RangeStrings
  BY <1>1, ClusterRangesTyped
<1>3. ranges \subseteq RangeStrings
  BY <1>1, <1>2 DEF Prefer
<1> HIDE DEF ranges
<1>4. cpus \in RangeStrings
  <2>1. CASE ranges = {}
    BY <2>1 DEF RangeStrings
  <2>2. CASE ranges # {}
    BY <1>3, <2>2
  <2> QED BY <2>1, <2>2
<1>5. PolicyToRules(pkg, thread, model, clusters) =
        IF ~HasAnyPolicy(model) THEN <<>>
        ELSE <<[pkg |-> pkg, thread |-> thread, cpus |-> cpus, sched |-> model.sched,
                nice |-> model.nice, uclampMin |-> model.uclampMin, uclampMax |-> model.uclampMax]>>
  BY DEF PolicyToRules, ranges
<1> HIDE DEF cpus
<1>6. [pkg |-> pkg, thread |-> thread, cpus |-> cpus, sched |-> model.sched, nice |-> model.nice,
       uclampMin |-> model.uclampMin, uclampMax |-> model.uclampMax] \in RuleConfigs
  BY <1>1, <1>4 DEF RuleConfigs
<1> QED BY <1>5, <1>6

LEMMA PreferTyped ==
    ASSUME NEW S, NEW a \in Optional(S), NEW b \in Optional(S)
    PROVE  Prefer(a, b) \in Optional(S)
BY DEF Prefer

LEMMA OverridePolicyTyped ==
    ASSUME NEW base \in PolicyModels, NEW user \in PolicyModels
    PROVE  OverridePolicy(base, user) \in PolicyModels
<1> DEFINE Kinds == [kind : STRING, range : RangeStrings]
           cluster == IF user.cpus # {} THEN {} ELSE Prefer(user.cluster, base.cluster)
           cpus == IF user.cpus \cup user.cluster # {} THEN user.cpus ELSE base.cpus
<1>1. \A m \in PolicyModels :
         /\ m.cluster \in Optional(Kinds) /\ m.cpus \in Optional(RangeStrings)
         /\ m.sched \in Optional(Scheds) /\ m.nice \in Optional(Int)
         /\ m.uclampMin \in Optional(Int) /\ m.uclampMax \in Optional(Int)
  BY DEF PolicyModels
<1>2. {} \in Optional(Kinds)
  BY DEF Optional
<1>3. cluster \in Optional(Kinds) /\ cpus \in Optional(RangeStrings)
  <2> HIDE DEF Kinds
  <2> QED BY <1>1, <1>2, PreferTyped
<1>4. /\ Prefer(user.sched, base.sched) \in Optional(Scheds)
      /\ Prefer(user.nice, base.nice) \in Optional(Int)
      /\ Prefer(user.uclampMin, base.uclampMin) \in Optional(Int)
      /\ Prefer(user.uclampMax, base.uclampMax) \in Optional(Int)
  BY <1>1, PreferTyped
<1>5. OverridePolicy(base, user) =
        [cluster |-> cluster, cpus |-> cpus, sched |-> Prefer(user.sched, base.sched),
         nice |-> Prefer(user.nice, base.nice),
         uclampMin |-> Prefer(user.uclampMin, base.uclampMin),
         uclampMax |-> Prefer(user.uclampMax, base.uclampMax)]
  BY DEF OverridePolicy
<1> HIDE DEF cluster, cpus
<1> QED BY <1>3, <1>4, <1>5 DEF PolicyModels

LEMMA DefaultModelTyped == DefaultModel \in PolicyModels
BY DEF DefaultModel, PolicyModels, Optional

LEMMA OverrideEachTyped ==
    ASSUME NEW Keys, NEW base, IsPolicyMap(base, Keys), NEW user, IsPolicyMap(user, Keys)
    PROVE  IsPolicyMap(OverrideEach(base, user), Keys)
<1> DEFINE new == OverrideEach(base, user)
<1>1. DOMAIN new = DOMAIN base \cup DOMAIN user
  BY DEF OverrideEach
<1>2. IsFiniteSet(DOMAIN new)
  BY <1>1, FS_Union DEF IsPolicyMap
<1>3. ASSUME NEW k \in DOMAIN base \cup DOMAIN user
      PROVE  k \in Keys /\ new[k] \in PolicyModels
  <2>1. k \in Keys
    BY DEF IsPolicyMap
  <2>2. CASE k \notin DOMAIN user
    BY <2>2 DEF OverrideEach, IsPolicyMap
  <2>3. CASE k \in DOMAIN user
    <3>1. (IF k \in DOMAIN base THEN base[k] ELSE DefaultModel) \in PolicyModels
      BY DefaultModelTyped DEF IsPolicyMap
    <3>2. user[k] \in PolicyModels
      BY <2>3 DEF IsPolicyMap
    <3>3. new[k] = OverridePolicy(IF k \in DOMAIN base THEN base[k] ELSE DefaultModel, user[k])
      BY <2>3 DEF OverrideEach
    <3> QED BY <2>1, <3>1, <3>2, <3>3, OverridePolicyTyped
  <2> QED BY <2>1, <2>2, <2>3
<1> QED BY <1>1, <1>2, <1>3 DEF IsPolicyMap

LEMMA InClusterTyped ==
    ASSUME NEW kind \in STRING
    PROVE  /\ InCluster(kind) \in PolicyModels
           /\ \A s \in Scheds : [InCluster(kind) EXCEPT !.sched = {s}] \in PolicyModels
           /\ \A n \in Int : [InCluster(kind) EXCEPT !.uclampMin = {n}] \in PolicyModels
<1>1. [kind |-> kind, range |-> <<>>] \in [kind : STRING, range : RangeStrings]
  BY DEF RangeStrings
<1>2. \A S : \A x \in S : {x} \in Optional(S)
  BY DEF Optional
<1>3. {[kind |-> kind, range |-> <<>>]} \in Optional([kind : STRING, range : RangeStrings])
  BY <1>1, <1>2
<1>4. InCluster(kind) \in PolicyModels
  BY <1>3, DefaultModelTyped DEF InCluster, PolicyModels
<1>5. \A s \in Scheds : {s} \in Optional(Scheds)
  BY <1>2
<1>6. \A n \in Int : {n} \in Optional(Int)
  BY <1>2
<1> QED BY <1>4, <1>5, <1>6 DEF PolicyModels

LEMMA SmallMaps ==
    ASSUME NEW Keys
    PROVE  /\ IsPolicyMap(<<>>, Keys)
           /\ \A k \in Keys, m \in PolicyModels : IsPolicyMap([x \in {k} |-> m], Keys)
<1>1. DOMAIN <<>> = {}
  OBVIOUS
<1>2. IsFiniteSet({}) /\ \A k : IsFiniteSet({k})
  BY FS_EmptySet, FS_Singleton
<1> QED BY <1>1, <1>2 DEF IsPolicyMap

ProfileIsTyped(profile) ==
    /\ profile.default \in PolicyModels
    /\ IsPolicyMap(profile.threads, Names) /\ IsPolicyMap(profile.types, STRING)

LEMMA ProfilesTyped ==
    /\ ProfileIsTyped(NoProfile)
    /\ \A name \in DOMAIN BuiltinProfiles : ProfileIsTyped(BuiltinProfiles[name])
<1> DEFINE big == InCluster("big")
           little == InCluster("little")
           prime == InCluster("prime")
           clamped == [InCluster("prime") EXCEPT !.uclampMin = {700}]
           fifo == [InCluster("prime") EXCEPT !.sched = Realtime("fifo", 60)]
           audioBig == [InCluster("big") EXCEPT !.sched = Realtime("rr", 30)]
           render(model) == [t \in {<<"RenderThread">>} |-> model]
           audio(model) == [audio |-> model]
           both == [render |-> clamped, audio |-> little]
<1>1. big \in PolicyModels /\ little \in PolicyModels /\ prime \in PolicyModels
      /\ clamped \in PolicyModels /\ fifo \in PolicyModels /\ audioBig \in PolicyModels
  <2>1. [kind |-> "fifo", prio |-> 60] \in Scheds /\ [kind |-> "rr", prio |-> 30] \in Scheds
    BY LiteralsAssumption DEF Scheds
  <2>2. "big" \in STRING /\ "little" \in STRING /\ "prime" \in STRING
    BY LiteralsAssumption
  <2>3. big \in PolicyModels /\ little \in PolicyModels /\ prime \in PolicyModels
    BY <2>2, InClusterTyped
  <2>4. clamped \in PolicyModels
    BY <2>2, InClusterTyped
  <2>5. fifo \in PolicyModels /\ audioBig \in PolicyModels
    BY <2>1, <2>2, InClusterTyped DEF Realtime
  <2> QED BY <2>3, <2>4, <2>5
<1>2. <<"RenderThread">> \in Names
  BY LiteralsAssumption DEF Names
<1>3. IsPolicyMap(<<>>, Names) /\ IsPolicyMap(<<>>, STRING)
  BY SmallMaps
<1> HIDE DEF big, little, prime, clamped, fifo, audioBig
<1>4. \A m \in PolicyModels : IsPolicyMap(render(m), Names)
  BY <1>2, SmallMaps
<1>5. \A m \in PolicyModels : IsPolicyMap(audio(m), STRING)
  <2> TAKE m \in PolicyModels
  <2>1. DOMAIN audio(m) = {"audio"} /\ audio(m)["audio"] = m
    OBVIOUS
  <2>2. IsFiniteSet({"audio"}) /\ "audio" \in STRING
    BY FS_Singleton, LiteralsAssumption
  <2> HIDE DEF audio
  <2> QED BY <2>1, <2>2 DEF IsPolicyMap
<1>6. IsPolicyMap(both, STRING)
  <2>1. DOMAIN both = {"render", "audio"} /\ both["render"] = clamped /\ both["audio"] = little
    OBVIOUS
  <2>2. IsFiniteSet({"render"} \cup {"audio"})
    BY FS_Singleton, FS_Union
  <2>3. {"render"} \cup {"audio"} = {"render", "audio"}
    OBVIOUS
  <2>4. "render" \in STRING /\ "audio" \in STRING
    BY LiteralsAssumption
  <2> HIDE DEF both
  <2> QED BY <1>1, <2>1, <2>2, <2>3, <2>4 DEF IsPolicyMap
<1>7. NoProfile = [default |-> DefaultModel, threads |-> <<>>, types |-> <<>>]
  BY DEF NoProfile
<1>8. ProfileIsTyped(NoProfile)
  BY <1>3, <1>7, DefaultModelTyped DEF ProfileIsTyped
<1>9. DOMAIN BuiltinProfiles = {"game", "audio", "launcher", "balanced", "power-save", "chat", "video"}
  BY DEF BuiltinProfiles
<1>10. /\ BuiltinProfiles["game"] = [default |-> big, threads |-> <<>>, types |-> both]
       /\ BuiltinProfiles["audio"] = [default |-> little, threads |-> <<>>, types |-> audio(audioBig)]
       /\ BuiltinProfiles["launcher"] = [default |-> big, types |-> <<>>, threads |-> render(fifo)]
       /\ BuiltinProfiles["balanced"] = [NoProfile EXCEPT !.default = big]
       /\ BuiltinProfiles["power-save"] = [NoProfile EXCEPT !.default = little]
       /\ BuiltinProfiles["chat"] = [default |-> big, threads |-> render(prime), types |-> audio(audioBig)]
       /\ BuiltinProfiles["video"] = [default |-> little, threads |-> render(big), types |-> audio(big)]
  BY DEF BuiltinProfiles, big, little, prime, clamped, fifo, audioBig
<1> HIDE DEF both, render, audio
<1>11. \A m \in PolicyModels : ProfileIsTyped([NoProfile EXCEPT !.default = m])
  BY <1>3, <1>7 DEF ProfileIsTyped
<1>12. ProfileIsTyped(BuiltinProfiles["game"]) /\ ProfileIsTyped(BuiltinProfiles["audio"])
  BY <1>1, <1>3, <1>5, <1>6, <1>10 DEF ProfileIsTyped
<1>13. ProfileIsTyped(BuiltinProfiles["launcher"])
  BY <1>1, <1>3, <1>4, <1>10 DEF ProfileIsTyped
<1>14. ProfileIsTyped(BuiltinProfiles["balanced"]) /\ ProfileIsTyped(BuiltinProfiles["power-save"])
  BY <1>1, <1>10, <1>11
<1>15. ProfileIsTyped(BuiltinProfiles["chat"]) /\ ProfileIsTyped(BuiltinProfiles["video"])
  BY <1>1, <1>4, <1>5, <1>10 DEF ProfileIsTyped
<1> QED BY <1>8, <1>9, <1>12, <1>13, <1>14, <1>15

LEMMA WithProfileTyped ==
    ASSUME NEW app, IsApplication(app)
    PROVE  /\ WithProfile(app).pkg = app.pkg /\ app.pkg \in Names
           /\ WithProfile(app).default \in PolicyModels
           /\ IsPolicyMap(WithProfile(app).threads, Names)
           /\ IsPolicyMap(WithProfile(app).types, STRING)
<1> DEFINE profile == IF app.profile \in DOMAIN BuiltinProfiles
                      THEN BuiltinProfiles[app.profile] ELSE NoProfile
<1>1. WithProfile(app) = [pkg |-> app.pkg,
                          default |-> OverridePolicy(profile.default, app.default),
                          threads |-> OverrideEach(profile.threads, app.threads),
                          types |-> OverrideEach(profile.types, app.types)]
  BY DEF WithProfile
<1>2. ProfileIsTyped(profile)
  BY ProfilesTyped
<1> HIDE DEF profile
<1>3. OverridePolicy(profile.default, app.default) \in PolicyModels
  BY <1>2, OverridePolicyTyped DEF ProfileIsTyped, IsApplication
<1>4. IsPolicyMap(OverrideEach(profile.threads, app.threads), Names)
  BY <1>2, OverrideEachTyped DEF ProfileIsTyped, IsApplication
<1>5. IsPolicyMap(OverrideEach(profile.types, app.types), STRING)
  BY <1>2, OverrideEachTyped DEF ProfileIsTyped, IsApplication
<1> QED BY <1>1, <1>3, <1>4, <1>5 DEF IsApplication

\* The rules of an application, in no order.
RulesOf(given, clusters) ==
    LET app == WithProfile(given)
        to(thread, model) == Range(PolicyToRules(app.pkg, thread, model, clusters))
        hasAny == \/ PolicyToRules(app.pkg, <<>>, app.default, clusters) # <<>>
                  \/ \E t \in DOMAIN app.threads : HasCpus(app.threads[t])
                  \/ \E y \in DOMAIN app.types : HasCpus(app.types[y])
    IN to(<<>>, app.default)
       \cup (UNION {to(t, app.threads[t]) : t \in DOMAIN app.threads})
       \cup (UNION {UNION {to(ThreadTypePatterns[y][i], app.types[y]) : i \in DOMAIN ThreadTypePatterns[y]} :
                      y \in DOMAIN app.types \cap DOMAIN ThreadTypePatterns})
       \cup Range(IF hasAny THEN <<>> ELSE Placeholder(app))

LEMMA PatternsTyped ==
    /\ IsFiniteSet(DOMAIN ThreadTypePatterns)
    /\ \A y \in DOMAIN ThreadTypePatterns : ThreadTypePatterns[y] \in Seq(Names)
<1> DEFINE around(word) == <<"*", word, "*">>
<1>1. \A word \in {"RenderThread", "GL", "Vk", "Audio", "Sound", "Binder:", "main"} :
         around(word) \in Names
  BY LiteralsAssumption DEF Names
<1> HIDE DEF around
<1>2. /\ DOMAIN ThreadTypePatterns = {"render", "audio", "binder", "main"}
      /\ ThreadTypePatterns["render"] = <<around("RenderThread"), around("GL"), around("Vk")>>
      /\ ThreadTypePatterns["audio"] = <<around("Audio"), around("Sound")>>
      /\ ThreadTypePatterns["binder"] = <<around("Binder:")>>
      /\ ThreadTypePatterns["main"] = <<around("main")>>
  BY DEF ThreadTypePatterns, around
<1>3. IsFiniteSet({"render", "audio"} \cup {"binder", "main"})
  <2>1. ASSUME NEW a, NEW b PROVE IsFiniteSet({a, b})
    <3>1. IsFiniteSet({a} \cup {b})
      BY FS_Singleton, FS_Union
    <3>2. {a} \cup {b} = {a, b}
      OBVIOUS
    <3> QED BY <3>1, <3>2
  <2> QED BY <2>1, FS_Union
<1>4. {"render", "audio"} \cup {"binder", "main"} = {"render", "audio", "binder", "main"}
  OBVIOUS
<1>5. /\ ThreadTypePatterns["render"] \in Seq(Names) /\ ThreadTypePatterns["audio"] \in Seq(Names)
      /\ ThreadTypePatterns["binder"] \in Seq(Names) /\ ThreadTypePatterns["main"] \in Seq(Names)
  BY <1>1, <1>2
<1> QED BY <1>2, <1>3, <1>4, <1>5

LEMMA FunctionIsSeq ==
    ASSUME NEW n \in Nat, NEW S, NEW f \in [1..n -> S]
    PROVE  f \in Seq(S) /\ DOMAIN f = 1..n
OBVIOUS

\* The rules of a map of sequences of rules, joined in some order of its keys.
JoinedBy(order, f) == Joined([i \in DOMAIN order |-> f[order[i]]])

LEMMA JoinedInOrder ==
    ASSUME NEW S, IsFiniteSet(S), NEW order \in SetToSeqs(S), NEW T, NEW f \in [S -> Seq(T)]
    PROVE  /\ JoinedBy(order, f) \in Seq(T)
           /\ Range(JoinedBy(order, f)) = UNION {Range(f[x]) : x \in S}
<1> DEFINE seqs == [i \in DOMAIN order |-> f[order[i]]]
<1>1. order \in Seq(S) /\ DOMAIN order = 1..Cardinality(S) /\ Range(order) = S
  BY OrderOfSet
<1>2. Cardinality(S) \in Nat
  BY FS_CardinalityType
<1>3. \A i \in 1..Cardinality(S) : order[i] \in S
  BY <1>1 DEF Range
<1>4. seqs \in Seq(Seq(T)) /\ DOMAIN seqs = DOMAIN order
  <2>1. \A i \in 1..Cardinality(S) : f[order[i]] \in Seq(T)
    BY <1>3
  <2>2. seqs = [i \in 1..Cardinality(S) |-> f[order[i]]]
    BY <1>1
  <2> HIDE DEF seqs
  <2>3. seqs \in [1..Cardinality(S) -> Seq(T)]
    BY <2>1, <2>2
  <2> QED BY <1>1, <1>2, <2>3, FunctionIsSeq
<1>5. Joined(seqs) \in Seq(T) /\ Range(Joined(seqs)) = UNION {Range(seqs[i]) : i \in DOMAIN seqs}
  BY <1>4, JoinedIs
<1>6. {Range(seqs[i]) : i \in DOMAIN seqs} = {Range(f[x]) : x \in S}
  <2>1. \A i \in DOMAIN order : Range(seqs[i]) \in {Range(f[x]) : x \in S}
    BY <1>1, <1>3
  <2>2. \A x \in S : \E i \in DOMAIN order : Range(f[x]) = Range(seqs[i])
    BY <1>1 DEF Range
  <2> QED BY <1>4, <2>1, <2>2
<1>7. JoinedBy(order, f) = Joined(seqs)
  BY DEF JoinedBy
<1> HIDE DEF seqs
<1> QED BY <1>5, <1>6, <1>7

LEMMA AppExpansionsAre ==
    ASSUME NEW given, IsApplication(given), NEW clusters, IsClusters(clusters),
           NEW e \in AppExpansions(given, clusters)
    PROVE  e \in Seq(RuleConfigs) /\ Range(e) = RulesOf(given, clusters)
<1> DEFINE app == WithProfile(given)
           default == PolicyToRules(app.pkg, <<>>, app.default, clusters)
           ofThread(t) == PolicyToRules(app.pkg, t, app.threads[t], clusters)
           ofPattern(y, i) == PolicyToRules(app.pkg, ThreadTypePatterns[y][i], app.types[y], clusters)
           patterns(y) == [i \in DOMAIN ThreadTypePatterns[y] |-> ofPattern(y, i)]
           ofType(y) == Joined(patterns(y))
           hasAny == \/ default # <<>>
                     \/ \E t \in DOMAIN app.threads : HasCpus(app.threads[t])
                     \/ \E y \in DOMAIN app.types : HasCpus(app.types[y])
           rest == IF hasAny THEN <<>> ELSE Placeholder(app)
           Threads == DOMAIN app.threads
           Types == DOMAIN app.types \cap DOMAIN ThreadTypePatterns
<1>1. PICK ts \in SetToSeqs(Threads), ys \in SetToSeqs(Types) :
         e = default \o Joined([i \in DOMAIN ts |-> ofThread(ts[i])])
                     \o Joined([i \in DOMAIN ys |-> ofType(ys[i])]) \o rest
  <2> DEFINE listed(ts, ys) == default \o Joined([i \in DOMAIN ts |-> ofThread(ts[i])])
                                       \o Joined([i \in DOMAIN ys |-> ofType(ys[i])]) \o rest
  <2>1. AppExpansions(given, clusters) =
          {listed(ts, ys) : ts \in SetToSeqs(Threads), ys \in SetToSeqs(Types)}
    BY DEF AppExpansions
  <2>2. \E ts \in SetToSeqs(Threads), ys \in SetToSeqs(Types) : e = listed(ts, ys)
    <3> HIDE DEF default, ofThread, ofType, rest, Threads, Types, listed
    <3> QED BY <2>1
  <2> QED BY <2>2
<1>2. /\ app.pkg \in Names /\ app.default \in PolicyModels
      /\ IsFiniteSet(Threads) /\ \A t \in Threads : t \in Names /\ app.threads[t] \in PolicyModels
      /\ IsFiniteSet(DOMAIN app.types) /\ \A y \in DOMAIN app.types : app.types[y] \in PolicyModels
  BY WithProfileTyped DEF IsPolicyMap
<1>3. <<>> \in Names
  BY DEF Names
<1>4. RulesOf(given, clusters) =
         Range(default) \cup (UNION {Range(ofThread(t)) : t \in Threads})
         \cup (UNION {UNION {Range(ofPattern(y, i)) : i \in DOMAIN ThreadTypePatterns[y]} : y \in Types})
         \cup Range(rest)
  BY DEF RulesOf
<1>5. rest \in Seq(RuleConfigs)
  <2>1. {} \in Optional(Scheds) /\ {} \in Optional(Int)
    BY DEF Optional
  <2>2. [pkg |-> app.pkg, thread |-> <<>>, cpus |-> <<>>, sched |-> {}, nice |-> {},
         uclampMin |-> {}, uclampMax |-> {}] \in RuleConfigs
    BY <1>2, <1>3, <2>1 DEF RuleConfigs, RangeStrings
  <2>3. Placeholder(app) \in Seq(RuleConfigs)
    BY <2>2 DEF Placeholder
  <2> HIDE DEF hasAny
  <2> QED BY <2>3
<1> HIDE DEF app, rest, hasAny
<1>6. default \in Seq(RuleConfigs) /\ \A t \in Threads : ofThread(t) \in Seq(RuleConfigs)
  BY <1>2, <1>3, PolicyToRulesTyped
<1>7. ASSUME NEW y \in Types
      PROVE  /\ ofType(y) \in Seq(RuleConfigs)
             /\ Range(ofType(y)) = UNION {Range(ofPattern(y, i)) : i \in DOMAIN ThreadTypePatterns[y]}
  <2>1. ThreadTypePatterns[y] \in Seq(Names) /\ app.types[y] \in PolicyModels
    BY <1>2, PatternsTyped
  <2>2. \A i \in DOMAIN ThreadTypePatterns[y] : ofPattern(y, i) \in Seq(RuleConfigs)
    <3>1. \A i \in DOMAIN ThreadTypePatterns[y] : ThreadTypePatterns[y][i] \in Names
      BY <2>1
    <3> QED BY <1>2, <2>1, <3>1, PolicyToRulesTyped
  <2> HIDE DEF ofPattern
  <2>3. patterns(y) \in Seq(Seq(RuleConfigs)) /\ DOMAIN patterns(y) = DOMAIN ThreadTypePatterns[y]
    <3>1. DOMAIN ThreadTypePatterns[y] = 1..Len(ThreadTypePatterns[y]) /\ Len(ThreadTypePatterns[y]) \in Nat
      BY <2>1
    <3> QED BY <2>2, <3>1
  <2>4. /\ ofType(y) \in Seq(RuleConfigs)
        /\ Range(ofType(y)) = UNION {Range(patterns(y)[i]) : i \in DOMAIN patterns(y)}
    <3> HIDE DEF patterns
    <3> QED BY <2>3, JoinedIs
  <2>5. {Range(patterns(y)[i]) : i \in DOMAIN patterns(y)} =
          {Range(ofPattern(y, i)) : i \in DOMAIN ThreadTypePatterns[y]}
    BY <2>3
  <2> HIDE DEF patterns
  <2> QED BY <2>4, <2>5
<1> HIDE DEF default, ofThread, ofType
<1> DEFINE joinedThreads == Joined([i \in DOMAIN ts |-> ofThread(ts[i])])
           joinedTypes == Joined([i \in DOMAIN ys |-> ofType(ys[i])])
<1>8. /\ joinedThreads \in Seq(RuleConfigs)
      /\ Range(joinedThreads) = UNION {Range(ofThread(t)) : t \in Threads}
  <2> DEFINE f == [t \in Threads |-> ofThread(t)]
  <2>1. f \in [Threads -> Seq(RuleConfigs)]
    BY <1>6
  <2>2. DOMAIN ts = 1..Cardinality(Threads) /\ \A i \in DOMAIN ts : ts[i] \in Threads
    BY <1>2, OrderOfSet DEF Range
  <2>3. JoinedBy(ts, f) = joinedThreads
    <3>1. [i \in DOMAIN ts |-> f[ts[i]]] = [i \in DOMAIN ts |-> ofThread(ts[i])]
      BY <2>2
    <3> HIDE DEF f
    <3> QED BY <3>1 DEF JoinedBy
  <2>4. \A t \in Threads : f[t] = ofThread(t)
    OBVIOUS
  <2>7. ts \in SetToSeqs(Threads) /\ IsFiniteSet(Threads)
    BY <1>2
  <2> HIDE DEF f, Threads
  <2>5. /\ JoinedBy(ts, f) \in Seq(RuleConfigs)
        /\ Range(JoinedBy(ts, f)) = UNION {Range(f[t]) : t \in Threads}
    BY <2>1, <2>7, JoinedInOrder
  <2>6. {Range(f[t]) : t \in Threads} = {Range(ofThread(t)) : t \in Threads}
    BY <2>4
  <2> QED BY <2>3, <2>5, <2>6
<1>9. /\ joinedTypes \in Seq(RuleConfigs)
      /\ Range(joinedTypes) = UNION {Range(ofType(y)) : y \in Types}
  <2> DEFINE f == [y \in Types |-> ofType(y)]
  <2>1. f \in [Types -> Seq(RuleConfigs)]
    BY <1>7
  <2>2. IsFiniteSet(Types)
    BY <1>2, FS_Subset
  <2>3. DOMAIN ys = 1..Cardinality(Types) /\ \A i \in DOMAIN ys : ys[i] \in Types
    BY <2>2, OrderOfSet DEF Range
  <2>4. JoinedBy(ys, f) = joinedTypes
    <3>1. [i \in DOMAIN ys |-> f[ys[i]]] = [i \in DOMAIN ys |-> ofType(ys[i])]
      BY <2>3
    <3> HIDE DEF f
    <3> QED BY <3>1 DEF JoinedBy
  <2>5. \A y \in Types : f[y] = ofType(y)
    OBVIOUS
  <2>8. ys \in SetToSeqs(Types)
    OBVIOUS
  <2> HIDE DEF f, Types
  <2>6. /\ JoinedBy(ys, f) \in Seq(RuleConfigs)
        /\ Range(JoinedBy(ys, f)) = UNION {Range(f[y]) : y \in Types}
    BY <2>1, <2>2, <2>8, JoinedInOrder
  <2>7. {Range(f[y]) : y \in Types} = {Range(ofType(y)) : y \in Types}
    BY <2>5
  <2> QED BY <2>4, <2>6, <2>7
<1>10. {Range(ofType(y)) : y \in Types} =
         {UNION {Range(ofPattern(y, i)) : i \in DOMAIN ThreadTypePatterns[y]} : y \in Types}
  BY <1>7
<1>11. e = ((default \o joinedThreads) \o joinedTypes) \o rest
  BY <1>1
<1> HIDE DEF joinedThreads, joinedTypes
<1>12. /\ e \in Seq(RuleConfigs)
       /\ Range(e) = ((Range(default) \cup Range(joinedThreads)) \cup Range(joinedTypes)) \cup Range(rest)
  <2> DEFINE a == default \o joinedThreads
             b == a \o joinedTypes
  <2>1. a \in Seq(RuleConfigs) /\ Range(a) = Range(default) \cup Range(joinedThreads)
    BY <1>6, <1>8, RangeOfConcat
  <2>0. e = b \o rest
    BY <1>11
  <2> HIDE DEF a
  <2>2. b \in Seq(RuleConfigs) /\ Range(b) = Range(a) \cup Range(joinedTypes)
    BY <1>9, <2>1, RangeOfConcat
  <2> HIDE DEF b
  <2>3. e \in Seq(RuleConfigs) /\ Range(e) = Range(b) \cup Range(rest)
    BY <1>5, <2>0, <2>2, RangeOfConcat
  <2> QED BY <2>1, <2>2, <2>3
<1> QED BY <1>4, <1>8, <1>9, <1>10, <1>12

(***************************************************************************)
(* Whatever the order of its hash maps, a configuration becomes the same   *)
(* rules (config.rs to_rules_with_clusters).                               *)
(***************************************************************************)
THEOREM ExpansionsAreTheSame ==
    ASSUME NEW config, IsFiniteSet(config), \A app \in config : IsApplication(app),
           NEW clusters, IsClusters(clusters), NEW e \in Expansions(config, clusters)
    PROVE  e \in Seq(RuleConfigs) /\ Range(e) = UNION {RulesOf(app, clusters) : app \in config}
<1> DEFINE of == [app \in config |-> AppExpansions(app, clusters)]
<1>1. PICK order \in SetToSeqs(config), f \in [config -> UNION Range(of)] :
         /\ \A app \in config : f[app] \in of[app]
         /\ e = Joined([i \in DOMAIN order |-> f[order[i]]])
  <2> DEFINE choices == {f \in [config -> UNION Range(of)] : \A app \in config : f[app] \in of[app]}
  <2>1. Expansions(config, clusters) =
          {Joined([i \in DOMAIN order |-> f[order[i]]]) : order \in SetToSeqs(config), f \in choices}
    BY DEF Expansions
  <2>2. PICK order \in SetToSeqs(config), f \in choices : e = Joined([i \in DOMAIN order |-> f[order[i]]])
    <3> HIDE DEF choices
    <3> QED BY <2>1
  <2> QED BY <2>2
<1>2. \A app \in config : /\ f[app] \in Seq(RuleConfigs)
                          /\ Range(f[app]) = RulesOf(app, clusters)
  <2>1. \A app \in config : f[app] \in AppExpansions(app, clusters)
    BY <1>1
  <2> QED BY <2>1, AppExpansionsAre
<1>3. f \in [config -> Seq(RuleConfigs)]
  BY <1>1, <1>2
<1> HIDE DEF of
<1>4. /\ JoinedBy(order, f) \in Seq(RuleConfigs)
      /\ Range(JoinedBy(order, f)) = UNION {Range(f[app]) : app \in config}
  BY <1>1, <1>3, JoinedInOrder
<1>5. {Range(f[app]) : app \in config} = {RulesOf(app, clusters) : app \in config}
  BY <1>2
<1> QED BY <1>1, <1>4, <1>5 DEF JoinedBy

-----------------------------------------------------------------------------
(* The clusters of a chip.                                                 *)

LEMMA ClustersDetected ==
    ASSUME NEW soc, DOMAIN soc.capacity \subseteq Cpus, soc.online \subseteq Cpus
    PROVE  IsClusters(DetectClusters(soc))
<1> DEFINE values == Range(soc.capacity)
           n == Cardinality(values)
           capacities == [i \in 1..n |-> CHOOSE v \in values : Cardinality({w \in values : w < v}) = i - 1]
           cluster(i) == [kind |-> ClassifyCluster(capacities, i),
                          cpus |-> {c \in DOMAIN soc.capacity : soc.capacity[c] = capacities[i]},
                          capacity |-> capacities[i]]
           unknown == [kind |-> "unknown", cpus |-> soc.online, capacity |-> 0]
           found == [i \in DOMAIN capacities |-> cluster(i)]
<1>1. DetectClusters(soc) = IF values = {} THEN <<unknown>> ELSE found
  BY DEF DetectClusters
<1>2. n \in Nat
  <2>1. 0 \in Int /\ CpuSetSize - 1 \in Int
    BY TopologyAssumption
  <2>2. IsFiniteSet(Cpus)
    BY <2>1, FS_Interval DEF Cpus
  <2>3. IsFiniteSet(DOMAIN soc.capacity)
    BY <2>2, FS_Subset
  <2>4. values = {soc.capacity[x] : x \in DOMAIN soc.capacity}
    BY DEF Range
  <2> DEFINE f == [x \in DOMAIN soc.capacity |-> soc.capacity[x]]
  <2>5. f \in Surjection(DOMAIN soc.capacity, values)
    BY <2>4 DEF Surjection
  <2>6. IsFiniteSet(values)
    <3> HIDE DEF f, values
    <3> QED BY <2>3, <2>5, FS_Surjection
  <2> QED BY <2>6, FS_CardinalityType
<1>3. DOMAIN capacities = 1..n
  OBVIOUS
<1> HIDE DEF n, capacities, values
<1>4. CASE values = {}
  <2>1. DetectClusters(soc) = <<unknown>>
    BY <1>1, <1>4
  <2>2. unknown.cpus \subseteq Cpus
    OBVIOUS
  <2> HIDE DEF unknown
  <2>3. Range(<<unknown>>) = {unknown}
    BY DEF Range
  <2> QED BY <2>1, <2>2, <2>3 DEF IsClusters
<1>5. CASE values # {}
  <2>1. DetectClusters(soc) = found
    BY <1>1, <1>5
  <2>2. \A i \in 1..n : cluster(i).cpus \subseteq Cpus
    OBVIOUS
  <2> HIDE DEF cluster
  <2>3. found = [i \in 1..n |-> cluster(i)]
    BY <1>3
  <2>4. Range(found) = {cluster(i) : i \in 1..n}
    BY <2>3 DEF Range
  <2>5. found \in Seq(Range(found))
    <3> HIDE DEF found
    <3>1. found \in [1..n -> Range(found)]
      BY <2>3, <2>4
    <3> QED BY <1>2, <3>1, FunctionIsSeq
  <2> QED BY <2>1, <2>2, <2>4, <2>5 DEF IsClusters
<1> QED BY <1>4, <1>5

\* What a chip reports of its CPUs.
IsChip(soc) ==
    /\ DOMAIN soc.capacity \subseteq Cpus /\ soc.online \subseteq Cpus
    /\ \A c \in DOMAIN soc.capacity : soc.capacity[c] \in Int

\* The number of values below one of them.
Below(values, v) == Cardinality({w \in values : w < v})

(***************************************************************************)
(* In a finite set of numbers there is exactly one of each rank.           *)
(***************************************************************************)
LEMMA RanksAreUnique ==
    ASSUME NEW values \in SUBSET Int, IsFiniteSet(values)
    PROVE  /\ \A v \in values : Below(values, v) \in 0..(Cardinality(values) - 1)
           /\ \A v, w \in values : v < w <=> Below(values, v) < Below(values, w)
           /\ \A v, w \in values : Below(values, v) = Below(values, w) => v = w
           /\ \A k \in 0..(Cardinality(values) - 1) : \E v \in values : Below(values, v) = k
<1> DEFINE n == Cardinality(values)
           rank == [v \in values |-> Below(values, v)]
           lower(v) == {w \in values : w < v}
<1>1. n \in Nat /\ \A v \in values : IsFiniteSet(lower(v)) /\ Below(values, v) \in Nat
  BY FS_CardinalityType, FS_Subset DEF Below
<1>2. ASSUME NEW v \in values, NEW w \in values, v < w
      PROVE  Below(values, v) < Below(values, w)
  <2>1. v \in Int /\ w \in Int /\ \A u \in values : u \in Int
    OBVIOUS
  <2>2. \A u \in values : u < v => u < w
    BY <1>2, <2>1
  <2>3. lower(v) \in SUBSET lower(w) /\ v \in lower(w) /\ v \notin lower(v)
    <3>1. lower(v) \subseteq lower(w) /\ v \in lower(w)
      BY <1>2, <2>2
    <3>2. ~ (v < v)
      BY <2>1
    <3> QED BY <3>1, <3>2
  <2> HIDE DEF lower
  <2>4. Cardinality(lower(v)) <= Cardinality(lower(w)) /\ Cardinality(lower(v)) # Cardinality(lower(w))
    BY <1>1, <2>3, FS_Subset
  <2>5. Cardinality(lower(v)) \in Nat /\ Cardinality(lower(w)) \in Nat
    BY <1>1, FS_CardinalityType
  <2> QED BY <2>4, <2>5 DEF Below, lower
<1>3. ASSUME NEW v \in values PROVE Below(values, v) \in 0..(n - 1)
  <2>1. lower(v) \in SUBSET values /\ v \in values /\ v \notin lower(v)
    OBVIOUS
  <2> HIDE DEF lower
  <2>2. Cardinality(lower(v)) <= n /\ Cardinality(lower(v)) # n
    BY <1>1, <2>1, FS_Subset
  <2>3. Cardinality(lower(v)) \in Nat
    BY <1>1, FS_CardinalityType
  <2> QED BY <1>1, <2>2, <2>3 DEF Below, lower
<1> HIDE DEF n
<1>4. ASSUME NEW v \in values, NEW w \in values, v # w
      PROVE  \/ v < w /\ Below(values, v) < Below(values, w)
             \/ w < v /\ Below(values, w) < Below(values, v)
  <2>1. v \in Int /\ w \in Int
    OBVIOUS
  <2>2. v < w \/ w < v
    BY <1>4, <2>1
  <2> QED BY <1>2, <2>2
<1>5. ASSUME NEW v \in values, NEW w \in values
      PROVE  /\ v < w <=> Below(values, v) < Below(values, w)
             /\ Below(values, v) = Below(values, w) => v = w
  <2>1. v \in Int /\ w \in Int /\ Below(values, v) \in Nat /\ Below(values, w) \in Nat
    BY <1>1
  <2>2. CASE v = w
    BY <2>1, <2>2
  <2>3. CASE v # w
    <3>1. CASE v < w /\ Below(values, v) < Below(values, w)
      BY <2>1, <3>1
    <3>2. CASE w < v /\ Below(values, w) < Below(values, v)
      BY <2>1, <3>2
    <3> QED BY <1>4, <2>3, <3>1, <3>2
  <2> QED BY <2>2, <2>3
<1>6. rank \in Injection(values, 0..(n - 1))
  <2>1. rank \in [values -> 0..(n - 1)]
    BY <1>3
  <2> QED BY <1>5, <2>1 DEF Injection, IsInjective
<1>7. IsFiniteSet(0..(n - 1)) /\ Cardinality(0..(n - 1)) = n
  <2>1. 0 \in Int /\ n - 1 \in Int
    BY <1>1
  <2> QED BY <1>1, <2>1, FS_Interval
<1>8. rank \in Surjection(values, 0..(n - 1))
  <2> HIDE DEF rank
  <2> QED BY <1>6, <1>7, FS_Injection DEF n
<1>9. \A k \in 0..(n - 1) : \E v \in values : Below(values, v) = k
  BY <1>8 DEF Surjection
<1> QED BY <1>3, <1>5, <1>9 DEF n

\* The capacities of DetectClusters, in ascending order.
CapacitiesOf(values) ==
    [i \in 1..Cardinality(values) |-> CHOOSE v \in values : Cardinality({w \in values : w < v}) = i - 1]

LEMMA CapacitiesAscend ==
    ASSUME NEW values \in SUBSET Int, IsFiniteSet(values)
    PROVE  /\ CapacitiesOf(values) \in [1..Cardinality(values) -> values]
           /\ \A i, j \in 1..Cardinality(values) : i < j => CapacitiesOf(values)[i] < CapacitiesOf(values)[j]
           /\ \A v \in values : \E i \in 1..Cardinality(values) : CapacitiesOf(values)[i] = v
<1> DEFINE n == Cardinality(values)
           rank(v) == Below(values, v)
<1>1. n \in Nat
  BY FS_CardinalityType
<1>2. CapacitiesOf(values) = [i \in 1..n |-> CHOOSE v \in values : rank(v) = i - 1]
  BY DEF CapacitiesOf, Below
<1>3. /\ \A v \in values : rank(v) \in 0..(n - 1)
      /\ \A v, w \in values : v < w <=> rank(v) < rank(w)
      /\ \A v, w \in values : rank(v) = rank(w) => v = w
      /\ \A k \in 0..(n - 1) : \E v \in values : rank(v) = k
  BY RanksAreUnique
<1> HIDE DEF n, rank
<1>4. \A i \in 1..n : CapacitiesOf(values)[i] \in values /\ rank(CapacitiesOf(values)[i]) = i - 1
  <2> TAKE i \in 1..n
  <2>1. i - 1 \in 0..(n - 1)
    BY <1>1
  <2>2. \E v \in values : rank(v) = i - 1
    BY <1>3, <2>1
  <2>3. CapacitiesOf(values)[i] = CHOOSE v \in values : rank(v) = i - 1
    BY <1>2
  <2> QED BY <2>2, <2>3
<1>5. \A i, j \in 1..n : i < j => CapacitiesOf(values)[i] < CapacitiesOf(values)[j]
  <2> SUFFICES ASSUME NEW i \in 1..n, NEW j \in 1..n, i < j
               PROVE  CapacitiesOf(values)[i] < CapacitiesOf(values)[j]
    OBVIOUS
  <2>1. i - 1 < j - 1
    BY <1>1
  <2>2. rank(CapacitiesOf(values)[i]) < rank(CapacitiesOf(values)[j])
    BY <1>4, <2>1
  <2> QED BY <1>3, <1>4, <2>2
<1>6. ASSUME NEW v \in values PROVE \E i \in 1..n : CapacitiesOf(values)[i] = v
  <2>1. rank(v) \in 0..(n - 1)
    BY <1>3
  <2>2. rank(v) + 1 \in 1..n /\ (rank(v) + 1) - 1 = rank(v)
    BY <1>1, <2>1
  <2>3. rank(CapacitiesOf(values)[rank(v) + 1]) = rank(v) /\ CapacitiesOf(values)[rank(v) + 1] \in values
    BY <1>4, <2>2
  <2> QED BY <1>3, <2>2, <2>3
<1> QED BY <1>2, <1>4, <1>5, <1>6 DEF n

LEMMA CapacitiesAreFinite ==
    ASSUME NEW soc, IsChip(soc)
    PROVE  IsFiniteSet(Range(soc.capacity)) /\ Range(soc.capacity) \in SUBSET Int
<1> DEFINE f == [x \in DOMAIN soc.capacity |-> soc.capacity[x]]
           values == Range(soc.capacity)
<1>1. 0 \in Int /\ CpuSetSize - 1 \in Int
  BY TopologyAssumption
<1>2. IsFiniteSet(DOMAIN soc.capacity)
  BY <1>1, FS_Interval, FS_Subset DEF Cpus, IsChip
<1>3. values = {soc.capacity[x] : x \in DOMAIN soc.capacity}
  BY DEF Range
<1>4. f \in Surjection(DOMAIN soc.capacity, values)
  BY <1>3 DEF Surjection
<1>5. values \in SUBSET Int
  BY <1>3 DEF IsChip
<1> HIDE DEF f, values
<1>6. IsFiniteSet(values)
  BY <1>2, <1>4, FS_Surjection
<1> QED BY <1>5, <1>6 DEF values

\* Up to four groups of CPUs are all of another kind.
LEMMA KindsDiffer ==
    ASSUME NEW capacities, Len(capacities) \in 0..4,
           NEW i \in 1..Len(capacities), NEW j \in 1..Len(capacities), i # j
    PROVE  ClassifyCluster(capacities, i) # ClassifyCluster(capacities, j)
<1> DEFINE n == Len(capacities)
           kind(k) == ClassifyCluster(capacities, k)
<1>1. n \in {2, 3, 4}
  <2>1. n \in 0..4 /\ i \in 1..n /\ j \in 1..n /\ i # j
    OBVIOUS
  <2> HIDE DEF n
  <2>2. n \in {0, 1, 2, 3, 4}
    BY <2>1
  <2> QED BY <2>1, <2>2
<1>2. CASE n = 2
  <2>1. i \in {1, 2} /\ j \in {1, 2}
    BY <1>2
  <2>2. \/ kind(1) = "big" /\ kind(2) = "prime"
        \/ kind(1) = "little" /\ kind(2) = "big"
    BY <1>2 DEF ClassifyCluster
  <2> HIDE DEF kind
  <2> QED BY <2>1, <2>2 DEF kind
<1>3. CASE n = 3
  <2>1. i \in {1, 2, 3} /\ j \in {1, 2, 3}
    BY <1>3
  <2>2. kind(1) = "little" /\ kind(2) = "big" /\ kind(3) = "prime"
    BY <1>3 DEF ClassifyCluster
  <2> HIDE DEF kind
  <2> QED BY <2>1, <2>2 DEF kind
<1>4. CASE n = 4
  <2>1. i \in {1, 2, 3, 4} /\ j \in {1, 2, 3, 4}
    BY <1>4
  <2>2. kind(1) = "little" /\ kind(2) = "mid" /\ kind(3) = "big" /\ kind(4) = "prime"
    BY <1>4 DEF ClassifyCluster
  <2> HIDE DEF kind
  <2> QED BY <2>1, <2>2 DEF kind
<1> QED BY <1>1, <1>2, <1>3, <1>4

\* The i-th of the clusters of a chip that reports capacities.
ClusterOf(soc, i) ==
    LET capacities == CapacitiesOf(Range(soc.capacity))
    IN [kind |-> ClassifyCluster(capacities, i),
        cpus |-> {c \in DOMAIN soc.capacity : soc.capacity[c] = capacities[i]},
        capacity |-> capacities[i]]

LEMMA ClustersAre ==
    ASSUME NEW soc, IsChip(soc)
    PROVE  LET values == Range(soc.capacity)
               n == Cardinality(values)
           IN /\ n \in Nat /\ (n = 0 <=> values = {})
              /\ n = 0 => DetectClusters(soc) =
                            <<[kind |-> "unknown", cpus |-> soc.online, capacity |-> 0]>>
              /\ n # 0 => DetectClusters(soc) = [i \in 1..n |-> ClusterOf(soc, i)]
              /\ n # 0 => Len(DetectClusters(soc)) = n
<1> DEFINE values == Range(soc.capacity)
           n == Cardinality(values)
           clusters == [i \in 1..n |-> ClusterOf(soc, i)]
<1>1. n \in Nat /\ (n = 0 <=> values = {})
  BY CapacitiesAreFinite, FS_CardinalityType, FS_EmptySet
<1>2. DetectClusters(soc) =
        IF values = {} THEN <<[kind |-> "unknown", cpus |-> soc.online, capacity |-> 0]>>
        ELSE [i \in DOMAIN CapacitiesOf(values) |-> ClusterOf(soc, i)]
  BY DEF DetectClusters, CapacitiesOf, ClusterOf
<1>3. DOMAIN CapacitiesOf(values) = 1..n
  BY DEF CapacitiesOf
<1> HIDE DEF n, values
<1>4. Len(clusters) = n
  <2>1. clusters \in Seq({ClusterOf(soc, i) : i \in 1..n}) /\ DOMAIN clusters = 1..n
    <3>1. clusters \in [1..n -> {ClusterOf(soc, i) : i \in 1..n}]
      OBVIOUS
    <3> HIDE DEF clusters
    <3> QED BY <1>1, <3>1, FunctionIsSeq
  <2> HIDE DEF clusters
  <2> QED BY <1>1, <2>1
<1> QED BY <1>1, <1>2, <1>3, <1>4 DEF n, values

(***************************************************************************)
(* The clusters that detect_clusters finds are a partition of the CPUs     *)
(* that report a capacity (of those online, if none does), one for each    *)
(* capacity, in ascending order; up to four are all of another kind.       *)
(***************************************************************************)
THEOREM ClustersPartition ==
    ASSUME NEW soc, IsChip(soc)
    PROVE  LET clusters == DetectClusters(soc)
               N == 1..Len(clusters)
           IN /\ DOMAIN clusters = N /\ N # {}
              /\ UNION {clusters[i].cpus : i \in N} =
                    IF DOMAIN soc.capacity = {} THEN soc.online ELSE DOMAIN soc.capacity
              /\ \A i, j \in N : i < j => /\ clusters[i].cpus \cap clusters[j].cpus = {}
                                          /\ clusters[i].capacity < clusters[j].capacity
              /\ \A i \in N : soc.online # {} => clusters[i].cpus # {}
              /\ Len(clusters) <= 4 =>
                    \A i, j \in N : i # j => clusters[i].kind # clusters[j].kind
<1> DEFINE values == Range(soc.capacity)
           n == Cardinality(values)
           capacities == CapacitiesOf(values)
           clusters == DetectClusters(soc)
           cpus(i) == {c \in DOMAIN soc.capacity : soc.capacity[c] = capacities[i]}
<1>1. /\ n \in Nat /\ (n = 0 <=> values = {})
      /\ n = 0 => clusters = <<[kind |-> "unknown", cpus |-> soc.online, capacity |-> 0]>>
      /\ n # 0 => clusters = [i \in 1..n |-> ClusterOf(soc, i)] /\ Len(clusters) = n
  BY ClustersAre
<1>2. /\ capacities \in [1..n -> values] /\ values \subseteq Int
      /\ \A i, j \in 1..n : i < j => capacities[i] < capacities[j]
      /\ \A v \in values : \E i \in 1..n : capacities[i] = v
  BY CapacitiesAreFinite, CapacitiesAscend
<1>3. values = {soc.capacity[x] : x \in DOMAIN soc.capacity}
  BY DEF Range
<1>4. \A i : /\ ClusterOf(soc, i).kind = ClassifyCluster(capacities, i)
             /\ ClusterOf(soc, i).cpus = cpus(i) /\ ClusterOf(soc, i).capacity = capacities[i]
  BY DEF ClusterOf
<1> HIDE DEF n, values, capacities, clusters
<1>5. CASE n = 0
  <2> DEFINE unknown == [kind |-> "unknown", cpus |-> soc.online, capacity |-> 0]
  <2>1. clusters = <<unknown>> /\ DOMAIN soc.capacity = {} /\ unknown.cpus = soc.online
    BY <1>1, <1>3, <1>5
  <2> HIDE DEF unknown
  <2>2. /\ Len(clusters) = 1 /\ DOMAIN clusters = 1..1 /\ clusters[1] = unknown
        /\ 1..1 = {1}
    BY <2>1
  <2>3. UNION {clusters[i].cpus : i \in {1}} = soc.online
    BY <2>1, <2>2
  <2>4. \A i, j \in {1} : i = j /\ ~(i < j)
    OBVIOUS
  <2> QED BY <2>1, <2>2, <2>3, <2>4 DEF clusters
<1>6. CASE n # 0
  <2>1. /\ Len(clusters) = n /\ DOMAIN clusters = 1..n
        /\ \A i \in 1..n : /\ clusters[i].kind = ClassifyCluster(capacities, i)
                           /\ clusters[i].cpus = cpus(i)
                           /\ clusters[i].capacity = capacities[i]
    BY <1>1, <1>4, <1>6
  <2>2. 1..n # {}
    <3>1. 1 \in 1..n
      BY <1>1, <1>6
    <3> QED BY <3>1
  <2>3. DOMAIN soc.capacity # {}
    BY <1>1, <1>3, <1>6
  <2>4. UNION {cpus(i) : i \in 1..n} = DOMAIN soc.capacity
    <3>1. ASSUME NEW c \in DOMAIN soc.capacity PROVE \E i \in 1..n : c \in cpus(i)
      <4>1. soc.capacity[c] \in values
        BY <1>3
      <4> QED BY <1>2, <4>1
    <3> QED BY <3>1
  <2>5. UNION {clusters[i].cpus : i \in 1..n} = DOMAIN soc.capacity
    <3> HIDE DEF cpus
    <3>1. {clusters[i].cpus : i \in 1..n} = {cpus(i) : i \in 1..n}
      BY <2>1
    <3> QED BY <2>4, <3>1
  <2>6. ASSUME NEW i \in 1..n, NEW j \in 1..n, i < j
        PROVE  cpus(i) \cap cpus(j) = {} /\ capacities[i] < capacities[j]
    <3>1. capacities[i] < capacities[j] /\ capacities[i] \in Int /\ capacities[j] \in Int
      BY <1>2, <2>6
    <3>2. capacities[i] # capacities[j]
      BY <3>1
    <3> QED BY <3>1, <3>2
  <2>7. ASSUME NEW i \in 1..n PROVE cpus(i) # {}
    <3>1. capacities[i] \in values
      BY <1>2
    <3> QED BY <1>3, <3>1
  <2>8. ASSUME n <= 4, NEW i \in 1..n, NEW j \in 1..n, i # j
        PROVE  ClassifyCluster(capacities, i) # ClassifyCluster(capacities, j)
    <3>1. capacities \in Seq(values) /\ Len(capacities) = n
      BY <1>1, <1>2, FunctionIsSeq
    <3>2. n \in 0..4
      BY <1>1, <2>8
    <3> QED BY <2>8, <3>1, <3>2, KindsDiffer
  <2> HIDE DEF cpus
  <2> DEFINE N == 1..Len(clusters)
  <2>9. N = 1..n
    BY <2>1
  <2> HIDE DEF N
  <2>10. /\ DOMAIN clusters = N /\ N # {}
         /\ UNION {clusters[i].cpus : i \in N} =
               IF DOMAIN soc.capacity = {} THEN soc.online ELSE DOMAIN soc.capacity
    BY <2>1, <2>2, <2>3, <2>5, <2>9
  <2>11. \A i, j \in N : i < j => /\ clusters[i].cpus \cap clusters[j].cpus = {}
                                  /\ clusters[i].capacity < clusters[j].capacity
    BY <2>1, <2>6, <2>9
  <2>12. \A i \in N : soc.online # {} => clusters[i].cpus # {}
    BY <2>1, <2>7, <2>9
  <2>13. Len(clusters) <= 4 => \A i, j \in N : i # j => clusters[i].kind # clusters[j].kind
    BY <2>1, <2>8, <2>9
  <2> QED BY <2>10, <2>11, <2>12, <2>13 DEF N, clusters
<1> QED BY <1>5, <1>6

LEMMA CapacityIsNumber ==
    ASSUME NEW soc, IsChip(soc), NEW i \in 1..Len(DetectClusters(soc))
    PROVE  DetectClusters(soc)[i].capacity \in Int
<1> DEFINE values == Range(soc.capacity)
           n == Cardinality(values)
           unknown == [kind |-> "unknown", cpus |-> soc.online, capacity |-> 0]
<1>1. /\ n \in Nat
      /\ n = 0 => DetectClusters(soc) = <<unknown>>
      /\ n # 0 => /\ DetectClusters(soc) = [k \in 1..n |-> ClusterOf(soc, k)]
                  /\ Len(DetectClusters(soc)) = n
  BY ClustersAre
<1>2. CapacitiesOf(values) \in [1..n -> values] /\ values \subseteq Int
  BY CapacitiesAreFinite, CapacitiesAscend
<1>3. ClusterOf(soc, i).capacity = CapacitiesOf(values)[i] /\ unknown.capacity = 0
  BY DEF ClusterOf
<1> HIDE DEF values, n, unknown
<1>4. CASE n = 0
  <2> DEFINE clusters == <<unknown>>
  <2>1. DetectClusters(soc) = clusters /\ Len(clusters) = 1 /\ clusters[1] = unknown
    BY <1>1, <1>4
  <2> HIDE DEF clusters
  <2>2. i \in 1..1
    BY <2>1
  <2>3. i = 1
    BY <2>2
  <2> QED BY <1>3, <2>1, <2>3
<1>5. CASE n # 0
  BY <1>1, <1>2, <1>3, <1>5
<1> QED BY <1>4, <1>5

\* The cluster that a name stands for: the one of this kind; if the chip has
\* none the big one; if it has none of these either the most capable one.
StandsFor(clusters, kind, c) ==
    LET has(k) == \E d \in Range(clusters) : d.kind = k
    IN /\ c \in Range(clusters)
       /\ IF has(kind) THEN c.kind = kind
          ELSE IF has("big") THEN c.kind = "big"
          ELSE \A d \in Range(clusters) : d.capacity <= c.capacity

\* The first of the clusters of a kind, if all are of different kinds.
LEMMA FirstOfKind ==
    ASSUME NEW clusters, clusters \in Seq(Range(clusters)), NEW kind
    PROVE  LET named == Keep(clusters, {c \in Range(clusters) : c.kind = kind})
           IN /\ named # <<>> => Head(named) \in Range(clusters) /\ Head(named).kind = kind
              /\ named = <<>> => \A c \in Range(clusters) : c.kind # kind
<1> DEFINE all == Range(clusters)
           named == Keep(clusters, {c \in all : c.kind = kind})
<1>1. named \in Seq(all) /\ Range(named) = {c \in all : c.kind = kind}
  BY KeepRange
<1> HIDE DEF named, all
<1>2. ASSUME named # <<>> PROVE Head(named) \in Range(named)
  <2>1. Head(named) = named[1] /\ 1 \in DOMAIN named
    BY <1>1, <1>2
  <2> QED BY <2>1 DEF Range
<1>3. ASSUME named = <<>> PROVE Range(named) = {}
  BY <1>3 DEF Range
<1> QED BY <1>1, <1>2, <1>3 DEF named, all

(***************************************************************************)
(* A policy that names a cluster becomes one rule, which holds the CPUs of *)
(* exactly one cluster, the one that the name stands for: the name is not  *)
(* ambiguous, the fallback neither, and the way over a range string loses  *)
(* no CPU and adds none (topology.rs detect_clusters, to_range_string,     *)
(* config.rs policy_to_rules, ruleset.rs compile).                         *)
(***************************************************************************)
THEOREM ClusterNamesAreExact ==
    ASSUME NEW soc, IsChip(soc), Len(DetectClusters(soc)) <= 4,
           NEW pkg, NEW thread, NEW model \in PolicyModels,
           NEW name, model.cpus = {}, model.cluster = {name}, name.kind # "numeric"
    PROVE  LET clusters == DetectClusters(soc)
               rules == PolicyToRules(pkg, thread, model, clusters)
           IN \E c : /\ StandsFor(clusters, name.kind, c)
                     /\ \A d : StandsFor(clusters, name.kind, d) => d = c
                     /\ Len(rules) = 1
                     /\ \A present :
                           CompileRule(rules[1], present).policy.cpus = c.cpus \cap present
<1> DEFINE clusters == DetectClusters(soc)
           all == Range(clusters)
           N == 1..Len(clusters)
           kind == name.kind
           rules == PolicyToRules(pkg, thread, model, clusters)
           named(k) == Keep(clusters, {c \in all : c.kind = k})
           best == {d \in all : \A e \in all : e.capacity <= d.capacity}
<1>1. clusters \in Seq(all) /\ \A c \in all : c.cpus \subseteq Cpus
  BY ClustersDetected DEF IsClusters, IsChip
<1>2. /\ N # {} /\ all = {clusters[i] : i \in N} /\ Len(clusters) \in Nat
      /\ \A i, j \in N : i < j => clusters[i].capacity < clusters[j].capacity
      /\ \A i, j \in N : i # j => clusters[i].kind # clusters[j].kind
  BY <1>1, ClustersPartition DEF Range
<1>3. ClusterRange(name, clusters) =
        IF named(kind) # <<>> THEN {ToRangeString(Head(named(kind)).cpus)}
        ELSE IF named("big") # <<>> THEN {ToRangeString(Head(named("big")).cpus)}
        ELSE {ToRangeString(c.cpus) : c \in best}
  BY DEF ClusterRange
<1>4. \A k : /\ named(k) # <<>> => Head(named(k)) \in all /\ Head(named(k)).kind = k
             /\ named(k) = <<>> => \A c \in all : c.kind # k
  BY <1>1, FirstOfKind
<1> HIDE DEF clusters, N, named
<1>5. \A c, d \in all : c.kind = d.kind => c = d
  BY <1>2
<1>6. \E c \in all : best = {c}
  <2> DEFINE n == Len(clusters)
  <2>1. n \in N /\ \A i \in N : i \in Nat /\ (i = n \/ i < n)
    BY <1>2 DEF N
  <2>2. \A i \in N : clusters[i].capacity \in Int
    BY CapacityIsNumber DEF clusters, N
  <2> HIDE DEF n
  <2>3. clusters[n] \in all /\ \A c \in all : c = clusters[n] \/ c.capacity < clusters[n].capacity
    BY <1>2, <2>1
  <2>4. \A c \in all : c.capacity \in Int
    BY <1>2, <2>2
  <2>5. clusters[n] \in best
    BY <2>3, <2>4
  <2>6. \A c \in best : c = clusters[n]
    BY <2>3, <2>4
  <2> QED BY <2>3, <2>5, <2>6
<1> HIDE DEF best, all
<1>7. \E c : /\ StandsFor(clusters, kind, c)
             /\ \A d : StandsFor(clusters, kind, d) => d = c
             /\ ClusterRange(name, clusters) = {ToRangeString(c.cpus)}
  <2>1. CASE named(kind) # <<>>
    <3> DEFINE c == Head(named(kind))
    <3>1. c \in all /\ c.kind = kind /\ ClusterRange(name, clusters) = {ToRangeString(c.cpus)}
      BY <1>3, <1>4, <2>1
    <3> QED BY <1>5, <3>1 DEF StandsFor, all
  <2>2. CASE named(kind) = <<>> /\ named("big") # <<>>
    <3> DEFINE c == Head(named("big"))
    <3>1. c \in all /\ c.kind = "big" /\ ClusterRange(name, clusters) = {ToRangeString(c.cpus)}
      BY <1>3, <1>4, <2>2
    <3>2. \A d \in all : d.kind # kind
      BY <1>4, <2>2
    <3> QED BY <1>5, <3>1, <3>2 DEF StandsFor, all
  <2>3. CASE named(kind) = <<>> /\ named("big") = <<>>
    <3>1. PICK c \in all : best = {c}
      BY <1>6
    <3>2. ClusterRange(name, clusters) = {ToRangeString(c.cpus)}
      BY <1>3, <2>3, <3>1
    <3>3. \A d \in all : d.kind # kind /\ d.kind # "big"
      BY <1>4, <2>3
    <3>4. \A d : StandsFor(clusters, kind, d) <=> d \in best
      BY <3>3 DEF StandsFor, best, all
    <3> QED BY <3>1, <3>2, <3>4
  <2> QED BY <2>1, <2>2, <2>3
<1>8. PICK c : /\ StandsFor(clusters, kind, c)
               /\ \A d : StandsFor(clusters, kind, d) => d = c
               /\ ClusterRange(name, clusters) = {ToRangeString(c.cpus)}
  BY <1>7
<1> DEFINE range == ToRangeString(c.cpus)
<1>9. rules = <<[pkg |-> pkg, thread |-> thread, cpus |-> range, sched |-> model.sched,
                 nice |-> model.nice, uclampMin |-> model.uclampMin, uclampMax |-> model.uclampMax]>>
  <2>1. Prefer(model.cpus, UNION {ClusterRange(n, clusters) : n \in model.cluster}) = {range}
    BY <1>8 DEF Prefer
  <2>2. HasAnyPolicy(model)
    BY DEF HasAnyPolicy, DefaultModel
  <2>3. (CHOOSE r \in {range} : TRUE) = range
    OBVIOUS
  <2> HIDE DEF range
  <2> QED BY <2>1, <2>2, <2>3 DEF PolicyToRules
<1>10. Len(rules) = 1 /\ rules[1].cpus = range
  BY <1>9
<1>11. ASSUME NEW present PROVE ParseCpuRanges(range, present) = c.cpus \cap present
  <2> DEFINE named2 == UNION {PartCpus(p) : p \in Range(range)}
  <2>1. c.cpus \in SUBSET Cpus
    BY <1>1, <1>8 DEF StandsFor, all
  <2>2. ParseCpuRanges(range, Cpus) = c.cpus
    BY <2>1, RangeStringsAreExact
  <2>3. named2 \subseteq Cpus
    BY DEF PartCpus
  <2>4. \A present2 : ParseCpuRanges(range, present2) = present2 \cap named2
    BY DEF ParseCpuRanges
  <2> HIDE DEF named2, range
  <2> QED BY <2>2, <2>3, <2>4
<1>12. \A present : CompileRule(rules[1], present).policy.cpus = c.cpus \cap present
  <2> HIDE DEF range, rules
  <2> QED BY <1>10, <1>11 DEF CompileRule
<1> QED BY <1>8, <1>10, <1>12 DEF clusters

-----------------------------------------------------------------------------
(* What is resolved.                                                       *)

LEMMA LayersOfRules ==
    ASSUME NEW R \in Seq(CompiledRules), NEW present, NEW P,
           \A r \in Range(R) : r \in CompiledRules /\ r.policy.cpus \subseteq present,
           \A q \in P : \E r \in Range(R) : q = r.policy
    PROVE  /\ P \subseteq Policies
           /\ CpusOf(P) \subseteq present
           /\ SchedsOf(P) \subseteq Scheds /\ NicesOf(P) \subseteq Int
           /\ MinsOf(P) \subseteq Int /\ MaxsOf(P) \subseteq Int
<1>1. \A q \in P : q \in Policies /\ q.cpus \subseteq present
  BY DEF CompiledRules
<1>2. \A q \in Policies : /\ q.sched \subseteq Scheds /\ q.nice \subseteq Int
                          /\ q.uclampMin \subseteq Int /\ q.uclampMax \subseteq Int
  BY DEF Policies, Optional
<1> QED BY <1>1, <1>2 DEF CpusOf, SchedsOf, NicesOf, MinsOf, MaxsOf

LEMMA SomeIsOptional ==
    ASSUME NEW S, NEW U, U \subseteq S, NEW v
    PROVE  /\ SomeOf(v, U) => v \in Optional(S)
           /\ GreatestOf(v, U) => v \in Optional(S)
           /\ LeastOf(v, U) => v \in Optional(S)
BY DEF SomeOf, GreatestOf, LeastOf, Optional

LEMMA ResolvedTyped ==
    ASSUME NEW R \in Seq(CompiledRules), NEW present, NEW p, NEW t,
           \A r \in Range(R) : r \in CompiledRules /\ r.policy.cpus \subseteq present,
           NEW q \in Resolve(R, p, t)
    PROVE  /\ q.cpus \subseteq present /\ q.cpusetDir = ToRangeString(q.cpus)
           /\ q.sched \in Optional(Scheds) /\ q.nice \in Optional(Int)
           /\ q.uclampMin \in Optional(Int) /\ q.uclampMax \in Optional(Int)
<1> DEFINE wild == BestWildcard(R, p)
           T1 == Hits(R, Own(p), t)
           T2 == Hits(R, wild, t)
           P1 == Wholes(R, Own(p))
           P2 == Wholes(R, wild)
<1>1. ResolvedFrom(q, T1, T2, P1, P2)
  BY ResolvedInLayers
<1>2. \A x \in T1 \cup T2 \cup P1 \cup P2 : \E r \in Range(R) : x = r.policy
  BY DEF Hits, Wholes
<1> HIDE DEF T1, T2, P1, P2
<1>3. \A P \in {T1, T2, P1, P2, T1 \cup T2, P1 \cup P2} :
         /\ CpusOf(P) \subseteq present
         /\ SchedsOf(P) \subseteq Scheds /\ NicesOf(P) \subseteq Int
         /\ MinsOf(P) \subseteq Int /\ MaxsOf(P) \subseteq Int
  <2> TAKE P \in {T1, T2, P1, P2, T1 \cup T2, P1 \cup P2}
  <2>1. \A x \in P : \E r \in Range(R) : x = r.policy
    BY <1>2
  <2> QED BY <2>1, LayersOfRules
<1>4. /\ q.cpus \subseteq present /\ q.cpusetDir = ToRangeString(q.cpus)
  BY <1>1, <1>3 DEF ResolvedFrom, InOrder, Prefer
<1>5. /\ InOrder(SchedsOf(T1), SchedsOf(T2), SchedsOf(P1), SchedsOf(P2)) \subseteq Scheds
      /\ InOrder(NicesOf(T1), NicesOf(T2), NicesOf(P1), NicesOf(P2)) \subseteq Int
      /\ Prefer(MinsOf(T1 \cup T2), MinsOf(P1 \cup P2)) \subseteq Int
      /\ Prefer(MaxsOf(T1 \cup T2), MaxsOf(P1 \cup P2)) \subseteq Int
  BY <1>3 DEF InOrder, Prefer
<1>6. /\ SomeOf(q.sched, InOrder(SchedsOf(T1), SchedsOf(T2), SchedsOf(P1), SchedsOf(P2)))
      /\ SomeOf(q.nice, InOrder(NicesOf(T1), NicesOf(T2), NicesOf(P1), NicesOf(P2)))
      /\ GreatestOf(q.uclampMin, Prefer(MinsOf(T1 \cup T2), MinsOf(P1 \cup P2)))
      /\ LeastOf(q.uclampMax, Prefer(MaxsOf(T1 \cup T2), MaxsOf(P1 \cup P2)))
  BY <1>1 DEF ResolvedFrom
<1> HIDE DEF wild
<1> QED BY <1>4, <1>5, <1>6, SomeIsOptional

-----------------------------------------------------------------------------
(* A pattern without a wildcard.                                           *)

ReachStep(c, places, token) ==
    IF token = "*" THEN {j \in 0..Len(c.name) : \E i \in places : i <= j}
    ELSE {i + 1 : i \in {j \in places : j < Len(c.name) /\ token \in {"?", c.name[j + 1]}}}
\* After k tokens the name has been read up to k, if they are its own.
Reached(c, k, places) ==
    /\ places \subseteq {k}
    /\ k \in places => k <= Len(c.name) /\ \A i \in 1..k : c.pattern[i] = c.name[i]

Reaching == INSTANCE FoldTheorems WITH Op <- ReachStep, Inv <- Reached

LEMMA ReachStepReaches ==
    ASSUME NEW c, c.name \in Names, NEW k \in Nat \ {0}, NEW places, Reached(c, k - 1, places),
           c.pattern[k] \notin Wildcards
    PROVE  Reached(c, k, ReachStep(c, places, c.pattern[k]))
<1> DEFINE token == c.pattern[k]
<1>1. /\ places \subseteq {k - 1}
      /\ k - 1 \in places => /\ k - 1 <= Len(c.name)
                             /\ \A i \in 1..(k - 1) : c.pattern[i] = c.name[i]
  BY DEF Reached
<1>2. ReachStep(c, places, token) =
        {i + 1 : i \in {j \in places : j < Len(c.name) /\ token \in {"?", c.name[j + 1]}}}
  BY DEF ReachStep, Wildcards
<1>3. ASSUME NEW x \in ReachStep(c, places, token)
      PROVE  x = k /\ k - 1 \in places /\ k - 1 < Len(c.name) /\ token = c.name[k]
  <2>1. PICK j \in places : x = j + 1 /\ j < Len(c.name) /\ token \in {"?", c.name[j + 1]}
    BY <1>2
  <2>2. j = k - 1
    BY <1>1
  <2> QED BY <2>1, <2>2 DEF Wildcards
<1>4. Len(c.name) \in Nat
  BY DEF Names
<1> HIDE DEF token
<1>5. ReachStep(c, places, token) \subseteq {k}
  BY <1>3
<1>6. ASSUME k \in ReachStep(c, places, token)
      PROVE  k <= Len(c.name) /\ \A i \in 1..k : c.pattern[i] = c.name[i]
  <2>1. k - 1 \in places /\ k - 1 < Len(c.name) /\ c.pattern[k] = c.name[k]
    BY <1>3, <1>6 DEF token
  <2>2. \A i \in 1..k : i = k \/ i \in 1..(k - 1)
    OBVIOUS
  <2> QED BY <1>1, <1>4, <2>1, <2>2
<1> QED BY <1>5, <1>6 DEF Reached, token

(***************************************************************************)
(* A pattern without a wildcard matches itself alone (ruleset.rs fnmatch). *)
(***************************************************************************)
LEMMA LiteralsMatchThemselves ==
    ASSUME NEW pattern \in Names, NEW name \in Names, ~ContainsWildcard(pattern),
           Fnmatch(pattern, name)
    PROVE  pattern = name
<1> DEFINE c == [name |-> name, pattern |-> pattern]
           places == Reaching!Fold(c, {0}, pattern)
<1>1. Len(name) \in places
  BY DEF Fnmatch, FoldLeft, MapThenFoldSet, Max, Reaching!Fold, Reaching!FoldLeft,
         Reaching!MapThenFoldSet, Reaching!Max, ReachStep
<1>2. c.name = name /\ c.pattern = pattern
  OBVIOUS
<1> HIDE DEF c
<1>3. pattern \in Seq(STRING) /\ name \in Seq(STRING)
  BY DEF Names
<1>4. Reached(c, 0, {0})
  BY <1>2, <1>3 DEF Reached
<1>5. ASSUME NEW k \in 1..Len(pattern), NEW a, Reached(c, k - 1, a)
      PROVE  Reached(c, k, ReachStep(c, a, pattern[k]))
  <2>1. pattern[k] \notin Wildcards
    BY <1>3 DEF ContainsWildcard, Range
  <2>2. k \in Nat \ {0} /\ c.name \in Names /\ c.pattern[k] \notin Wildcards
    BY <1>2, <2>1
  <2>3. Reached(c, k, ReachStep(c, a, c.pattern[k]))
    BY <1>5, <2>2, ReachStepReaches
  <2> QED BY <1>2, <2>3
<1>6. Reached(c, Len(pattern), places)
  <2> HIDE DEF Reached, ReachStep
  <2> QED BY <1>3, <1>4, <1>5, Reaching!FoldInvariant
<1> HIDE DEF places
<1>7. Len(name) = Len(pattern) /\ \A i \in 1..Len(pattern) : pattern[i] = name[i]
  BY <1>1, <1>2, <1>6 DEF Reached
<1> QED BY <1>3, <1>7

-----------------------------------------------------------------------------
(* What a pattern means.                                                   *)

\* What one token takes of a name: "*" anything, "?" one character, another
\* token itself.
Takes(token, name, from, to) ==
    IF token = "*" THEN from <= to
    ELSE to = from + 1 /\ token \in {"?", name[to]}

\* A way to divide the first j characters of a name among the first k tokens.
Divides(cut, pattern, name, k, j) ==
    /\ cut \in [0..k -> 0..Len(name)]
    /\ cut[0] = 0 /\ cut[k] = j
    /\ \A i \in 1..k : Takes(pattern[i], name, cut[i - 1], cut[i])

\* The places that the first k tokens can read up to.
ReadableTo(c, k, places) ==
    places = {j \in 0..Len(c.name) : \E cut : Divides(cut, c.pattern, c.name, k, j)}

Reading == INSTANCE FoldTheorems WITH Op <- ReachStep, Inv <- ReadableTo

\* A token more: what is read so far ends where the token begins.
LEMMA ReadFurther ==
    ASSUME NEW c, c.name \in Names, NEW k \in Nat \ {0}, NEW places, ReadableTo(c, k - 1, places)
    PROVE  ReadableTo(c, k, ReachStep(c, places, c.pattern[k]))
<1> DEFINE N == 0..Len(c.name)
           token == c.pattern[k]
           next == ReachStep(c, places, token)
<1>1. Len(c.name) \in Nat
  BY DEF Names
<1>2. /\ places \subseteq N
      /\ \A j \in N : j \in places <=> \E cut : Divides(cut, c.pattern, c.name, k - 1, j)
  BY DEF ReadableTo
<1>3. next \subseteq N /\ \A j \in N : j \in next <=> \E i \in places : Takes(token, c.name, i, j)
  <2>1. CASE token = "*"
    BY <2>1 DEF ReachStep, Takes
  <2>2. CASE token # "*"
    <3>1. next = {i + 1 : i \in {j \in places : j < Len(c.name) /\ token \in {"?", c.name[j + 1]}}}
      BY <2>2 DEF ReachStep
    <3>2. \A i \in places : i \in Nat /\ (i < Len(c.name) <=> i + 1 \in N)
      BY <1>1, <1>2
    <3>3. next \subseteq N
      BY <3>1, <3>2
    <3>4. ASSUME NEW j \in N, j \in next PROVE \E i \in places : Takes(token, c.name, i, j)
      BY <2>2, <3>1, <3>4 DEF Takes
    <3>5. ASSUME NEW j \in N, NEW i \in places, Takes(token, c.name, i, j) PROVE j \in next
      BY <2>2, <3>1, <3>2, <3>5 DEF Takes
    <3> QED BY <3>3, <3>4, <3>5
  <2> QED BY <2>1, <2>2
<1> HIDE DEF next, token
<1>4. ASSUME NEW j \in N, NEW cut, Divides(cut, c.pattern, c.name, k, j) PROVE j \in next
  <2> DEFINE i == cut[k - 1]
             part == [x \in 0..(k - 1) |-> cut[x]]
  <2>1. /\ cut \in [0..k -> N] /\ cut[0] = 0 /\ cut[k] = j
        /\ \A x \in 1..k : Takes(c.pattern[x], c.name, cut[x - 1], cut[x])
    BY <1>4 DEF Divides
  <2>2. i \in N /\ Takes(token, c.name, i, j)
    BY <2>1 DEF token
  <2>3. part \in [0..(k - 1) -> N] /\ part[0] = 0 /\ part[k - 1] = i
    BY <2>1
  <2>4. \A x \in 1..(k - 1) : part[x - 1] = cut[x - 1] /\ part[x] = cut[x] /\ x \in 1..k
    OBVIOUS
  <2> HIDE DEF part, i
  <2>5. Divides(part, c.pattern, c.name, k - 1, i)
    BY <2>1, <2>3, <2>4 DEF Divides
  <2> QED BY <1>2, <1>3, <2>2, <2>5
<1>5. ASSUME NEW j \in next PROVE \E cut : Divides(cut, c.pattern, c.name, k, j)
  <2>1. j \in N
    BY <1>3
  <2>2. PICK i \in places : Takes(token, c.name, i, j)
    BY <1>3, <2>1
  <2>3. PICK part : Divides(part, c.pattern, c.name, k - 1, i)
    BY <1>2
  <2> DEFINE cut == [x \in 0..k |-> IF x = k THEN j ELSE part[x]]
  <2>4. /\ part \in [0..(k - 1) -> N] /\ part[0] = 0 /\ part[k - 1] = i
        /\ \A x \in 1..(k - 1) : Takes(c.pattern[x], c.name, part[x - 1], part[x])
    BY <2>3 DEF Divides
  <2>5. cut \in [0..k -> N] /\ cut[0] = 0 /\ cut[k] = j /\ cut[k - 1] = i
    BY <2>1, <2>4
  <2>6. \A x \in 1..(k - 1) : cut[x - 1] = part[x - 1] /\ cut[x] = part[x]
    OBVIOUS
  <2> HIDE DEF cut
  <2>7. ASSUME NEW x \in 1..k PROVE Takes(c.pattern[x], c.name, cut[x - 1], cut[x])
    <3>1. CASE x = k
      BY <2>2, <2>5, <3>1 DEF token
    <3>2. CASE x # k
      <4>1. x \in 1..(k - 1)
        BY <3>2
      <4> QED BY <2>4, <2>6, <4>1
    <3> QED BY <3>1, <3>2
  <2>8. Divides(cut, c.pattern, c.name, k, j)
    BY <2>5, <2>7 DEF Divides
  <2> QED BY <2>8
<1>6. next = {j \in N : \E cut : Divides(cut, c.pattern, c.name, k, j)}
  BY <1>3, <1>4, <1>5
<1> QED BY <1>6 DEF ReadableTo, next, token

(***************************************************************************)
(* A pattern matches a name exactly if the name can be divided among its   *)
(* tokens, one after the other: what the matcher of thread and package     *)
(* names relies on when it calls fnmatch (ruleset.rs fnmatch_c,            *)
(* fnmatch_pkg), for patterns without brackets.                            *)
(***************************************************************************)
THEOREM FnmatchIsGlob ==
    ASSUME NEW pattern \in Names, NEW name \in Names
    PROVE  Fnmatch(pattern, name) <=> \E cut : Divides(cut, pattern, name, Len(pattern), Len(name))
<1> DEFINE c == [name |-> name, pattern |-> pattern]
           places == Reading!Fold(c, {0}, pattern)
<1>1. Fnmatch(pattern, name) <=> Len(name) \in places
  BY DEF Fnmatch, FoldLeft, MapThenFoldSet, Max, Reading!Fold, Reading!FoldLeft,
         Reading!MapThenFoldSet, Reading!Max, ReachStep
<1>2. c.name = name /\ c.pattern = pattern
  OBVIOUS
<1> HIDE DEF c
<1>3. pattern \in Seq(STRING) /\ Len(name) \in Nat
  BY DEF Names
<1>4. ReadableTo(c, 0, {0})
  <2> DEFINE cut == [x \in 0..0 |-> 0]
  <2>1. cut \in [0..0 -> 0..Len(name)] /\ cut[0] = 0 /\ 1..0 = {}
    BY <1>3
  <2> HIDE DEF cut
  <2>2. Divides(cut, pattern, name, 0, 0)
    BY <2>1 DEF Divides
  <2>3. \A j, f : Divides(f, pattern, name, 0, j) => j = 0
    BY DEF Divides
  <2>4. {0} = {j \in 0..Len(name) : \E f : Divides(f, pattern, name, 0, j)}
    BY <1>3, <2>2, <2>3
  <2> QED BY <1>2, <2>4 DEF ReadableTo
<1>5. ASSUME NEW k \in 1..Len(pattern), NEW a, ReadableTo(c, k - 1, a)
      PROVE  ReadableTo(c, k, ReachStep(c, a, pattern[k]))
  <2>1. k \in Nat \ {0}
    OBVIOUS
  <2> QED BY <1>2, <1>5, <2>1, ReadFurther
<1>6. ReadableTo(c, Len(pattern), places)
  <2> HIDE DEF ReadableTo, ReachStep
  <2> QED BY <1>3, <1>4, <1>5, Reading!FoldInvariant
<1> HIDE DEF places
<1>7. Len(name) \in 0..Len(name)
  BY <1>3
<1> QED BY <1>1, <1>2, <1>6, <1>7 DEF ReadableTo

-----------------------------------------------------------------------------
(* What compilation keeps.                                                 *)

\* A range string that names CPUs that are present.
IsRangeOf(r, present) == r # <<>> /\ ParseCpuRanges(r, present) # {}
\* A policy all of whose ranges are such.
IsValidModel(m, present) ==
    /\ \A r \in m.cpus : IsRangeOf(r, present)
    /\ \A n \in m.cluster : n.kind = "numeric" => IsRangeOf(n.range, present)

\* No cluster without a CPU that is present.
ClustersPresent(clusters, present) == \A c \in Range(clusters) : c.cpus \cap present # {}

LEMMA ClusterRangesValid ==
    ASSUME NEW present, NEW clusters, IsClusters(clusters), ClustersPresent(clusters, present),
           NEW cluster, cluster.kind = "numeric" => IsRangeOf(cluster.range, present)
    PROVE  \A r \in ClusterRange(cluster, clusters) : IsRangeOf(r, present)
<1> DEFINE all == Range(clusters)
           named(kind) == Keep(clusters, {c \in all : c.kind = kind})
<1>1. clusters \in Seq(all) /\ \A c \in all : c.cpus \in SUBSET Cpus /\ c.cpus \cap present # {}
  BY DEF IsClusters, ClustersPresent
<1>2. \A c \in all : IsRangeOf(ToRangeString(c.cpus), present)
  <2> TAKE c \in all
  <2>1. /\ ParseCpuRanges(ToRangeString(c.cpus), c.cpus) = c.cpus
        /\ ToRangeString(c.cpus) = <<>> <=> c.cpus = {}
    BY <1>1, RangeStringsAreExact
  <2> QED BY <1>1, <2>1 DEF ParseCpuRanges, IsRangeOf
<1> HIDE DEF all
<1>3. ASSUME NEW kind, named(kind) # <<>>
      PROVE  Head(named(kind)) \in all
  <2>1. named(kind) \in Seq(all)
    BY <1>1, KeepRange
  <2> HIDE DEF named
  <2> QED BY <1>3, <2>1
<1>4. ClusterRange(cluster, clusters) =
        IF named(cluster.kind) # <<>> THEN {ToRangeString(Head(named(cluster.kind)).cpus)}
        ELSE IF cluster.kind = "numeric" THEN {cluster.range}
        ELSE IF named("big") # <<>> THEN {ToRangeString(Head(named("big")).cpus)}
        ELSE {ToRangeString(c.cpus) : c \in {d \in all : \A e \in all : e.capacity <= d.capacity}}
  BY DEF ClusterRange, all
<1> HIDE DEF named
<1> QED BY <1>2, <1>3, <1>4

LEMMA RuleOfPolicy ==
    ASSUME NEW present, NEW clusters, IsClusters(clusters), ClustersPresent(clusters, present),
           NEW pkg \in Names, pkg # <<>>, Len(pkg) < MaxPkgLen,
           NEW thread, Len(thread) < MaxThreadLen,
           NEW model, IsValidModel(model, present), HasAnyPolicy(model)
    PROVE  \E rc \in Range(PolicyToRules(pkg, thread, model, clusters)) :
              rc.pkg = pkg /\ IsValid(rc, present)
<1> DEFINE ranges == Prefer(model.cpus, UNION {ClusterRange(n, clusters) : n \in model.cluster})
           cpus == IF ranges = {} THEN <<>> ELSE CHOOSE r \in ranges : TRUE
           rc == [pkg |-> pkg, thread |-> thread, cpus |-> cpus, sched |-> model.sched,
                  nice |-> model.nice, uclampMin |-> model.uclampMin, uclampMax |-> model.uclampMax]
<1>1. \A n \in model.cluster : \A r \in ClusterRange(n, clusters) : IsRangeOf(r, present)
  BY ClusterRangesValid DEF IsValidModel
<1>2. \A r \in ranges : IsRangeOf(r, present)
  BY <1>1 DEF Prefer, IsValidModel
<1>3. PolicyToRules(pkg, thread, model, clusters) = <<rc>>
  BY DEF PolicyToRules
<1> HIDE DEF ranges
<1>4. cpus = <<>> \/ ParseCpuRanges(cpus, present) # {}
  <2>1. ASSUME ranges # {} PROVE cpus \in ranges
    BY <2>1
  <2> QED BY <1>2, <2>1 DEF IsRangeOf
<1> HIDE DEF cpus
<1>5. rc.pkg = pkg /\ IsValid(rc, present)
  BY <1>4 DEF IsValid
<1>6. rc \in Range(<<rc>>)
  <2> HIDE DEF rc
  <2> QED BY DEF Range
<1> QED BY <1>3, <1>5, <1>6


LEMMA OverriddenIsValid ==
    ASSUME NEW present, NEW base, IsValidModel(base, present), NEW user, IsValidModel(user, present)
    PROVE  IsValidModel(OverridePolicy(base, user), present)
BY DEF IsValidModel, OverridePolicy, Prefer

LEMMA InClusterValid ==
    ASSUME NEW present, NEW kind, kind # "numeric"
    PROVE  /\ IsValidModel(DefaultModel, present) /\ IsValidModel(InCluster(kind), present)
           /\ \A s : IsValidModel([InCluster(kind) EXCEPT !.sched = s], present)
           /\ \A s : IsValidModel([InCluster(kind) EXCEPT !.uclampMin = s], present)
<1>1. DefaultModel.cpus = {} /\ DefaultModel.cluster = {}
  BY DEF DefaultModel
<1>2. InCluster(kind).cpus = {} /\ InCluster(kind).cluster = {[kind |-> kind, range |-> <<>>]}
  BY DEF InCluster, DefaultModel
<1>3. \A s : LET m == [InCluster(kind) EXCEPT !.sched = s]
             IN m.cpus = InCluster(kind).cpus /\ m.cluster = InCluster(kind).cluster
  BY DEF InCluster, DefaultModel
<1>4. \A s : LET m == [InCluster(kind) EXCEPT !.uclampMin = s]
             IN m.cpus = InCluster(kind).cpus /\ m.cluster = InCluster(kind).cluster
  BY DEF InCluster, DefaultModel
<1> QED BY <1>1, <1>2, <1>3, <1>4 DEF IsValidModel

\* An application, or a profile, that compile would not throw away.
IsValidProfile(profile, present) ==
    /\ IsValidModel(profile.default, present)
    /\ \A t \in DOMAIN profile.threads :
          Len(t) < MaxThreadLen /\ IsValidModel(profile.threads[t], present)
    /\ \A y \in DOMAIN profile.types :
          y \in DOMAIN ThreadTypePatterns /\ IsValidModel(profile.types[y], present)

LEMMA ProfilesValid ==
    ASSUME NEW present
    PROVE  /\ IsValidProfile(NoProfile, present)
           /\ \A name \in DOMAIN BuiltinProfiles : IsValidProfile(BuiltinProfiles[name], present)
<1> DEFINE big == InCluster("big")
           little == InCluster("little")
           prime == InCluster("prime")
           clamped == [InCluster("prime") EXCEPT !.uclampMin = {700}]
           fifo == [InCluster("prime") EXCEPT !.sched = Realtime("fifo", 60)]
           audioBig == [InCluster("big") EXCEPT !.sched = Realtime("rr", 30)]
           render(model) == [t \in {<<"RenderThread">>} |-> model]
           audio(model) == [audio |-> model]
           both == [render |-> clamped, audio |-> little]
           V(m) == IsValidModel(m, present)
<1>1. V(DefaultModel) /\ V(big) /\ V(little) /\ V(prime) /\ V(clamped) /\ V(fifo) /\ V(audioBig)
  <2>1. "big" # "numeric" /\ "little" # "numeric" /\ "prime" # "numeric"
    OBVIOUS
  <2>2. V(DefaultModel) /\ V(big) /\ V(audioBig)
    BY <2>1, InClusterValid
  <2>3. V(little)
    BY <2>1, InClusterValid
  <2>4. /\ V(prime)
        /\ \A s : V([prime EXCEPT !.sched = s])
        /\ \A s : V([prime EXCEPT !.uclampMin = s])
    BY <2>1, InClusterValid
  <2>5. V(clamped) /\ V(fifo)
    <3> HIDE DEF prime, V
    <3> QED BY <2>4 DEF prime
  <2> QED BY <2>2, <2>3, <2>4, <2>5
<1>2. Len(<<"RenderThread">>) < MaxThreadLen
  BY RulesAssumption
<1>3. {"render", "audio"} \subseteq DOMAIN ThreadTypePatterns
  BY DEF ThreadTypePatterns
<1>4. NoProfile = [default |-> DefaultModel, threads |-> <<>>, types |-> <<>>]
  BY DEF NoProfile
<1>5. /\ BuiltinProfiles["game"] = [default |-> big, threads |-> <<>>, types |-> both]
      /\ BuiltinProfiles["audio"] = [default |-> little, threads |-> <<>>, types |-> audio(audioBig)]
      /\ BuiltinProfiles["launcher"] = [default |-> big, types |-> <<>>, threads |-> render(fifo)]
      /\ BuiltinProfiles["balanced"] = [NoProfile EXCEPT !.default = big]
      /\ BuiltinProfiles["power-save"] = [NoProfile EXCEPT !.default = little]
      /\ BuiltinProfiles["chat"] = [default |-> big, threads |-> render(prime), types |-> audio(audioBig)]
      /\ BuiltinProfiles["video"] = [default |-> little, threads |-> render(big), types |-> audio(big)]
  BY DEF BuiltinProfiles
<1>6. DOMAIN BuiltinProfiles = {"game", "audio", "launcher", "balanced", "power-save", "chat", "video"}
  BY DEF BuiltinProfiles
<1> HIDE DEF big, little, prime, clamped, fifo, audioBig, V
<1>7. \A m : /\ DOMAIN render(m) = {<<"RenderThread">>} /\ \A t \in DOMAIN render(m) : render(m)[t] = m
             /\ DOMAIN audio(m) = {"audio"} /\ \A y \in DOMAIN audio(m) : audio(m)[y] = m
  OBVIOUS
<1>8. DOMAIN both = {"render", "audio"} /\ both["render"] = clamped /\ both["audio"] = little
  OBVIOUS
<1>9. DOMAIN <<>> = {}
  OBVIOUS
<1> HIDE DEF render, audio, both
<1> DEFINE TV(f) == \A t \in DOMAIN f : Len(t) < MaxThreadLen /\ V(f[t])
           YV(f) == \A y \in DOMAIN f : y \in DOMAIN ThreadTypePatterns /\ V(f[y])
<1>10. \A profile : IsValidProfile(profile, present) <=>
                       V(profile.default) /\ TV(profile.threads) /\ YV(profile.types)
  BY DEF IsValidProfile, V
<1>11. TV(<<>>) /\ YV(<<>>) /\ YV(both) /\ \A m : V(m) => TV(render(m)) /\ YV(audio(m))
  BY <1>1, <1>2, <1>3, <1>7, <1>8, <1>9
<1> HIDE DEF TV, YV
<1>12. \A d, t, y : (V(d) /\ TV(t) /\ YV(y))
                       => IsValidProfile([default |-> d, threads |-> t, types |-> y], present)
  BY <1>10
<1>13. IsValidProfile(NoProfile, present)
  BY <1>1, <1>4, <1>11, <1>12
<1>14. /\ IsValidProfile(BuiltinProfiles["game"], present)
       /\ IsValidProfile(BuiltinProfiles["audio"], present)
       /\ IsValidProfile(BuiltinProfiles["launcher"], present)
  BY <1>1, <1>5, <1>11, <1>12
<1>15. /\ IsValidProfile(BuiltinProfiles["chat"], present)
       /\ IsValidProfile(BuiltinProfiles["video"], present)
  BY <1>1, <1>5, <1>11, <1>12
<1>16. /\ [NoProfile EXCEPT !.default = big] = [default |-> big, threads |-> <<>>, types |-> <<>>]
       /\ [NoProfile EXCEPT !.default = little] = [default |-> little, threads |-> <<>>, types |-> <<>>]
  BY <1>4
<1>17. /\ IsValidProfile(BuiltinProfiles["balanced"], present)
       /\ IsValidProfile(BuiltinProfiles["power-save"], present)
  BY <1>1, <1>5, <1>11, <1>12, <1>16
<1> QED BY <1>6, <1>13, <1>14, <1>15, <1>17

LEMMA OverriddenMapIsValid ==
    ASSUME NEW present, NEW base, NEW user,
           \A k \in DOMAIN base : IsValidModel(base[k], present),
           \A k \in DOMAIN user : IsValidModel(user[k], present)
    PROVE  \A k \in DOMAIN OverrideEach(base, user) :
              /\ k \in DOMAIN base \cup DOMAIN user
              /\ IsValidModel(OverrideEach(base, user)[k], present)
<1> TAKE k \in DOMAIN OverrideEach(base, user)
<1>1. k \in DOMAIN base \cup DOMAIN user
  BY DEF OverrideEach
<1>2. CASE k \notin DOMAIN user
  BY <1>1, <1>2 DEF OverrideEach
<1>3. CASE k \in DOMAIN user
  <2>1. IsValidModel(IF k \in DOMAIN base THEN base[k] ELSE DefaultModel, present)
    <3>1. "big" # "numeric"
      OBVIOUS
    <3> QED BY <3>1, InClusterValid
  <2>2. OverrideEach(base, user)[k] =
          OverridePolicy(IF k \in DOMAIN base THEN base[k] ELSE DefaultModel, user[k])
    BY <1>3 DEF OverrideEach
  <2> QED BY <1>3, <2>1, <2>2, OverriddenIsValid
<1> QED BY <1>1, <1>2, <1>3

LEMMA WithProfileValid ==
    ASSUME NEW present, NEW app, IsValidProfile(app, present)
    PROVE  IsValidProfile(WithProfile(app), present)
<1> DEFINE profile == IF app.profile \in DOMAIN BuiltinProfiles
                      THEN BuiltinProfiles[app.profile] ELSE NoProfile
<1>1. WithProfile(app) = [pkg |-> app.pkg,
                          default |-> OverridePolicy(profile.default, app.default),
                          threads |-> OverrideEach(profile.threads, app.threads),
                          types |-> OverrideEach(profile.types, app.types)]
  BY DEF WithProfile
<1>2. IsValidProfile(profile, present)
  BY ProfilesValid
<1> HIDE DEF profile
<1>3. IsValidModel(OverridePolicy(profile.default, app.default), present)
  BY <1>2, OverriddenIsValid DEF IsValidProfile
<1>4. \A t \in DOMAIN OverrideEach(profile.threads, app.threads) :
         Len(t) < MaxThreadLen /\ IsValidModel(OverrideEach(profile.threads, app.threads)[t], present)
  BY <1>2, OverriddenMapIsValid DEF IsValidProfile
<1>5. \A y \in DOMAIN OverrideEach(profile.types, app.types) :
         /\ y \in DOMAIN ThreadTypePatterns
         /\ IsValidModel(OverrideEach(profile.types, app.types)[y], present)
  BY <1>2, OverriddenMapIsValid DEF IsValidProfile
<1> QED BY <1>1, <1>3, <1>4, <1>5 DEF IsValidProfile

(***************************************************************************)
(* An application that is well formed leaves a rule that compile keeps     *)
(* (config.rs to_rules_with_clusters, has_any).                            *)
(***************************************************************************)
LEMMA RuleOfApplication ==
    ASSUME NEW present, NEW clusters, IsClusters(clusters), ClustersPresent(clusters, present),
           NEW given, IsApplication(given), IsValidProfile(given, present),
           given.pkg # <<>>, Len(given.pkg) < MaxPkgLen
    PROVE  \E rc \in RulesOf(given, clusters) : rc.pkg = given.pkg /\ IsValid(rc, present)
<1> DEFINE app == WithProfile(given)
           Is(rc) == rc.pkg = given.pkg /\ IsValid(rc, present)
           to(thread, model) == PolicyToRules(app.pkg, thread, model, clusters)
           hasAny == \/ to(<<>>, app.default) # <<>>
                     \/ \E t \in DOMAIN app.threads : HasCpus(app.threads[t])
                     \/ \E y \in DOMAIN app.types : HasCpus(app.types[y])
           Types == DOMAIN app.types \cap DOMAIN ThreadTypePatterns
<1>1. app.pkg = given.pkg /\ given.pkg \in Names /\ IsValidProfile(app, present)
  BY WithProfileTyped, WithProfileValid
<1>2. RulesOf(given, clusters) =
         Range(to(<<>>, app.default)) \cup (UNION {Range(to(t, app.threads[t])) : t \in DOMAIN app.threads})
         \cup (UNION {UNION {Range(to(ThreadTypePatterns[y][i], app.types[y])) : i \in DOMAIN ThreadTypePatterns[y]} : y \in Types})
         \cup Range(IF hasAny THEN <<>> ELSE Placeholder(app))
  BY DEF RulesOf
<1> HIDE DEF app, Types
<1>3. ASSUME NEW thread, Len(thread) < MaxThreadLen,
             NEW model, IsValidModel(model, present), HasAnyPolicy(model)
      PROVE  \E rc \in Range(to(thread, model)) : Is(rc)
  BY <1>1, <1>3, RuleOfPolicy
<1>4. \A model : HasCpus(model) => HasAnyPolicy(model)
  BY DEF HasCpus, HasAnyPolicy, DefaultModel
<1>5. CASE to(<<>>, app.default) # <<>>
  <2>1. HasAnyPolicy(app.default)
    BY <1>5 DEF PolicyToRules
  <2>2. Len(<<>>) < MaxThreadLen
    BY RulesAssumption
  <2> HIDE DEF to, hasAny
  <2>3. \E rc \in Range(to(<<>>, app.default)) : Is(rc)
    BY <1>1, <1>3, <2>1, <2>2 DEF IsValidProfile
  <2> QED BY <1>2, <2>3
<1>6. ASSUME NEW t \in DOMAIN app.threads, HasCpus(app.threads[t])
      PROVE  \E rc \in RulesOf(given, clusters) : Is(rc)
  <2> HIDE DEF to, hasAny
  <2>1. \E rc \in Range(to(t, app.threads[t])) : Is(rc)
    BY <1>1, <1>3, <1>4, <1>6 DEF IsValidProfile
  <2> QED BY <1>2, <2>1
<1>7. ASSUME NEW y \in DOMAIN app.types, HasCpus(app.types[y])
      PROVE  \E rc \in RulesOf(given, clusters) : Is(rc)
  <2>1. y \in DOMAIN ThreadTypePatterns /\ IsValidModel(app.types[y], present)
    BY <1>1 DEF IsValidProfile
  <2>2. 1 \in DOMAIN ThreadTypePatterns[y] /\ Len(ThreadTypePatterns[y][1]) < MaxThreadLen
    <3> DEFINE around(word) == <<"*", word, "*">>
    <3>1. \A word : Len(around(word)) = 3
      OBVIOUS
    <3> HIDE DEF around
    <3>2. /\ DOMAIN ThreadTypePatterns = {"render", "audio", "binder", "main"}
          /\ ThreadTypePatterns["render"] = <<around("RenderThread"), around("GL"), around("Vk")>>
          /\ ThreadTypePatterns["audio"] = <<around("Audio"), around("Sound")>>
          /\ ThreadTypePatterns["binder"] = <<around("Binder:")>>
          /\ ThreadTypePatterns["main"] = <<around("main")>>
      BY DEF ThreadTypePatterns, around
    <3>3. \E word : 1 \in DOMAIN ThreadTypePatterns[y] /\ ThreadTypePatterns[y][1] = around(word)
      BY <2>1, <3>2
    <3> QED BY <3>1, <3>3, RulesAssumption
  <2> HIDE DEF to, hasAny
  <2>3. \E rc \in Range(to(ThreadTypePatterns[y][1], app.types[y])) : Is(rc)
    BY <1>3, <1>4, <1>7, <2>1, <2>2
  <2>4. y \in Types
    BY <2>1 DEF Types
  <2> HIDE DEF Is
  <2> DEFINE ofTypes == UNION {UNION {Range(to(ThreadTypePatterns[z][i], app.types[z])) : i \in DOMAIN ThreadTypePatterns[z]} : z \in Types}
  <2>5. \E rc \in ofTypes : Is(rc)
    BY <2>2, <2>3, <2>4
  <2>6. ofTypes \subseteq RulesOf(given, clusters)
    BY <1>2
  <2> QED BY <2>5, <2>6
<1>8. CASE ~hasAny
  <2> DEFINE rc == [pkg |-> app.pkg, thread |-> <<>>, cpus |-> <<>>, sched |-> {}, nice |-> {},
                    uclampMin |-> {}, uclampMax |-> {}]
  <2>1. Placeholder(app) = <<rc>>
    BY DEF Placeholder
  <2>2. Is(rc)
    BY <1>1, RulesAssumption DEF IsValid
  <2> HIDE DEF rc
  <2>3. rc \in Range(<<rc>>)
    BY DEF Range
  <2>4. Range(IF hasAny THEN <<>> ELSE Placeholder(app)) = Range(<<rc>>)
    BY <1>8, <2>1
  <2> HIDE DEF hasAny, to
  <2>5. rc \in RulesOf(given, clusters)
    BY <1>2, <2>3, <2>4
  <2> QED BY <2>2, <2>5
<1> QED BY <1>5, <1>6, <1>7, <1>8

=============================================================================
