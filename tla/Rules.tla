-------------------------------- MODULE Rules --------------------------------
(***************************************************************************)
(* From a configuration to the policy of a thread, as operators: the       *)
(* expansion of applications and profiles into rules (core/src/config.rs,  *)
(* profile.rs), their compilation and matching (ruleset.rs) and the merge  *)
(* of what matches (merge.rs).                                             *)
(*                                                                         *)
(* A field that may be absent is a set of at most one value. Names and     *)
(* patterns are sequences of tokens, among which "*" and "?" are           *)
(* wildcards; a token counts as one character. A configuration is a set of *)
(* applications; the code keeps applications, threads and thread types in  *)
(* hash maps, so that any order of them is one it may see.                 *)
(***************************************************************************)
EXTENDS Topology

CONSTANTS
    MaxPkgLen,         \* MAX_PKG_LEN
    MaxThreadLen,      \* MAX_THREAD_LEN
    PrefixWeight,      \* 100 in pattern_specificity
    WildcardWeight,    \* 10 in pattern_specificity
    WordModulus        \* the number of values of a usize

ASSUME RulesAssumption ==
    /\ MaxPkgLen \in Nat /\ MaxThreadLen \in Nat /\ MaxThreadLen > 3
    /\ PrefixWeight \in Nat /\ WildcardWeight \in Nat /\ WordModulus \in Nat \ {0}
    /\ (PrefixWeight + 1) * MaxPkgLen < WordModulus

Wildcards == {"*", "?"}
Prefer(a, b) == IF a # {} THEN a ELSE b

\* The elements of a sequence that are in S, in their order.
Keep(seq, S) ==
    LET keep(out, x) == IF x \in S THEN Append(out, x) ELSE out
    IN FoldLeft(keep, <<>>, seq)

\* The sequences of a sequence, one after the other.
Joined(seqs) ==
    LET join(out, seq) == out \o seq
    IN FoldLeft(join, <<>>, seqs)

\* A field that may be absent.
Optional(S) == {v \in SUBSET S : \A x, y \in v : x = y}

-----------------------------------------------------------------------------
(* Configurations and profiles. A PolicyModel names a cluster, or writes a *)
(* range in its place, or gives the CPUs.                                  *)

\* Strings are strings, which the provers do not know.
ASSUME LiteralsAssumption ==
    {"*", "?", "RenderThread", "GL", "Vk", "Audio", "Sound", "Binder:", "main", "render", "audio",
     "binder", "big", "little", "prime", "rr", "fifo"} \subseteq STRING

Names == Seq(STRING)
RangeStrings == Seq(Int \X Int)
Scheds == [kind : STRING, prio : Int]
PolicyModels ==
    [cluster : Optional([kind : STRING, range : RangeStrings]), cpus : Optional(RangeStrings),
     sched : Optional(Scheds), nice : Optional(Int), uclampMin : Optional(Int),
     uclampMax : Optional(Int)]

\* A map from some of the keys to policies.
IsPolicyMap(map, Keys) ==
    /\ IsFiniteSet(DOMAIN map)
    /\ \A k \in DOMAIN map : k \in Keys /\ map[k] \in PolicyModels

IsApplication(app) ==
    /\ app.pkg \in Names /\ app.default \in PolicyModels
    /\ IsPolicyMap(app.threads, Names) /\ IsPolicyMap(app.types, STRING)

DefaultModel == [cluster |-> {}, cpus |-> {}, sched |-> {}, nice |-> {},
                 uclampMin |-> {}, uclampMax |-> {}]
InCluster(kind) == [DefaultModel EXCEPT !.cluster = {[kind |-> kind, range |-> <<>>]}]
Realtime(kind, prio) == {[kind |-> kind, prio |-> prio]}

NoProfile == [default |-> DefaultModel, threads |-> <<>>, types |-> <<>>]

BuiltinProfiles ==
    LET render(model) == [t \in {<<"RenderThread">>} |-> model]
        audioBig == [InCluster("big") EXCEPT !.sched = Realtime("rr", 30)]
    IN [name \in {"game", "audio", "launcher", "balanced", "power-save", "chat", "video"} |->
          CASE name = "game" ->
                 [default |-> InCluster("big"), threads |-> <<>>,
                  types |-> [render |-> [InCluster("prime") EXCEPT !.uclampMin = {700}],
                             audio |-> InCluster("little")]]
            [] name = "audio" ->
                 [default |-> InCluster("little"), threads |-> <<>>, types |-> [audio |-> audioBig]]
            [] name = "launcher" ->
                 [default |-> InCluster("big"), types |-> <<>>,
                  threads |-> render([InCluster("prime") EXCEPT !.sched = Realtime("fifo", 60)])]
            [] name = "balanced" -> [NoProfile EXCEPT !.default = InCluster("big")]
            [] name = "power-save" -> [NoProfile EXCEPT !.default = InCluster("little")]
            [] name = "chat" ->
                 [default |-> InCluster("big"), threads |-> render(InCluster("prime")),
                  types |-> [audio |-> audioBig]]
            [] name = "video" ->
                 [default |-> InCluster("little"), threads |-> render(InCluster("big")),
                  types |-> [audio |-> InCluster("big")]]]

\* THREAD_TYPE_ALIASES, thread_type_patterns.
ThreadTypePatterns ==
    LET around(word) == <<"*", word, "*">>
    IN [render |-> <<around("RenderThread"), around("GL"), around("Vk")>>,
        audio |-> <<around("Audio"), around("Sound")>>,
        binder |-> <<around("Binder:")>>,
        main |-> <<around("main")>>]

\* override_policy: of cpus and cluster, what the user gives drops the other.
OverridePolicy(base, user) ==
    [cluster |-> IF user.cpus # {} THEN {} ELSE Prefer(user.cluster, base.cluster),
     cpus |-> IF user.cpus \cup user.cluster # {} THEN user.cpus ELSE base.cpus,
     sched |-> Prefer(user.sched, base.sched),
     nice |-> Prefer(user.nice, base.nice),
     uclampMin |-> Prefer(user.uclampMin, base.uclampMin),
     uclampMax |-> Prefer(user.uclampMax, base.uclampMax)]

OverrideEach(base, user) ==
    [k \in DOMAIN base \cup DOMAIN user |->
        IF k \notin DOMAIN user THEN base[k]
        ELSE OverridePolicy(IF k \in DOMAIN base THEN base[k] ELSE DefaultModel, user[k])]

\* The application with its profile filled in; an unknown name is no profile.
WithProfile(app) ==
    LET profile == IF app.profile \in DOMAIN BuiltinProfiles
                   THEN BuiltinProfiles[app.profile] ELSE NoProfile
    IN [pkg |-> app.pkg,
        default |-> OverridePolicy(profile.default, app.default),
        threads |-> OverrideEach(profile.threads, app.threads),
        types |-> OverrideEach(profile.types, app.types)]

HasCpus(model) == model.cpus # {} \/ model.cluster # {}
HasAnyPolicy(model) == model # DefaultModel

\* The range of a cluster, by its name; a range written in place of a name;
\* else that of the big cluster, else that of the largest capacity.
ClusterRange(cluster, clusters) ==
    LET all == Range(clusters)
        named(kind) == Keep(clusters, {c \in all : c.kind = kind})
    IN IF named(cluster.kind) # <<>> THEN {ToRangeString(Head(named(cluster.kind)).cpus)}
       ELSE IF cluster.kind = "numeric" THEN {cluster.range}
       ELSE IF named("big") # <<>> THEN {ToRangeString(Head(named("big")).cpus)}
       ELSE {ToRangeString(c.cpus) : c \in {d \in all : \A e \in all : e.capacity <= d.capacity}}

\* policy_to_rules: no rule of a policy without any field.
PolicyToRules(pkg, thread, model, clusters) ==
    LET ranges == Prefer(model.cpus, UNION {ClusterRange(n, clusters) : n \in model.cluster})
    IN IF ~HasAnyPolicy(model) THEN <<>>
       ELSE <<[pkg |-> pkg, thread |-> thread,
               cpus |-> IF ranges = {} THEN <<>> ELSE CHOOSE r \in ranges : TRUE,
               sched |-> model.sched, nice |-> model.nice,
               uclampMin |-> model.uclampMin, uclampMax |-> model.uclampMax]>>

\* The rule that only puts the package on the whitelist.
\* Defect: it is left out.
NoPlaceholder(app) == <<>>

Placeholder(app) ==
    <<[pkg |-> app.pkg, thread |-> <<>>, cpus |-> <<>>, sched |-> {}, nice |-> {},
       uclampMin |-> {}, uclampMax |-> {}]>>

\* The rules of one application: its default, its threads, its thread types.
AppExpansions(given, clusters) ==
    LET app == WithProfile(given)
        default == PolicyToRules(app.pkg, <<>>, app.default, clusters)
        ofThread(t) == PolicyToRules(app.pkg, t, app.threads[t], clusters)
        ofType(y) == Joined([i \in DOMAIN ThreadTypePatterns[y] |->
                        PolicyToRules(app.pkg, ThreadTypePatterns[y][i], app.types[y], clusters)])
        hasAny == \/ default # <<>>
                  \/ \E t \in DOMAIN app.threads : HasCpus(app.threads[t])
                  \/ \E y \in DOMAIN app.types : HasCpus(app.types[y])
    IN {default \o Joined([i \in DOMAIN ts |-> ofThread(ts[i])])
                \o Joined([i \in DOMAIN ys |-> ofType(ys[i])])
                \o (IF hasAny THEN <<>> ELSE Placeholder(app)) :
          ts \in SetToSeqs(DOMAIN app.threads),
          ys \in SetToSeqs(DOMAIN app.types \cap DOMAIN ThreadTypePatterns)}

\* to_rules_with_clusters: every list of rules the configuration may become.
Expansions(config, clusters) ==
    LET of == [app \in config |-> AppExpansions(app, clusters)]
        choices == {f \in [config -> UNION Range(of)] : \A app \in config : f[app] \in of[app]}
    IN {Joined([i \in DOMAIN order |-> f[order[i]]]) :
          order \in SetToSeqs(config), f \in choices}

-----------------------------------------------------------------------------
(* Compilation.                                                            *)

\* An unknown scheduling policy is as none.
SchedSpec(sched) == {s \in sched : s.kind \in {"other", "fifo", "rr", "batch", "idle"}}

IsValid(rc, present) ==
    /\ rc.pkg # <<>> /\ Len(rc.pkg) < MaxPkgLen
    /\ Len(rc.thread) < MaxThreadLen
    /\ rc.cpus # <<>> => ParseCpuRanges(rc.cpus, present) # {}

CompileRule(rc, present) ==
    LET cpus == ParseCpuRanges(rc.cpus, present)
    IN [pkg |-> rc.pkg, thread |-> rc.thread,
        policy |-> [cpus |-> cpus, cpusetDir |-> ToRangeString(cpus),
                    sched |-> SchedSpec(rc.sched), nice |-> rc.nice,
                    uclampMin |-> rc.uclampMin, uclampMax |-> rc.uclampMax]]

\* compile: a rule that is not valid is skipped.
Compile(configs, topo) ==
    LET valid == Keep(configs, {rc \in Range(configs) : IsValid(rc, topo.present)})
    IN [i \in DOMAIN valid |-> CompileRule(valid[i], topo.present)]

-----------------------------------------------------------------------------
(* Matching.                                                               *)

\* fnmatch, without bracket expressions: from the places of the name that the
\* pattern read so far can have come to, those that its next token leads to.
Fnmatch(pattern, name) ==
    LET advance(places, token) ==
          IF token = "*" THEN {j \in 0..Len(name) : \E i \in places : i <= j}
          ELSE {i + 1 : i \in {j \in places : j < Len(name) /\ token \in {"?", name[j + 1]}}}
    IN Len(name) \in FoldLeft(advance, {0}, pattern)

ContainsWildcard(pattern) == Range(pattern) \cap Wildcards # {}

WildcardPlaces(pattern) == {i \in DOMAIN pattern : pattern[i] \in Wildcards}

\* The length of what comes before the first wildcard.
FixedPrefix(pattern) == Min(WildcardPlaces(pattern) \cup {Len(pattern) + 1}) - 1

\* pattern_specificity, in unsigned arithmetic that wraps around.
\* Defect: a longer pattern is taken for a more specific one.
SpecificityByLength(pattern) == Len(pattern)

PatternSpecificity(pattern) ==
    LET wildcards == Cardinality(WildcardPlaces(pattern))
    IN (PrefixWeight * FixedPrefix(pattern) + Len(pattern) - wildcards
          - WildcardWeight * wildcards) % WordModulus

\* The patterns of the wildcard rules, in the order of their first rules.
WildcardGroups(rules) ==
    LET patterns == [i \in DOMAIN rules |-> rules[i].pkg]
        new(groups, pattern) ==
            IF ContainsWildcard(pattern) /\ ~Contains(groups, pattern)
            THEN Append(groups, pattern) ELSE groups
    IN FoldLeft(new, <<>>, patterns)

\* The loop over the groups: a group replaces the best so far if it scores
\* more; a score of 0 never does. best is the set of at most one pattern.
BestWildcard(rules, pkg) ==
    LET score(best) == IF best = {} THEN 0 ELSE PatternSpecificity(CHOOSE b \in best : TRUE)
        better(best, pattern) ==
            IF PatternSpecificity(pattern) > score(best) /\ Fnmatch(pattern, pkg)
            THEN {pattern} ELSE best
    IN FoldLeft(better, {}, WildcardGroups(rules))

RuleMatches(rules, source, patterns) ==
    LET hits == Keep(rules, {r \in Range(rules) : r.pkg \in patterns})
    IN [k \in DOMAIN hits |-> [rule |-> hits[k], source |-> source]]

\* collect_pkg_matches (its cache holds what it returns, for one rule set):
\* the rules of the package itself, then those of the best wildcard.
CollectPkgMatches(rules, pkg) ==
    RuleMatches(rules, "PackageExact", IF ContainsWildcard(pkg) THEN {} ELSE {pkg})
    \o RuleMatches(rules, "PackageWildcard", BestWildcard(rules, pkg))

IsInterested(rules, pkg) == CollectPkgMatches(rules, pkg) # <<>>

-----------------------------------------------------------------------------
(* Merging.                                                                *)

NoPolicy == [cpus |-> {}, cpusetDir |-> <<>>, sched |-> {}, nice |-> {},
             uclampMin |-> {}, uclampMax |-> {}]

Highest(a, b) == IF a \cup b = {} THEN {} ELSE {Max(a \cup b)}
Lowest(a, b) == IF a \cup b = {} THEN {} ELSE {Min(a \cup b)}

\* One step of the loop of merge_rules, over matches sorted by the priority of
\* their sources. acc.group gathers the CPUs of the source at hand; when
\* another source begins, they become the policy's if none had any before.
Flushed(acc) == IF acc.cpus = {} THEN acc.group ELSE acc.cpus

\* Defects: a group is not flushed when the next begins; the first rule of a
\* group that has CPUs decides.
MergeRuleUnflushed(acc, match) ==
    LET p == match.rule.policy
    IN [cpus |-> acc.cpus,
        group |-> acc.group \cup p.cpus,
        source |-> match.source,
        sched |-> Prefer(acc.sched, p.sched), nice |-> Prefer(acc.nice, p.nice),
        uclampMin |-> Highest(acc.uclampMin, p.uclampMin),
        uclampMax |-> Lowest(acc.uclampMax, p.uclampMax)]
MergeRuleFirst(acc, match) ==
    LET p == match.rule.policy
    IN [cpus |-> IF match.source = acc.source THEN acc.cpus ELSE Flushed(acc),
        group |-> Prefer(IF match.source = acc.source THEN acc.group ELSE {}, p.cpus),
        source |-> match.source,
        sched |-> Prefer(acc.sched, p.sched), nice |-> Prefer(acc.nice, p.nice),
        uclampMin |-> Highest(acc.uclampMin, p.uclampMin),
        uclampMax |-> Lowest(acc.uclampMax, p.uclampMax)]

MergeRule(acc, match) ==
    LET p == match.rule.policy
    IN [cpus |-> IF match.source = acc.source THEN acc.cpus ELSE Flushed(acc),
        group |-> (IF match.source = acc.source THEN acc.group ELSE {}) \cup p.cpus,
        source |-> match.source,
        sched |-> Prefer(acc.sched, p.sched), nice |-> Prefer(acc.nice, p.nice),
        uclampMin |-> Highest(acc.uclampMin, p.uclampMin),
        uclampMax |-> Lowest(acc.uclampMax, p.uclampMax)]

NothingMerged == [cpus |-> {}, group |-> {}, source |-> "none", sched |-> {}, nice |-> {},
                  uclampMin |-> {}, uclampMax |-> {}]

\* merge_rules: no policy when no field is set.
MergeRules(matches) ==
    LET of(source) == Keep(matches, {m \in Range(matches) : m.source = source})
        sorted == of("PackageExact") \o of("PackageWildcard")
        end == FoldLeft(MergeRule, NothingMerged, sorted)
        merged == [cpus |-> Flushed(end), cpusetDir |-> ToRangeString(Flushed(end)),
                   sched |-> end.sched, nice |-> end.nice,
                   uclampMin |-> end.uclampMin, uclampMax |-> end.uclampMax]
    IN IF merged = NoPolicy THEN {} ELSE {merged}

\* fill_missing.
FillMissing(primary, fallback) ==
    [cpus |-> Prefer(primary.cpus, fallback.cpus), cpusetDir |-> primary.cpusetDir,
     sched |-> Prefer(primary.sched, fallback.sched),
     nice |-> Prefer(primary.nice, fallback.nice),
     uclampMin |-> Prefer(primary.uclampMin, fallback.uclampMin),
     uclampMax |-> Prefer(primary.uclampMax, fallback.uclampMax)]

\* resolve: the rules of the thread filled up with those of the package, or
\* these alone; nothing when neither CPUs nor scheduling come of it.
\* Defect: the directory is not named anew.
ResolveStaleDir(rules, pkg, thread) ==
    LET matches == CollectPkgMatches(rules, pkg)
        threadHits == Keep(matches, {m \in Range(matches) :
                                       m.rule.thread # <<>> /\ Fnmatch(m.rule.thread, thread)})
        pkgPolicy == MergeRules(Keep(matches, {m \in Range(matches) : m.rule.thread = <<>>}))
        policies == IF threadHits = <<>> THEN pkgPolicy
                    ELSE {FillMissing(p, f) : p \in MergeRules(threadHits),
                                              f \in Prefer(pkgPolicy, {NoPolicy})}
    IN {p \in policies : p.cpus # {} \/ p.sched # {} \/ p.nice # {}}

Resolve(rules, pkg, thread) ==
    LET matches == CollectPkgMatches(rules, pkg)
        threadHits == Keep(matches, {m \in Range(matches) :
                                       m.rule.thread # <<>> /\ Fnmatch(m.rule.thread, thread)})
        pkgPolicy == MergeRules(Keep(matches, {m \in Range(matches) : m.rule.thread = <<>>}))
        policies == IF threadHits = <<>> THEN pkgPolicy
                    ELSE {FillMissing(p, f) : p \in MergeRules(threadHits),
                                              f \in Prefer(pkgPolicy, {NoPolicy})}
    IN {[p EXCEPT !.cpusetDir = ToRangeString(p.cpus)] :
          p \in {q \in policies : q.cpus # {} \/ q.sched # {} \/ q.nice # {}}}

=============================================================================
