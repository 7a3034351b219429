--------------------------- MODULE AdaptiveRelock ---------------------------
(***************************************************************************)
(* The adaptive relock period of core/src/relock.rs (AdaptiveRelock), as   *)
(* the daemon drives it: one call of observe_ratio per coverage sample,    *)
(* with the share of tracked processes that Android has moved out of the   *)
(* daemon's cpusets.                                                       *)
(*                                                                         *)
(* The share matters in three ways only: none, below COVER_RATIO_SHRINK,   *)
(* or at least that.                                                       *)
(***************************************************************************)
EXTENDS Integers, Sequences, FiniteSets

CONSTANTS
    Ranks,          \* number of periods in INTERVALS_SECS, shortest first
    InitialRanks,   \* ranks from_initial can choose for lock-interval
    WindowSamples,  \* WINDOW_SAMPLES
    SampleSecs,     \* SAMPLE_INTERVAL_SECS
    StableSecs      \* STABLE_SECS_EXTEND

ASSUME PeriodsAssumption ==
    /\ Ranks \in Nat \ {0}
    /\ InitialRanks \subseteq 0..(Ranks - 1)
    /\ WindowSamples \in Nat \ {0}
    /\ SampleSecs \in Nat \ {0}
    /\ StableSecs \in Nat \ {0}

Coverages == {"none", "some", "most"}

VARIABLES
    rank,      \* index of the present period
    samples,   \* the window: for each sample, whether most were covered
    stable,    \* stable_secs
    coverage,  \* the latest sample
    calm,      \* history: seconds since a sample found coverage or the rank changed
    attack     \* history: consecutive samples that found most covered

vars == <<rank, samples, stable, coverage, calm, attack>>

\* Samples it takes to fill the window and then to go down every rank.
AttackSamples == WindowSamples + Ranks - 2

Window == 1..WindowSamples
Least(m, n) == IF m <= n THEN m ELSE n

\* push_back, then pop_front when the window is full.
Slid(most) ==
    IF Len(samples) < WindowSamples THEN Append(samples, most)
    ELSE Append(Tail(samples), most)

\* At least half of the samples in window w found most processes covered.
\* Defect: counts the samples that found nothing.
PersistentCalm(w) == 2 * Cardinality({i \in DOMAIN w : ~w[i]}) >= Len(w)

Persistent(w) == 2 * Cardinality({i \in DOMAIN w : w[i]}) >= Len(w)

Shorten == rank' = (IF rank = 0 THEN 0 ELSE rank - 1) /\ stable' = 0

Settle ==
    IF stable + SampleSecs >= StableSecs
    THEN stable' = 0 /\ rank' = Least(rank + 1, Ranks - 1)
    ELSE stable' = stable + SampleSecs /\ rank' = rank

\* Defect: a sample below the threshold counts as calm (BUG-H1).
ObserveMajority(c) ==
    /\ samples' = Slid(c = "most")
    /\ IF Len(samples') < WindowSamples THEN UNCHANGED <<rank, stable>>
       ELSE IF Persistent(samples') THEN Shorten ELSE Settle
    /\ coverage' = c
    /\ calm' = IF c # "none" \/ rank' # rank THEN 0
               ELSE Least(calm + SampleSecs, StableSecs)
    /\ attack' = IF c = "most" THEN Least(attack + 1, AttackSamples) ELSE 0

(***************************************************************************)
(* observe_ratio: nothing is decided until the window is full.             *)
(***************************************************************************)
ObserveRatio(c) ==
    /\ samples' = Slid(c = "most")
    /\ IF Len(samples') < WindowSamples THEN UNCHANGED <<rank, stable>>
       ELSE \/ Persistent(samples') /\ Shorten
            \/ ~Persistent(samples') /\ c = "none" /\ Settle
            \/ ~Persistent(samples') /\ c # "none" /\ stable' = 0 /\ rank' = rank
    /\ coverage' = c
    /\ calm' = IF c # "none" \/ rank' # rank THEN 0
               ELSE Least(calm + SampleSecs, StableSecs)
    /\ attack' = IF c = "most" THEN Least(attack + 1, AttackSamples) ELSE 0

Init ==
    /\ rank \in InitialRanks
    /\ samples = <<>> /\ stable = 0
    /\ coverage = "none" /\ calm = 0 /\ attack = 0

Next == \E c \in Coverages : ObserveRatio(c)

Spec == Init /\ [][Next]_vars

-----------------------------------------------------------------------------
TypeOK ==
    /\ rank \in 0..(Ranks - 1)
    /\ samples \in Seq(BOOLEAN) /\ Len(samples) <= WindowSamples
    /\ stable \in 0..(StableSecs - 1)
    /\ coverage \in Coverages
    /\ calm \in 0..StableSecs /\ attack \in 0..AttackSamples

(***************************************************************************)
(* The period is lengthened only after StableSecs in which no sample found *)
(* any coverage and the period was not shortened: an attack that has just  *)
(* ended, or a partial one, does not relax the defence (relock.rs,         *)
(* BUG-H1). calm is what preceded the sample.                              *)
(***************************************************************************)
LengthenedOnlyWhenCalm ==
    [][rank' > rank => coverage' = "none" /\ calm + SampleSecs >= StableSecs]_vars

\* Why: the stability counter never runs ahead of the calm there was, and
\* does not run before the window is full.
CalmCoversStable ==
    stable <= calm /\ (Len(samples) < WindowSamples => stable = 0)

(***************************************************************************)
(* Coverage that lasts brings the period down to its shortest as soon as   *)
(* the window allows: it is not held up by samples of the time before, and *)
(* no rank is left out of the descent.                                     *)
(***************************************************************************)
AttackIsMet == attack = AttackSamples => rank = 0

=============================================================================
