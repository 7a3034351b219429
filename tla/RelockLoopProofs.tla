-------------------------- MODULE RelockLoopProofs --------------------------
(* The relock period and the loop that drives it, for all constants.       *)
EXTENDS RelockLoop, FiniteSetTheorems, SequenceTheorems, TLAPS

-----------------------------------------------------------------------------
(* The period is lengthened only after a calm time (AdaptiveRelock).        *)

RelockInv == TypeOK /\ CalmCoversStable

(***************************************************************************)
(* The window keeps its length within WINDOW_SAMPLES.                      *)
(***************************************************************************)
LEMMA SlidWindow ==
    ASSUME TypeOK, NEW most \in BOOLEAN
    PROVE  /\ Slid(most) \in Seq(BOOLEAN)
           /\ Len(samples) <= Len(Slid(most)) /\ Len(Slid(most)) <= WindowSamples
<1>1. samples \in Seq(BOOLEAN) /\ Len(samples) \in Nat /\ Len(samples) <= WindowSamples
  BY DEF TypeOK
<1>2. CASE Len(samples) < WindowSamples
  <2>1. Append(samples, most) \in Seq(BOOLEAN) /\ Len(Append(samples, most)) = Len(samples) + 1
    BY <1>1
  <2> QED BY <1>1, <1>2, <2>1, PeriodsAssumption DEF Slid
<1>3. CASE ~(Len(samples) < WindowSamples)
  <2>1. samples # <<>>
    BY <1>1, <1>3, PeriodsAssumption
  <2>2. Tail(samples) \in Seq(BOOLEAN) /\ Len(Tail(samples)) = Len(samples) - 1
    BY <1>1, <2>1
  <2>3. /\ Append(Tail(samples), most) \in Seq(BOOLEAN)
        /\ Len(Append(Tail(samples), most)) = Len(samples)
    BY <1>1, <2>2
  <2> QED BY <1>1, <1>3, <2>3 DEF Slid
<1> QED BY <1>2, <1>3

(***************************************************************************)
(* One sample: the rank stays in range, the counter behind the calm, and   *)
(* the rank grows only at the end of a calm time.                          *)
(***************************************************************************)
LEMMA SampleStep ==
    ASSUME RelockInv, NEW c \in Coverages, ObserveRatio(c)
    PROVE  /\ RelockInv'
           /\ rank' > rank => coverage' = "none" /\ calm + SampleSecs >= StableSecs
<1> USE PeriodsAssumption
<1>1. /\ samples' \in Seq(BOOLEAN)
      /\ Len(samples) <= Len(samples') /\ Len(samples') <= WindowSamples
      /\ Len(samples) \in Nat /\ Len(samples') \in Nat
  <2>1. TypeOK /\ (c = "most") \in BOOLEAN
    BY DEF RelockInv
  <2>2. /\ Slid(c = "most") \in Seq(BOOLEAN)
        /\ Len(samples) <= Len(Slid(c = "most")) /\ Len(Slid(c = "most")) <= WindowSamples
    BY <2>1, SlidWindow
  <2>3. samples' = Slid(c = "most")
    BY DEF ObserveRatio
  <2>4. Len(samples) \in Nat
    BY <2>1 DEF TypeOK
  <2>5. Len(Slid(c = "most")) \in Nat
    BY <2>2
  <2> QED BY <2>2, <2>3, <2>4, <2>5
<1>2. /\ rank \in Int /\ 0 <= rank /\ rank <= Ranks - 1
      /\ stable \in Int /\ 0 <= stable /\ stable <= StableSecs - 1
      /\ calm \in Int /\ 0 <= calm /\ calm <= StableSecs /\ stable <= calm
      /\ Len(samples) < WindowSamples => stable = 0
  BY DEF RelockInv, TypeOK, CalmCoversStable
<1>3. /\ coverage' = c
      /\ calm' = IF c # "none" \/ rank' # rank THEN 0 ELSE Least(calm + SampleSecs, StableSecs)
  BY DEF ObserveRatio
<1>4. \/ Len(samples') < WindowSamples /\ rank' = rank /\ stable' = stable /\ stable = 0
      \/ Len(samples') = WindowSamples /\ Shorten
      \/ Len(samples') = WindowSamples /\ c = "none" /\ Settle
      \/ Len(samples') = WindowSamples /\ stable' = 0 /\ rank' = rank
  BY <1>1, <1>2 DEF ObserveRatio
<1>8. attack' \in 0..AttackSamples
  BY <1>1, <1>3 DEF RelockInv, TypeOK, ObserveRatio, AttackSamples, Least
<1>5. rank' \in 0..(Ranks - 1) /\ stable' \in 0..(StableSecs - 1) /\ calm' \in 0..StableSecs
  BY <1>2, <1>3, <1>4 DEF Shorten, Settle, Least
<1>6. rank' > rank => c = "none" /\ calm + SampleSecs >= StableSecs
  BY <1>2, <1>4 DEF Shorten, Settle, Least
<1>7. CalmCoversStable'
  BY <1>1, <1>2, <1>3, <1>4, <1>5 DEF CalmCoversStable, Shorten, Settle, Least
<1> QED BY <1>1, <1>3, <1>5, <1>6, <1>7, <1>8 DEF RelockInv, TypeOK

(***************************************************************************)
(* The relock period's state keeps its types, and the stability counter    *)
(* never exceeds the calm time there was.                                  *)
(***************************************************************************)
THEOREM RelockInvariant == Spec => []RelockInv
<1>1. Init => RelockInv
  BY PeriodsAssumption DEF Init, RelockInv, TypeOK, CalmCoversStable, Coverages, AttackSamples
<1>2. RelockInv /\ [Next]_vars => RelockInv'
  <2> SUFFICES ASSUME RelockInv, [Next]_vars PROVE RelockInv'
    OBVIOUS
  <2>1. CASE Next BY <2>1, SampleStep DEF Next
  <2>2. CASE UNCHANGED vars BY <2>2 DEF vars, RelockInv, TypeOK, CalmCoversStable
  <2> QED BY <2>1, <2>2
<1> QED BY <1>1, <1>2, PTL DEF Spec

(***************************************************************************)
(* observe_ratio lengthens the period only after StableSecs without any    *)
(* coverage and without a shortening, for every window and every scale of  *)
(* periods.                                                                *)
(***************************************************************************)
THEOREM PeriodLengthensWhenCalm == Spec => LengthenedOnlyWhenCalm
<1>1. RelockInv /\ [Next]_vars =>
         [rank' > rank => coverage' = "none" /\ calm + SampleSecs >= StableSecs]_vars
  <2> SUFFICES ASSUME RelockInv, [Next]_vars
               PROVE  [rank' > rank => coverage' = "none" /\ calm + SampleSecs >= StableSecs]_vars
    OBVIOUS
  <2>1. CASE Next BY <2>1, SampleStep DEF Next
  <2>2. CASE UNCHANGED vars BY <2>2
  <2> QED BY <2>1, <2>2
<1> QED BY <1>1, RelockInvariant, PTL DEF Spec, LengthenedOnlyWhenCalm

(***************************************************************************)
(* Why AttackIsMet holds: the samples of an attack are the last of the     *)
(* window, and once they fill it each of them has shortened the period.    *)
(***************************************************************************)
AttackInv ==
    /\ RelockInv
    /\ attack < WindowSamples => attack <= Len(samples)
    /\ attack >= WindowSamples => Len(samples) = WindowSamples
    /\ \A i \in 1..Len(samples) : i > Len(samples) - attack => samples[i]
    /\ attack >= WindowSamples => rank <= Ranks - 2 - (attack - WindowSamples)

(***************************************************************************)
(* A window filled by the attack is one that persists.                     *)
(***************************************************************************)
LEMMA FullWindowPersists ==
    ASSUME NEW w \in Seq(BOOLEAN), \A i \in 1..Len(w) : w[i]
    PROVE  Persistent(w)
<1>1. DOMAIN w = 1..Len(w) /\ Len(w) \in Nat
  OBVIOUS
<1>2. {i \in DOMAIN w : w[i]} = 1..Len(w)
  BY <1>1
<1>3. Cardinality(1..Len(w)) = Len(w)
  BY <1>1, FS_Interval
<1>4. Cardinality({i \in DOMAIN w : w[i]}) = Len(w)
  BY <1>2, <1>3
<1>5. 2 * Len(w) >= Len(w)
  BY <1>1
<1>6. 2 * Cardinality({i \in DOMAIN w : w[i]}) >= Len(w)
  BY <1>4, <1>5
<1> QED BY <1>6 DEF Persistent

(***************************************************************************)
(* Sliding the window by one more sample of a kind keeps the samples of    *)
(* this kind last: n of them before, n + 1 after.                          *)
(***************************************************************************)
LEMMA SlidKeepsLast ==
    ASSUME TypeOK, NEW n \in Nat, NEW most \in BOOLEAN,
           n < WindowSamples => n <= Len(samples),
           n >= WindowSamples => Len(samples) = WindowSamples,
           \A i \in 1..Len(samples) : i > Len(samples) - n => samples[i] = most
    PROVE  /\ n + 1 < WindowSamples => n + 1 <= Len(Slid(most))
           /\ n + 1 >= WindowSamples => Len(Slid(most)) = WindowSamples
           /\ \A i \in 1..Len(Slid(most)) :
                  i > Len(Slid(most)) - (n + 1) => Slid(most)[i] = most
<1> DEFINE kept == IF Len(samples) < WindowSamples THEN samples ELSE Tail(samples)
<1>1. /\ samples \in Seq(BOOLEAN) /\ Len(samples) \in Nat /\ Len(samples) <= WindowSamples
      /\ n \in Nat /\ WindowSamples \in Nat \ {0}
      /\ n < WindowSamples => n <= Len(samples)
      /\ n >= WindowSamples => Len(samples) = WindowSamples
  BY PeriodsAssumption DEF TypeOK
<1>2. \A i \in 1..Len(samples) : i > Len(samples) - n => samples[i] = most
  OBVIOUS
<1>3. Slid(most) = Append(kept, most)
  BY DEF Slid
<1>4. /\ kept \in Seq(BOOLEAN) /\ Len(kept) \in Nat
      /\ Len(samples) < WindowSamples => Len(kept) = Len(samples)
      /\ ~(Len(samples) < WindowSamples) => Len(kept) = WindowSamples - 1
      /\ \A i \in 1..Len(kept) : i > Len(kept) - n => kept[i] = most
  <2>1. CASE Len(samples) < WindowSamples
    BY <1>1, <1>2, <2>1
  <2>2. CASE ~(Len(samples) < WindowSamples)
    <3>1. samples # <<>> /\ Len(samples) = WindowSamples /\ kept = Tail(samples)
      BY <1>1, <2>2
    <3>2. /\ Tail(samples) \in Seq(BOOLEAN) /\ Len(Tail(samples)) = Len(samples) - 1
          /\ \A i \in 1..Len(Tail(samples)) : Tail(samples)[i] = samples[i + 1]
      BY <1>1, <3>1, HeadTailProperties
    <3>3. \A i \in 1..Len(Tail(samples)) :
             i > Len(Tail(samples)) - n => i + 1 \in 1..Len(samples) /\ i + 1 > Len(samples) - n
      <4>1. \A m \in Nat \ {0} : \A i \in 1..(m - 1) :
               i > m - 1 - n => i + 1 \in 1..m /\ i + 1 > m - n
        BY <1>1
      <4>2. Len(samples) \in Nat \ {0}
        BY <1>1, <3>1
      <4> QED BY <3>2, <4>1, <4>2
    <3>4. \A i \in 1..Len(Tail(samples)) : i > Len(Tail(samples)) - n => Tail(samples)[i] = most
      BY <1>2, <3>2, <3>3
    <3> QED BY <1>1, <2>2, <3>1, <3>2, <3>4
  <2> QED BY <2>1, <2>2
<1> HIDE DEF kept
<1>5. /\ Len(Append(kept, most)) = Len(kept) + 1
      /\ \A i \in 1..Len(kept) : Append(kept, most)[i] = kept[i]
      /\ Append(kept, most)[Len(kept) + 1] = most
  BY <1>4, AppendProperties
<1>6. \A i \in 1..(Len(kept) + 1) : i > Len(kept) - n => Append(kept, most)[i] = most
  <2> TAKE i \in 1..(Len(kept) + 1)
  <2> HAVE i > Len(kept) - n
  <2>1. CASE i \in 1..Len(kept)
    BY <1>4, <1>5, <2>1
  <2>2. CASE i = Len(kept) + 1
    BY <1>5, <2>2
  <2> QED BY <1>4, <2>1, <2>2
<1>7. (Len(kept) + 1) - (n + 1) = Len(kept) - n
  BY <1>1, <1>4
<1>8. /\ n + 1 < WindowSamples => n + 1 <= Len(kept) + 1
      /\ n + 1 >= WindowSamples => Len(kept) + 1 = WindowSamples
  BY <1>1, <1>4
<1> QED BY <1>3, <1>5, <1>6, <1>7, <1>8

\* The samples of an attack stay last.
LEMMA SlidKeepsAttack ==
    ASSUME AttackInv
    PROVE  /\ attack + 1 < WindowSamples => attack + 1 <= Len(Slid(TRUE))
           /\ attack + 1 >= WindowSamples => Len(Slid(TRUE)) = WindowSamples
           /\ \A i \in 1..Len(Slid(TRUE)) :
                  i > Len(Slid(TRUE)) - (attack + 1) => Slid(TRUE)[i]
<1>1. TypeOK /\ attack \in Nat
  BY PeriodsAssumption DEF AttackInv, RelockInv, TypeOK, AttackSamples
<1>2. samples \in Seq(BOOLEAN)
  BY <1>1 DEF TypeOK
<1>3. \A i \in 1..Len(samples) : i > Len(samples) - attack => samples[i] = TRUE
  BY <1>2 DEF AttackInv
<1>4. /\ attack < WindowSamples => attack <= Len(samples)
      /\ attack >= WindowSamples => Len(samples) = WindowSamples
  BY DEF AttackInv
<1> QED BY <1>1, <1>3, <1>4, SlidKeepsLast

(***************************************************************************)
(* AttackInv is kept by every sample.                                      *)
(***************************************************************************)
LEMMA AttackStep ==
    ASSUME AttackInv, NEW c \in Coverages, ObserveRatio(c)
    PROVE  AttackInv'
<1>1. RelockInv'
  BY SampleStep DEF AttackInv
<1>2. /\ attack \in Int /\ 0 <= attack /\ attack <= AttackSamples
      /\ rank \in Int /\ 0 <= rank /\ rank <= Ranks - 1
      /\ WindowSamples \in Nat \ {0} /\ Ranks \in Nat \ {0}
      /\ AttackSamples = WindowSamples + Ranks - 2
  BY PeriodsAssumption DEF AttackInv, RelockInv, TypeOK, AttackSamples
<1>3. CASE c # "most"
  <2>1. attack' = 0
    BY <1>3 DEF ObserveRatio
  <2>2. samples' \in Seq(BOOLEAN) /\ Len(samples') \in Nat
    BY <1>1 DEF RelockInv, TypeOK
  <2> QED BY <1>1, <1>2, <2>1, <2>2 DEF AttackInv
<1>4. CASE c = "most"
  <2>1. samples' = Slid(TRUE) /\ attack' = Least(attack + 1, AttackSamples)
    BY <1>4 DEF ObserveRatio
  <2>2. /\ attack + 1 < WindowSamples => attack + 1 <= Len(samples')
        /\ attack + 1 >= WindowSamples => Len(samples') = WindowSamples
        /\ \A i \in 1..Len(samples') : i > Len(samples') - (attack + 1) => samples'[i]
    BY <2>1, SlidKeepsAttack
  <2>3. samples' \in Seq(BOOLEAN) /\ Len(samples') \in Nat
    BY <1>1 DEF RelockInv, TypeOK
  <2>4. attack' \in Int /\ attack' <= attack + 1 /\ attack' <= AttackSamples
    BY <1>2, <2>1 DEF Least
  <2>5. /\ attack' < WindowSamples => attack' <= Len(samples')
        /\ attack' >= WindowSamples => Len(samples') = WindowSamples
        /\ \A i \in 1..Len(samples') : i > Len(samples') - attack' => samples'[i]
    <3>1. attack' < WindowSamples => attack' <= Len(samples')
      BY <1>2, <2>2, <2>3, <2>4
    <3>2. attack' >= WindowSamples => Len(samples') = WindowSamples
      BY <1>2, <2>2, <2>4
    <3>3. \A i \in 1..Len(samples') : i > Len(samples') - attack' => i > Len(samples') - (attack + 1)
      BY <1>2, <2>3, <2>4
    <3> QED BY <2>2, <3>1, <3>2, <3>3
  <2>6. attack' >= WindowSamples => rank' <= Ranks - 2 - (attack' - WindowSamples)
    <3> SUFFICES ASSUME attack' >= WindowSamples
                 PROVE  rank' <= Ranks - 2 - (attack' - WindowSamples)
      OBVIOUS
    <3>1. attack + 1 >= WindowSamples /\ Len(samples') = WindowSamples
      BY <1>2, <2>4, <2>5
    <3>2. \A i \in 1..Len(samples') : samples'[i]
      BY <1>2, <2>2, <3>1
    <3>3. Persistent(samples')
      BY <2>3, <3>2, FullWindowPersists
    <3>4. Shorten
      BY <1>2, <1>4, <3>1, <3>3 DEF ObserveRatio
    <3>5. rank' = IF rank = 0 THEN 0 ELSE rank - 1
      BY <3>4 DEF Shorten
    <3>6. attack >= WindowSamples => rank <= Ranks - 2 - (attack - WindowSamples)
      BY DEF AttackInv
    <3> QED BY <1>2, <2>1, <2>4, <3>1, <3>5, <3>6 DEF Least
  <2> QED BY <1>1, <2>5, <2>6 DEF AttackInv
<1> QED BY <1>3, <1>4

(***************************************************************************)
(* observe_ratio answers an attack in the least time the window allows:    *)
(* after WindowSamples + Ranks - 2 samples of coverage in a row, the       *)
(* period is the shortest there is.                                        *)
(***************************************************************************)
THEOREM AttackAnswered == Spec => []AttackIsMet
<1>1. Init => AttackInv
  <2> SUFFICES ASSUME Init PROVE AttackInv
    OBVIOUS
  <2>1. RelockInv
    BY PeriodsAssumption
       DEF Init, RelockInv, TypeOK, CalmCoversStable, Coverages, AttackSamples
  <2>2. samples = <<>> /\ Len(samples) = 0 /\ attack = 0
    BY DEF Init
  <2> QED BY <2>1, <2>2, PeriodsAssumption DEF AttackInv
<1>2. AttackInv /\ [Next]_vars => AttackInv'
  <2> SUFFICES ASSUME AttackInv, [Next]_vars PROVE AttackInv'
    OBVIOUS
  <2>1. CASE Next BY <2>1, AttackStep DEF Next
  <2>2. CASE UNCHANGED vars
    BY <2>2 DEF vars, AttackInv, RelockInv, TypeOK, CalmCoversStable
  <2> QED BY <2>1, <2>2
<1>3. AttackInv => AttackIsMet
  <2> SUFFICES ASSUME AttackInv, attack = AttackSamples PROVE rank = 0
    BY DEF AttackIsMet
  <2>1. /\ rank \in Int /\ 0 <= rank /\ rank <= Ranks - 1
        /\ WindowSamples \in Nat \ {0} /\ Ranks \in Nat \ {0}
        /\ attack = WindowSamples + Ranks - 2
    BY PeriodsAssumption DEF AttackInv, RelockInv, TypeOK, AttackSamples
  <2>2. attack >= WindowSamples => rank <= Ranks - 2 - (attack - WindowSamples)
    BY DEF AttackInv
  <2> QED BY <2>1, <2>2
<1> QED BY <1>1, <1>2, <1>3, PTL DEF Spec

-----------------------------------------------------------------------------
(* Peace: how long the period takes to be the longest again. The samples   *)
(* without any coverage in a row are counted by a variable that is added   *)
(* to AdaptiveRelock and constrains nothing.                               *)

VARIABLE peace

CountPeace == peace' = IF coverage' = "none" THEN peace + 1 ELSE 0

PeacefulSpec == Init /\ peace = 0 /\ [][Next /\ CountPeace]_<<vars, peace>>

\* Quiet samples until the period is the longest, if a rank takes n of them.
PeaceSamples(n) == WindowSamples + (Ranks - 1) * n - 1

PeaceIsKept(n) == peace >= PeaceSamples(n) => rank = Ranks - 1

\* The stability counter has counted m of the samples since the last rank.
Counted(n, m) ==
    /\ stable = m * SampleSecs
    /\ peace >= WindowSamples /\ rank < Ranks - 1 =>
          peace - WindowSamples + 1 <= rank * n + m

PeaceInv(n) ==
    /\ RelockInv
    /\ peace \in Nat
    /\ peace < WindowSamples => peace <= Len(samples)
    /\ peace >= WindowSamples => Len(samples) = WindowSamples
    /\ \A i \in 1..Len(samples) : i > Len(samples) - peace => samples[i] = FALSE
    /\ \E m \in Nat : Counted(n, m)

(***************************************************************************)
(* A window of nothing but quiet samples does not persist.                 *)
(***************************************************************************)
LEMMA QuietWindowIsCalm ==
    ASSUME NEW w \in Seq(BOOLEAN), Len(w) >= 1, \A i \in 1..Len(w) : w[i] = FALSE
    PROVE  ~Persistent(w)
<1>1. DOMAIN w = 1..Len(w) /\ Len(w) \in Nat
  OBVIOUS
<1>2. {i \in DOMAIN w : w[i]} = {}
  BY <1>1
<1>3. Cardinality({i \in DOMAIN w : w[i]}) = 0
  BY <1>2, FS_EmptySet
<1> QED BY <1>1, <1>3 DEF Persistent

(***************************************************************************)
(* What one quiet sample more does to the counter and the rank.            *)
(***************************************************************************)
LEMMA SettleCounts ==
    ASSUME NEW n \in Nat, n * SampleSecs >= StableSecs, RelockInv, NEW m \in Nat,
           stable = m * SampleSecs, Settle
    PROVE  \/ /\ rank' = rank /\ stable' = (m + 1) * SampleSecs
           \/ /\ rank' = Least(rank + 1, Ranks - 1) /\ stable' = 0
              /\ m + 1 <= n
<1>1. /\ SampleSecs \in Nat \ {0} /\ StableSecs \in Nat /\ stable < StableSecs
      /\ m * SampleSecs \in Nat
  BY PeriodsAssumption DEF RelockInv, TypeOK
<1>2. (m + 1) * SampleSecs = m * SampleSecs + SampleSecs
  BY <1>1
<1>3. CASE stable + SampleSecs >= StableSecs
  <2>1. m + 1 <= n
    <3> SUFFICES ASSUME n <= m PROVE FALSE
      OBVIOUS
    <3>1. n * SampleSecs <= m * SampleSecs
      BY <1>1
    <3> QED BY <1>1, <3>1
  <2> QED BY <1>3, <2>1 DEF Settle
<1>4. CASE ~(stable + SampleSecs >= StableSecs)
  BY <1>2, <1>4 DEF Settle
<1> QED BY <1>3, <1>4

(***************************************************************************)
(* Every sample keeps PeaceInv.                                            *)
(***************************************************************************)
LEMMA PeaceStep ==
    ASSUME NEW n \in Nat, n * SampleSecs >= StableSecs,
           PeaceInv(n), NEW c \in Coverages, ObserveRatio(c), CountPeace
    PROVE  PeaceInv(n)'
<1>1. RelockInv'
  BY SampleStep DEF PeaceInv
<1>2. /\ TypeOK /\ peace \in Nat
      /\ rank \in Int /\ 0 <= rank /\ rank <= Ranks - 1 /\ stable \in Nat
      /\ WindowSamples \in Nat \ {0} /\ Ranks \in Nat \ {0}
      /\ SampleSecs \in Nat \ {0} /\ StableSecs \in Nat \ {0}
  BY PeriodsAssumption DEF PeaceInv, RelockInv, TypeOK
<1>3. coverage' = c /\ samples' = Slid(c = "most")
  BY DEF ObserveRatio
<1>4. samples' \in Seq(BOOLEAN) /\ Len(samples') \in Nat
  BY <1>1 DEF RelockInv, TypeOK
<1>5. PICK m \in Nat : Counted(n, m)
  BY DEF PeaceInv
<1>6. \/ stable' = stable /\ rank' = rank
      \/ stable' = 0
      \/ Settle
  BY DEF ObserveRatio, Shorten
<1>7. \E k \in Nat : stable' = k * SampleSecs
  <2>1. CASE stable' = stable
    BY <1>5, <2>1 DEF Counted
  <2>2. CASE stable' = 0
    <3>1. 0 = 0 * SampleSecs
      BY <1>2
    <3> QED BY <2>2, <3>1
  <2>3. CASE Settle
    <3>1. stable' = 0 \/ stable' = (m + 1) * SampleSecs
      BY <1>5, <2>3, SettleCounts DEF Counted, PeaceInv
    <3>2. CASE stable' = 0 BY <2>2, <3>2
    <3>3. CASE stable' = (m + 1) * SampleSecs BY <3>3
    <3> QED BY <3>1, <3>2, <3>3
  <2> QED BY <1>6, <2>1, <2>2, <2>3
<1>8. CASE c # "none"
  <2>1. peace' = 0
    BY <1>3, <1>8 DEF CountPeace
  <2>2. \E k \in Nat : Counted(n, k)'
    BY <1>2, <1>7, <2>1 DEF Counted
  <2> QED BY <1>1, <1>2, <1>4, <2>1, <2>2 DEF PeaceInv
<1>9. CASE c = "none"
  <2>1. samples' = Slid(FALSE) /\ peace' = peace + 1
    BY <1>3, <1>9 DEF CountPeace
  <2>2. /\ peace < WindowSamples => peace <= Len(samples)
        /\ peace >= WindowSamples => Len(samples) = WindowSamples
        /\ \A i \in 1..Len(samples) : i > Len(samples) - peace => samples[i] = FALSE
    BY DEF PeaceInv
  <2>3. /\ peace + 1 < WindowSamples => peace + 1 <= Len(Slid(FALSE))
        /\ peace + 1 >= WindowSamples => Len(Slid(FALSE)) = WindowSamples
        /\ \A i \in 1..Len(Slid(FALSE)) :
               i > Len(Slid(FALSE)) - (peace + 1) => Slid(FALSE)[i] = FALSE
    BY <1>2, <2>2, SlidKeepsLast
  <2>4. /\ peace' < WindowSamples => peace' <= Len(samples')
        /\ peace' >= WindowSamples => Len(samples') = WindowSamples
        /\ \A i \in 1..Len(samples') : i > Len(samples') - peace' => samples'[i] = FALSE
    BY <2>1, <2>3
  <2>5. \E k \in Nat : Counted(n, k)'
    <3>1. CASE peace' < WindowSamples
      BY <1>2, <1>7, <2>1, <3>1 DEF Counted
    <3>2. CASE peace' >= WindowSamples
      <4>1. Len(samples') = WindowSamples /\ \A i \in 1..Len(samples') : samples'[i] = FALSE
        <5>1. Len(samples') = WindowSamples
          BY <2>4, <3>2
        <5>2. peace' \in Nat /\ Len(samples') <= peace'
          <6>1. peace' \in Nat
            BY <1>2, <2>1
          <6>2. WindowSamples \in Nat
            BY <1>2
          <6>3. WindowSamples <= peace'
            BY <3>2, <6>1, <6>2
          <6> QED BY <5>1, <6>1, <6>3
        <5>3. \A i \in 1..Len(samples') : i > Len(samples') - peace'
          BY <1>4, <5>2
        <5> QED BY <2>4, <5>1, <5>3
      <4>2. ~Persistent(samples')
        <5>1. Len(samples') >= 1
          BY <1>2, <4>1
        <5> QED BY <1>4, <4>1, <5>1, QuietWindowIsCalm
      <4>3. Settle
        BY <1>2, <1>9, <4>1, <4>2 DEF ObserveRatio
      <4>4. \/ /\ rank' = rank /\ stable' = (m + 1) * SampleSecs
            \/ /\ rank' = Least(rank + 1, Ranks - 1) /\ stable' = 0
               /\ m + 1 <= n
        BY <1>5, <4>3, SettleCounts DEF Counted, PeaceInv
      <4>5. rank * n \in Nat /\ (rank + 1) * n = rank * n + n
        BY <1>2
      <4>6. rank < Ranks - 1 => peace' - WindowSamples + 1 <= rank * n + m + 1
        <5>1. CASE peace >= WindowSamples
          BY <1>2, <1>5, <2>1, <4>5, <5>1 DEF Counted
        <5>2. CASE ~(peace >= WindowSamples)
          <6>1. peace' - WindowSamples + 1 <= 1
            BY <1>2, <2>1, <5>2
          <6>2. \A r \in Nat : 1 <= r + m + 1
            OBVIOUS
          <6>3. 1 <= rank * n + m + 1 /\ rank * n + m + 1 \in Int
            BY <4>5, <6>2
          <6>4. peace' - WindowSamples + 1 \in Int
            BY <1>2, <2>1
          <6> QED BY <6>1, <6>3, <6>4
        <5> QED BY <5>1, <5>2
      <4>7. CASE rank' = rank /\ stable' = (m + 1) * SampleSecs
        <5>1. rank * n + (m + 1) = rank * n + m + 1
          BY <4>5
        <5>2. rank' < Ranks - 1 => peace' - WindowSamples + 1 <= rank' * n + (m + 1)
          BY <4>6, <4>7, <5>1
        <5>3. Counted(n, m + 1)'
          BY <4>7, <5>2 DEF Counted
        <5> QED BY <5>3
      <4>8. CASE /\ rank' = Least(rank + 1, Ranks - 1) /\ stable' = 0
                 /\ m + 1 <= n
        <5>1. stable' = 0 * SampleSecs
          BY <1>2, <4>8
        <5>2. ASSUME rank' < Ranks - 1 PROVE rank' = rank + 1 /\ rank < Ranks - 1
          BY <1>2, <4>8, <5>2 DEF Least
        <5>3. ASSUME rank' < Ranks - 1 PROVE peace' - WindowSamples + 1 <= rank' * n + 0
          <6>1. peace' - WindowSamples + 1 <= rank * n + n
            BY <1>2, <2>1, <4>5, <4>6, <4>8, <5>2, <5>3
          <6>2. rank' * n = rank * n + n
            BY <4>5, <5>2, <5>3
          <6> QED BY <4>5, <6>1, <6>2
        <5>4. Counted(n, 0)'
          BY <5>1, <5>3 DEF Counted
        <5> QED BY <5>4
      <4> QED BY <4>4, <4>7, <4>8
    <3> QED BY <1>2, <2>1, <3>1, <3>2
  <2>6. peace' \in Nat
    BY <1>2, <2>1
  <2> QED BY <1>1, <2>4, <2>5, <2>6 DEF PeaceInv
<1> QED BY <1>8, <1>9

(***************************************************************************)
(* observe_ratio relaxes in bounded time, whatever the window holds and    *)
(* wherever the stability counter stands when the attacks end: if n        *)
(* samples make up the stability time, then after WindowSamples - 1 quiet  *)
(* samples and n more for each rank the period is the longest, and it      *)
(* stays so while it is quiet.                                             *)
(***************************************************************************)
THEOREM PeaceRelaxesInTime ==
    ASSUME NEW n \in Nat, n * SampleSecs >= StableSecs
    PROVE  PeacefulSpec => []PeaceIsKept(n)
<1>1. Init /\ peace = 0 => PeaceInv(n)
  <2> SUFFICES ASSUME Init, peace = 0 PROVE PeaceInv(n)
    OBVIOUS
  <2>1. RelockInv
    BY PeriodsAssumption
       DEF Init, RelockInv, TypeOK, CalmCoversStable, Coverages, AttackSamples
  <2>2. samples = <<>> /\ Len(samples) = 0 /\ stable = 0
    BY DEF Init
  <2>3. 0 = 0 * SampleSecs
    BY PeriodsAssumption
  <2>4. Counted(n, 0)
    BY <2>2, <2>3, PeriodsAssumption DEF Counted
  <2> QED BY <2>1, <2>2, <2>4, PeriodsAssumption DEF PeaceInv
<1>2. PeaceInv(n) /\ [Next /\ CountPeace]_<<vars, peace>> => PeaceInv(n)'
  <2> SUFFICES ASSUME PeaceInv(n), [Next /\ CountPeace]_<<vars, peace>> PROVE PeaceInv(n)'
    OBVIOUS
  <2>1. CASE Next /\ CountPeace BY <2>1, PeaceStep DEF Next
  <2>2. CASE UNCHANGED <<vars, peace>>
    BY <2>2 DEF vars, PeaceInv, Counted, RelockInv, TypeOK, CalmCoversStable
  <2> QED BY <2>1, <2>2
<1>3. PeaceInv(n) => PeaceIsKept(n)
  <2> SUFFICES ASSUME PeaceInv(n), peace >= PeaceSamples(n), rank # Ranks - 1 PROVE FALSE
    BY DEF PeaceIsKept
  <2>1. /\ rank \in Int /\ 0 <= rank /\ rank <= Ranks - 2 /\ peace \in Nat
        /\ WindowSamples \in Nat \ {0} /\ Ranks \in Nat \ {0}
        /\ SampleSecs \in Nat \ {0} /\ StableSecs \in Nat \ {0} /\ stable < StableSecs
    BY PeriodsAssumption DEF PeaceInv, RelockInv, TypeOK
  <2>2. PICK m \in Nat : Counted(n, m)
    BY DEF PeaceInv
  <2>3. m < n
    <3> SUFFICES ASSUME n <= m PROVE FALSE
      BY <2>2
    <3>1. n * SampleSecs <= m * SampleSecs /\ n * SampleSecs \in Nat /\ m * SampleSecs \in Nat
      BY <2>1
    <3> QED BY <2>1, <2>2, <3>1 DEF Counted
  <2>4. /\ (rank + 1) * n <= (Ranks - 1) * n /\ (rank + 1) * n = rank * n + n
        /\ rank * n \in Nat /\ (Ranks - 1) * n \in Nat /\ n <= (rank + 1) * n
    BY <2>1
  <2>5. peace >= WindowSamples
    BY <2>1, <2>3, <2>4 DEF PeaceSamples
  <2>6. peace - WindowSamples + 1 <= rank * n + m
    BY <2>1, <2>2, <2>5 DEF Counted
  <2> QED BY <2>1, <2>3, <2>4, <2>6 DEF PeaceSamples
<1> QED BY <1>1, <1>2, <1>3, PTL DEF PeacefulSpec

-----------------------------------------------------------------------------
(* The loop drives the period as AdaptiveRelock has it, and coverage is    *)
(* answered by the next sample.                                            *)

Shares == moved \in Coverages /\ stuck \in Coverages

(***************************************************************************)
(* A step of the loop is a sample of the period, or leaves the period as   *)
(* it is.                                                                  *)
(***************************************************************************)
LEMMA LoopStep ==
    ASSUME Shares, [LoopNext]_loopVars
    PROVE  [Next]_vars /\ Shares'
<1> USE DEF Shares
<1>1. CASE Defend
  <2>1. [Next]_vars
    BY <1>1 DEF Defend, SampleCoverage, Next, period, vars
  <2>2. moved' \in {moved, stuck} /\ stuck' = stuck
    BY <1>1 DEF Defend, RelockAll
  <2> QED BY <2>1, <2>2
<1>2. CASE DoReload
  BY <1>2 DEF DoReload, RelockAll, period, vars
<1>3. CASE Tick
  BY <1>3 DEF Tick, period, world, vars
<1>4. CASE \E share \in Coverages : MoveOut(share)
  BY <1>4 DEF MoveOut, period, vars
<1>5. CASE \E share \in Coverages, fails \in BOOLEAN : Change(share, fails)
  BY <1>5 DEF Change, period, vars
<1>6. CASE UNCHANGED loopVars
  BY <1>6 DEF loopVars, period, world, vars
<1> QED BY <1>1, <1>2, <1>3, <1>4, <1>5, <1>6 DEF LoopNext

(***************************************************************************)
(* The main loop drives the relock period by whole samples (main.rs, B1):  *)
(* what is proved of AdaptiveRelock alone holds of the loop, whatever      *)
(* delays, failures and refusals there are.                                *)
(***************************************************************************)
THEOREM LoopDrivesPeriod == LoopSpec => Spec
<1>1. LoopInit => Init /\ Shares
  BY DEF LoopInit, Shares, Coverages
<1>2. Shares /\ [LoopNext]_loopVars => [Next]_vars /\ Shares'
  BY LoopStep
<1> QED BY <1>1, <1>2, PTL DEF LoopSpec, Spec

-----------------------------------------------------------------------------
(* Types.                                                                  *)

AuditOK ==
    /\ audit \in Seq([ok : BOOLEAN, age : 0..(AuditSecs + 1)])
    /\ Len(audit) <= AuditMax

ClocksOK ==
    /\ tick \in 0..(TicksPerSec - 1) /\ sinceGuard \in 0..Cooldown
    /\ sinceLock \in 0..(Longest + MaxLate) /\ sinceSample \in 0..(SampleSecs + MaxLate)
    /\ late \in 0..MaxLate

LoopInv ==
    /\ Shares /\ Share(stuck) <= Share(moved) /\ failing \in BOOLEAN
    /\ ClocksOK /\ AuditOK
    /\ unanswered \in 0..2

(***************************************************************************)
(* The longest period is a number of seconds.                              *)
(***************************************************************************)
LEMMA LongestIsNat == Longest \in Nat
BY LoopAssumption, PeriodsAssumption DEF Longest

(***************************************************************************)
(* A result is recorded at the end of the ring, and the oldest one leaves  *)
(* it when it is full.                                                     *)
(***************************************************************************)
LEMMA RecordedTypes ==
    ASSUME AuditOK, NEW ok \in BOOLEAN
    PROVE  /\ Recorded(ok) \in Seq([ok : BOOLEAN, age : 0..(AuditSecs + 1)])
           /\ Len(Recorded(ok)) <= AuditMax
<1> DEFINE Results == [ok : BOOLEAN, age : 0..(AuditSecs + 1)]
           kept == IF Len(audit) >= AuditMax THEN Tail(audit) ELSE audit
<1>1. [ok |-> ok, age |-> 0] \in Results
  BY LoopAssumption
<1>2. kept \in Seq(Results) /\ Len(kept) \in Nat /\ Len(kept) <= AuditMax - 1
  <2> HIDE DEF Results
  <2>1. audit \in Seq(Results) /\ Len(audit) \in Nat /\ Len(audit) <= AuditMax
    BY DEF AuditOK, Results
  <2>2. CASE Len(audit) >= AuditMax
    <3>1. audit # <<>>
      BY <2>1, <2>2, LoopAssumption
    <3>2. Tail(audit) \in Seq(Results) /\ Len(Tail(audit)) = Len(audit) - 1
      BY <2>1, <3>1
    <3> QED BY <2>1, <2>2, <3>2, LoopAssumption
  <2>3. CASE ~(Len(audit) >= AuditMax)
    BY <2>1, <2>3, LoopAssumption
  <2> QED BY <2>2, <2>3
<1>3. /\ Append(kept, [ok |-> ok, age |-> 0]) \in Seq(Results)
      /\ Len(Append(kept, [ok |-> ok, age |-> 0])) = Len(kept) + 1
  <2> HIDE DEF Results, kept
  <2> QED BY <1>1, <1>2
<1> QED BY <1>2, <1>3, LoopAssumption DEF Recorded

(***************************************************************************)
(* Growing older keeps the records, none of them older than the window     *)
(* plus one second.                                                        *)
(***************************************************************************)
LEMMA AgedTypes ==
    ASSUME AuditOK, NEW seconds \in 0..1
    PROVE  /\ Aged(seconds) \in Seq([ok : BOOLEAN, age : 0..(AuditSecs + 1)])
           /\ Len(Aged(seconds)) = Len(audit)
<1> DEFINE Results == [ok : BOOLEAN, age : 0..(AuditSecs + 1)]
<1>1. Len(audit) \in Nat /\ DOMAIN audit = 1..Len(audit)
      /\ \A i \in DOMAIN audit : audit[i] \in Results
  <2>1. audit \in Seq(Results)
    BY DEF AuditOK
  <2> HIDE DEF Results
  <2> QED BY <2>1
<1>2. ASSUME NEW r \in Results
      PROVE  [r EXCEPT !.age = Least(@ + seconds, AuditSecs + 1)] \in Results
  <2>1. r.age + seconds \in Nat
    OBVIOUS
  <2>2. Least(r.age + seconds, AuditSecs + 1) \in 0..(AuditSecs + 1)
    BY <2>1, LoopAssumption DEF Least
  <2> QED BY <2>2
<1>3. Aged(seconds) \in [1..Len(audit) -> Results]
  BY <1>1, <1>2 DEF Aged
<1> HIDE DEF Results
<1>4. Aged(seconds) \in Seq(Results) /\ Len(Aged(seconds)) = Len(audit)
  BY <1>1, <1>3
<1> QED BY <1>4 DEF Results

(***************************************************************************)
(* What an application records and moves keeps the types.                  *)
(***************************************************************************)
LEMMA RelockAllTypes ==
    ASSUME LoopInv, RelockAll
    PROVE  moved' \in Coverages /\ Share(stuck) <= Share(moved') /\ AuditOK'
<1>1. moved' \in {moved, stuck}
  BY DEF RelockAll
<1>2. Share(stuck) <= Share(moved') /\ moved' \in Coverages
  BY <1>1 DEF LoopInv, Shares, Share, Coverages
<1>3. audit' = audit \/ \E ok \in BOOLEAN : audit' = Recorded(ok)
  BY DEF RelockAll
<1>4. AuditOK'
  <2>1. AuditOK
    BY DEF LoopInv
  <2>2. CASE audit' = audit
    BY <2>1, <2>2 DEF AuditOK
  <2>3. CASE \E ok \in BOOLEAN : audit' = Recorded(ok)
    BY <2>1, <2>3, RecordedTypes DEF AuditOK
  <2> QED BY <1>3, <2>2, <2>3
<1> QED BY <1>2, <1>4

(***************************************************************************)
(* The types of the loop are kept by every step.                           *)
(***************************************************************************)
LEMMA LoopTypesStep ==
    ASSUME LoopInv, [LoopNext]_loopVars
    PROVE  LoopInv'
<1> USE DEF LoopInv, Shares
<1>1. CASE Defend
  <2>1. /\ UNCHANGED <<stuck, failing, tick>> /\ late' = 0
        /\ sinceSample' \in {sinceSample, late}
    BY <1>1 DEF Defend, SampleCoverage
  <2>2. \/ RelockAll /\ sinceGuard' = 0 /\ sinceLock' = late /\ unanswered' = 0
        \/ UNCHANGED <<moved, audit, sinceGuard, sinceLock>>
           /\ unanswered' \in {unanswered, 0, Least(unanswered + 1, 2)}
    BY <1>1 DEF Defend
  <2>3. moved' \in Coverages /\ Share(stuck) <= Share(moved') /\ AuditOK'
    BY <2>2, RelockAllTypes DEF AuditOK
  <2>4. ClocksOK'
    BY <2>1, <2>2, LoopAssumption, PeriodsAssumption, LongestIsNat DEF ClocksOK
  <2>5. unanswered' \in 0..2
    BY <2>2 DEF Least
  <2>6. Share(stuck)' = Share(stuck) /\ Share(moved)' = Share(moved')
    BY <2>1 DEF Share
  <2> QED BY <2>1, <2>3, <2>4, <2>5, <2>6
<1>2. CASE DoReload
  <2>1. /\ UNCHANGED <<period, stuck, failing, clocks>> /\ unanswered' = 0
        /\ RelockAll
    BY <1>2 DEF DoReload
  <2>2. moved' \in Coverages /\ Share(stuck) <= Share(moved') /\ AuditOK'
    BY <2>1, RelockAllTypes
  <2>3. Share(stuck)' = Share(stuck) /\ Share(moved)' = Share(moved')
    BY <2>1 DEF Share
  <2>4. ClocksOK'
    BY <2>1 DEF ClocksOK, clocks
  <2> QED BY <2>1, <2>2, <2>3, <2>4
<1>3. CASE Tick
  <2> DEFINE second == IF tick + 1 = TicksPerSec THEN 1 ELSE 0
  <2>1. /\ UNCHANGED <<moved, stuck, failing, unanswered>>
        /\ late < MaxLate \/ tick + 1 < TicksPerSec
        /\ tick' = (tick + 1) % TicksPerSec
        /\ sinceGuard' = Least(sinceGuard + 1, Cooldown)
        /\ sinceLock' = Least(sinceLock + second, Longest + MaxLate)
        /\ sinceSample' = Least(sinceSample + second, SampleSecs + MaxLate)
        /\ late' = late + second
        /\ audit' = Aged(second)
    BY <1>3 DEF Tick, world
  <2>2. second \in 0..1 /\ (tick + 1 < TicksPerSec => second = 0)
    BY LoopAssumption DEF ClocksOK
  <2> HIDE DEF second
  <2>3. ClocksOK'
    <3>1. tick' \in 0..(TicksPerSec - 1)
      BY <2>1, LoopAssumption DEF ClocksOK
    <3> QED BY <2>1, <2>2, <3>1, LoopAssumption, PeriodsAssumption, LongestIsNat DEF ClocksOK, Least
  <2>4. AuditOK'
    BY <2>1, <2>2, AgedTypes DEF AuditOK
  <2> QED BY <2>1, <2>3, <2>4 DEF Share
<1>4. CASE \E share \in Coverages : MoveOut(share)
  <2>1. PICK share \in Coverages : MoveOut(share)
    BY <1>4
  <2>2. /\ UNCHANGED <<stuck, failing, clocks, audit, unanswered>>
        /\ moved' = share /\ Share(share) > Share(moved)
    BY <2>1 DEF MoveOut
  <2>3. Share(stuck)' <= Share(moved)'
    BY <2>2 DEF Share, Coverages
  <2> QED BY <2>2, <2>3 DEF ClocksOK, AuditOK, clocks
<1>5. CASE \E share \in Coverages, fails \in BOOLEAN : Change(share, fails)
  <2>1. PICK share \in Coverages, fails \in BOOLEAN : Change(share, fails)
    BY <1>5
  <2>2. /\ UNCHANGED <<moved, clocks, audit, unanswered>>
        /\ stuck' = share /\ Share(share) <= Share(moved) /\ failing' = fails
    BY <2>1 DEF Change
  <2>3. Share(stuck)' <= Share(moved)'
    BY <2>2 DEF Share
  <2> QED BY <2>2, <2>3 DEF ClocksOK, AuditOK, clocks
<1>6. CASE UNCHANGED loopVars
  BY <1>6 DEF loopVars, world, clocks, ClocksOK, AuditOK, Share
<1> QED BY <1>1, <1>2, <1>3, <1>4, <1>5, <1>6 DEF LoopNext

(***************************************************************************)
(* The loop starts with these types.                                       *)
(***************************************************************************)
LEMMA LoopInitTypes ==
    ASSUME LoopInit
    PROVE  LoopInv
<1>1. Shares /\ Share(stuck) <= Share(moved)
  BY DEF LoopInit, Shares, Share, Coverages
<1>2. ClocksOK
  BY LoopAssumption, PeriodsAssumption, LongestIsNat DEF LoopInit, ClocksOK
<1>3. AuditOK
  <2> DEFINE Results == [ok : BOOLEAN, age : 0..(AuditSecs + 1)]
  <2>1. audit = <<>>
    BY DEF LoopInit
  <2>2. audit \in Seq(Results) /\ Len(audit) = 0
    <3> HIDE DEF Results
    <3> QED BY <2>1
  <2> QED BY <2>2, LoopAssumption DEF AuditOK
<1>4. failing \in BOOLEAN /\ unanswered \in 0..2
  <2>1. failing = FALSE /\ unanswered = 0
    BY DEF LoopInit
  <2>2. failing \in BOOLEAN
    BY <2>1, Zenon
  <2>3. unanswered \in 0..2
    BY <2>1
  <2> QED BY <2>2, <2>3
<1> QED BY <1>1, <1>2, <1>3, <1>4 DEF LoopInv

(***************************************************************************)
(* The state of the loop keeps its types: the clocks stay behind their     *)
(* bounds, and the audit is a ring that never outgrows AUDIT_LOG_MAX.      *)
(***************************************************************************)
THEOREM LoopTypes == LoopSpec => []LoopTypeOK
<1>1. LoopInit => LoopInv
  BY LoopInitTypes
<1>2. LoopInv /\ [LoopNext]_loopVars => LoopInv'
  BY LoopTypesStep
<1>3. LoopInv /\ RelockInv => LoopTypeOK
  <2> SUFFICES ASSUME LoopInv, RelockInv PROVE LoopTypeOK
    OBVIOUS
  <2> DEFINE Results == [ok : BOOLEAN, age : 0..(AuditSecs + 1)]
  <2>1. \A i \in DOMAIN audit : audit[i] \in Results
    <3>1. audit \in Seq(Results)
      BY DEF LoopInv, AuditOK
    <3> HIDE DEF Results
    <3> QED BY <3>1
  <2>2. \A i \in DOMAIN audit : audit[i].ok \in BOOLEAN /\ audit[i].age \in 0..(AuditSecs + 1)
    BY <2>1
  <2> QED BY <2>2 DEF LoopInv, Shares, ClocksOK, AuditOK, RelockInv, LoopTypeOK
<1> QED BY <1>1, <1>2, <1>3, LoopDrivesPeriod, RelockInvariant, PTL DEF LoopSpec

-----------------------------------------------------------------------------
(* Coverage is answered.                                                   *)

\* Ticks that have passed, at least, when the clock has gone on by n seconds.
Passed(n) == (n - 1) * TicksPerSec + tick + 1

\* The guard was last taken before the iteration read the clock, or the ticks
\* since then show in it; and a sample whose relock was refused found the guard
\* taken before it.
GuardInv ==
    /\ sinceGuard >= Least(Passed(late), Cooldown)
    /\ unanswered \in 0..1
    /\ unanswered = 1 => sinceGuard >= Least(Passed(sinceSample), Cooldown)

(***************************************************************************)
(* A clock that counts whole seconds never runs ahead of the ticks.        *)
(***************************************************************************)
LEMMA PassedTick ==
    ASSUME LoopInv, Tick, NEW n \in Nat, NEW m \in Nat,
           m <= n + (IF tick + 1 = TicksPerSec THEN 1 ELSE 0)
    PROVE  Passed(m)' <= Passed(n) + 1
<1>1. TicksPerSec \in Nat \ {0} /\ tick \in 0..(TicksPerSec - 1)
      /\ tick' = (tick + 1) % TicksPerSec
  BY LoopAssumption DEF LoopInv, ClocksOK, Tick
<1>2. \A k, l \in Int : k <= l => k * TicksPerSec <= l * TicksPerSec
  BY <1>1
<1>3. CASE tick + 1 = TicksPerSec
  <2>1. tick' = 0
    BY <1>1, <1>3
  <2>2. (m - 1) * TicksPerSec <= n * TicksPerSec
    BY <1>2, <1>3
  <2>3. (n - 1) * TicksPerSec = n * TicksPerSec - TicksPerSec
    BY <1>1
  <2> QED BY <1>1, <1>3, <2>1, <2>2, <2>3 DEF Passed
<1>4. CASE tick + 1 # TicksPerSec
  <2>1. tick' = tick + 1
    BY <1>1, <1>4
  <2>2. (m - 1) * TicksPerSec <= (n - 1) * TicksPerSec
    BY <1>2, <1>4
  <2> QED BY <1>1, <2>1, <2>2 DEF Passed
<1> QED BY <1>3, <1>4

(***************************************************************************)
(* When a sample is due, the guard of the relock that the last one was     *)
(* refused for is free again.                                              *)
(***************************************************************************)
LEMMA RefusedIsFree ==
    ASSUME Cooldown <= (SampleSecs - 1) * TicksPerSec + 1,
           LoopInv, GuardInv, unanswered = 1, SampleDue
    PROVE  GuardFree
<1>1. /\ TicksPerSec \in Nat \ {0} /\ Cooldown \in Nat /\ SampleSecs \in Nat
      /\ tick \in Nat /\ late \in Nat /\ sinceSample \in Nat /\ sinceGuard \in Nat
  BY LoopAssumption, PeriodsAssumption DEF LoopInv, ClocksOK
<1>2. sinceSample >= SampleSecs
  BY <1>1 DEF SampleDue
<1>3. (SampleSecs - 1) * TicksPerSec <= (sinceSample - 1) * TicksPerSec
  <2>1. \A k, l \in Int : k <= l => k * TicksPerSec <= l * TicksPerSec
    BY <1>1
  <2> QED BY <1>1, <1>2, <2>1
<1>4. (SampleSecs - 1) * TicksPerSec \in Int /\ (sinceSample - 1) * TicksPerSec \in Int
  BY <1>1
<1>5. Passed(sinceSample) >= Cooldown
  BY <1>1, <1>3, <1>4 DEF Passed
<1>6. sinceGuard >= Least(Passed(sinceSample), Cooldown) /\ Passed(sinceSample) \in Int
  BY <1>1, <1>4 DEF GuardInv, Passed
<1> QED BY <1>1, <1>5, <1>6 DEF GuardFree, Least

(***************************************************************************)
(* GuardInv is kept by every step.                                         *)
(***************************************************************************)
LEMMA GuardStep ==
    ASSUME Cooldown <= (SampleSecs - 1) * TicksPerSec + 1,
           LoopInv, LoopInv', GuardInv, [LoopNext]_loopVars
    PROVE  GuardInv'
<1>1. /\ TicksPerSec \in Nat \ {0} /\ Cooldown \in Nat
      /\ tick \in 0..(TicksPerSec - 1) /\ late \in Nat
      /\ sinceSample \in Nat /\ sinceGuard \in Nat
      /\ tick' \in Nat /\ late' \in Nat /\ sinceSample' \in Nat /\ sinceGuard' \in Nat
  BY LoopAssumption, PeriodsAssumption DEF LoopInv, ClocksOK
<1>2. \A n \in Nat : Passed(n) \in Int /\ Passed(n)' \in Int
  <2> TAKE n \in Nat
  <2>1. (n - 1) * TicksPerSec \in Int
    BY <1>1
  <2> QED BY <1>1, <2>1 DEF Passed
<1>3. CASE Defend
  <2>1. late' = 0 /\ tick' = tick
    BY <1>3 DEF Defend
  <2>2. Passed(late)' <= 0
    <3>1. (0 - 1) * TicksPerSec = -TicksPerSec
      BY <1>1
    <3> QED BY <1>1, <2>1, <3>1 DEF Passed
  <2>3. (sinceGuard >= Least(Passed(late), Cooldown))'
    BY <1>1, <1>2, <2>2 DEF Least
  <2>4. CASE unanswered' = 0
    BY <2>3, <2>4 DEF GuardInv
  <2>5. CASE unanswered' # 0
    <3>1. /\ UNCHANGED sinceGuard
          /\ ~((Immediate \/ PeriodIsOver) /\ GuardFree)
          /\ unanswered' = IF ~SampleDue THEN unanswered
                           ELSE IF moved = "none" THEN 0 ELSE Least(unanswered + 1, 2)
      BY <1>3, <2>5 DEF Defend
    <3>2. CASE SampleDue
      <4>1. moved # "none" /\ ~GuardFree /\ unanswered' = Least(unanswered + 1, 2)
        BY <2>5, <3>1, <3>2 DEF Immediate
      <4>2. unanswered = 0
        BY <3>2, <4>1, RefusedIsFree DEF GuardInv
      <4>3. unanswered' = 1 /\ sinceSample' = late
        BY <1>3, <3>2, <4>1, <4>2 DEF Defend, SampleCoverage, Least
      <4>4. Passed(sinceSample)' = Passed(late)
        BY <2>1, <4>3 DEF Passed
      <4> QED BY <2>3, <3>1, <4>3, <4>4 DEF GuardInv, Least
    <3>3. CASE ~SampleDue
      <4>1. unanswered' = unanswered /\ sinceSample' = sinceSample
        BY <1>3, <3>1, <3>3 DEF Defend
      <4>2. Passed(sinceSample)' = Passed(sinceSample)
        BY <2>1, <4>1 DEF Passed
      <4> QED BY <2>3, <3>1, <4>1, <4>2 DEF GuardInv, Least
    <3> QED BY <3>2, <3>3
  <2> QED BY <2>4, <2>5
<1>4. CASE Tick
  <2> DEFINE second == IF tick + 1 = TicksPerSec THEN 1 ELSE 0
  <2>1. /\ sinceGuard' = Least(sinceGuard + 1, Cooldown) /\ unanswered' = unanswered
        /\ late' = late + second
        /\ sinceSample' = Least(sinceSample + second, SampleSecs + MaxLate)
    BY <1>4 DEF Tick
  <2>2. late' <= late + second /\ sinceSample' <= sinceSample + second
    BY <1>1, <2>1, LoopAssumption, PeriodsAssumption DEF Least
  <2>3. Passed(late)' <= Passed(late) + 1
    <3>1. \A m \in Nat : m <= late + second => Passed(m)' <= Passed(late) + 1
      BY <1>1, <1>4, PassedTick
    <3> QED BY <1>1, <2>2, <3>1 DEF Passed
  <2>4. Passed(sinceSample)' <= Passed(sinceSample) + 1
    <3>1. \A m \in Nat : m <= sinceSample + second => Passed(m)' <= Passed(sinceSample) + 1
      BY <1>1, <1>4, PassedTick
    <3> QED BY <1>1, <2>2, <3>1 DEF Passed
  <2> QED BY <1>1, <1>2, <2>1, <2>3, <2>4 DEF GuardInv, Least
<1>5. CASE DoReload
  <2>1. UNCHANGED clocks /\ unanswered' = 0
    BY <1>5 DEF DoReload
  <2>2. Passed(late)' = Passed(late)
    BY <2>1 DEF Passed, clocks
  <2> QED BY <2>1, <2>2 DEF GuardInv, clocks, Least
<1>6. CASE \/ \E share \in Coverages : MoveOut(share)
           \/ \E share \in Coverages, fails \in BOOLEAN : Change(share, fails)
           \/ UNCHANGED loopVars
  <2>1. UNCHANGED clocks /\ unanswered' = unanswered
    BY <1>6 DEF MoveOut, Change, loopVars
  <2>2. Passed(late)' = Passed(late) /\ Passed(sinceSample)' = Passed(sinceSample)
    BY <2>1 DEF Passed, clocks
  <2> QED BY <2>1, <2>2 DEF GuardInv, clocks, Least
<1> QED BY <1>3, <1>4, <1>5, <1>6 DEF LoopNext

(***************************************************************************)
(* If the cool-down of the guard is no longer than the time between two    *)
(* samples, less a second (main.rs: 1 s and 2 s), the sample after one     *)
(* whose relock was refused is answered, however late the loop is.         *)
(***************************************************************************)
THEOREM CoverageIsAnswered ==
    ASSUME Cooldown <= (SampleSecs - 1) * TicksPerSec + 1
    PROVE  LoopSpec => []CoverageAnswered
<1>1. LoopInit => LoopInv /\ GuardInv
  <2> SUFFICES ASSUME LoopInit PROVE LoopInv /\ GuardInv
    OBVIOUS
  <2>1. LoopInv
    BY LoopInitTypes
  <2>2. sinceGuard = Cooldown /\ unanswered = 0 /\ Cooldown \in Nat
    BY LoopAssumption DEF LoopInit
  <2>3. Passed(late) \in Int
    <3>1. late = 0 /\ tick = 0 /\ (0 - 1) * TicksPerSec \in Int
      BY LoopAssumption DEF LoopInit
    <3> QED BY <3>1 DEF Passed
  <2> QED BY <2>1, <2>2, <2>3 DEF GuardInv, Least
<1>2. LoopInv /\ GuardInv /\ [LoopNext]_loopVars => LoopInv' /\ GuardInv'
  BY LoopTypesStep, GuardStep
<1>3. GuardInv => CoverageAnswered
  BY DEF GuardInv, CoverageAnswered
<1> QED BY <1>1, <1>2, <1>3, PTL DEF LoopSpec

=============================================================================
