---------------------------- MODULE FoldTheorems ----------------------------
(* What a left fold over a sequence keeps.                                 *)
EXTENDS Integers, SequencesExt, WellFoundedInduction, TLAPS

CONSTANTS
    Op(_, _, _),    \* the step of the fold, in some context
    Inv(_, _, _)    \* what holds in this context after so many steps

LEMMA Least ==
    ASSUME NEW S \in SUBSET Nat, S # {}
    PROVE  \E n \in S : \A m \in S : n <= m
<1> DEFINE R == OpToRel(<, Nat)
<1>1. IsWellFoundedOn(R, Nat)
  BY NatLessThanWellFounded
<1>2. \A x, y \in Nat : x < y => <<x, y>> \in R
  BY DEF OpToRel
<1> HIDE DEF R
<1>3. PICK n \in S : \A m \in S : ~ (<<m, n>> \in R)
  BY <1>1, WFMin
<1>4. \A m \in S : n <= m
  <2> TAKE m \in S
  <2>1. m \in Nat /\ n \in Nat
    OBVIOUS
  <2>2. ~ (m < n)
    BY <1>2, <1>3, <2>1
  <2> QED BY <2>1, <2>2
<1> QED BY <1>3, <1>4

(* What holds of 0 and passes on to the next number holds up to n.         *)
LEMMA Ascent ==
    ASSUME NEW n \in Nat, NEW H, 0 \in H,
           \A k \in 0..(n - 1) : k \in H => k + 1 \in H
    PROVE  0..n \subseteq H
<1> DEFINE S == {k \in 0..n : k \notin H}
<1> SUFFICES ASSUME S # {} PROVE FALSE
  OBVIOUS
<1>0. S \in SUBSET Nat
  OBVIOUS
<1> HIDE DEF S
<1>1. PICK k \in S : \A m \in S : k <= m
  BY <1>0, Least
<1> USE DEF S
<1>2. k # 0 /\ k - 1 \in 0..(n - 1) /\ k - 1 \notin S
  BY <1>1
<1> QED BY <1>1, <1>2

LEMMA MaxOfInterval ==
    ASSUME NEW k \in Nat, NEW s, s \subseteq 1..k, k \in s
    PROVE  Max(s) = k
<1>1. \A y \in s : k >= y
  OBVIOUS
<1>2. \A x \in s : x >= k => x = k
  OBVIOUS
<1>3. \A x \in s : (\A y \in s : x >= y) => x = k
  BY <1>2
<1> QED BY <1>1, <1>3 DEF Max

-----------------------------------------------------------------------------
Iterates(c, base, seq, k, h) ==
    h = [s \in SUBSET (1..k) |->
           IF s = {} THEN base ELSE Op(c, h[s \ {Max(s)}], seq[Max(s)])]

LEMMA IterateMore ==
    ASSUME NEW c, NEW base, NEW seq, NEW k \in Nat, NEW h, Iterates(c, base, seq, k, h)
    PROVE  \E g : Iterates(c, base, seq, k + 1, g)
<1> DEFINE g == [s \in SUBSET (1..(k + 1)) |->
                   IF k + 1 \in s THEN Op(c, h[s \ {k + 1}], seq[k + 1]) ELSE h[s]]
<1>1. ASSUME NEW s \in SUBSET (1..(k + 1))
      PROVE  g[s] = IF s = {} THEN base ELSE Op(c, g[s \ {Max(s)}], seq[Max(s)])
  <2>1. CASE k + 1 \in s
    <3>1. Max(s) = k + 1
      <4>1. s \subseteq 1..(k + 1) /\ k + 1 \in Nat
        OBVIOUS
      <4> QED BY <2>1, <4>1, MaxOfInterval
    <3>2. s \ {k + 1} \in SUBSET (1..(k + 1)) /\ k + 1 \notin s \ {k + 1}
      OBVIOUS
    <3>3. g[s \ {k + 1}] = h[s \ {k + 1}]
      BY <3>2
    <3>4. g[s] = Op(c, h[s \ {k + 1}], seq[k + 1])
      BY <2>1
    <3> QED BY <2>1, <3>1, <3>3, <3>4
  <2>2. CASE k + 1 \notin s
    <3>1. s \in SUBSET (1..k)
      BY <2>2
    <3>2. h[s] = IF s = {} THEN base ELSE Op(c, h[s \ {Max(s)}], seq[Max(s)])
      BY <3>1 DEF Iterates
    <3>3. s \ {Max(s)} \in SUBSET (1..(k + 1)) /\ k + 1 \notin s \ {Max(s)}
      BY <2>2
    <3>4. g[s] = h[s] /\ g[s \ {Max(s)}] = h[s \ {Max(s)}]
      BY <2>2, <3>3
    <3> QED BY <3>2, <3>4
  <2> QED BY <2>1, <2>2
<1>2. g = [s \in SUBSET (1..(k + 1)) |-> g[s]]
  OBVIOUS
<1> HIDE DEF g
<1>3. Iterates(c, base, seq, k + 1, g)
  BY <1>1, <1>2 DEF Iterates
<1> QED BY <1>3

LEMMA IterationExists ==
    ASSUME NEW c, NEW base, NEW seq, NEW n \in Nat
    PROVE  \E h : Iterates(c, base, seq, n, h)
<1> DEFINE H == {k \in 0..n : \E h : Iterates(c, base, seq, k, h)}
<1>1. 0 \in H
  <2> DEFINE h == [s \in SUBSET (1..0) |-> base]
  <2>1. 1..0 = {}
    OBVIOUS
  <2>2. h = [s \in SUBSET (1..0) |->
               IF s = {} THEN base ELSE Op(c, h[s \ {Max(s)}], seq[Max(s)])]
    BY <2>1
  <2>3. Iterates(c, base, seq, 0, h)
    BY <2>2 DEF Iterates
  <2> QED BY <2>3
<1>2. \A k \in 0..(n - 1) : k \in H => k + 1 \in H
  BY IterateMore
<1> HIDE DEF H
<1>3. 0..n \subseteq H
  BY <1>1, <1>2, Ascent
<1> QED BY <1>3 DEF H

-----------------------------------------------------------------------------
(* The fold of a sequence from base. *)
Fold(c, base, seq) == FoldLeft(LAMBDA out, x : Op(c, out, x), base, seq)

LEMMA FoldIterates ==
    ASSUME NEW c, NEW base, NEW T, NEW seq \in Seq(T)
    PROVE  \E h : Iterates(c, base, seq, Len(seq), h) /\ Fold(c, base, seq) = h[1..Len(seq)]
<1> DEFINE h == CHOOSE g : Iterates(c, base, seq, Len(seq), g)
<1>1. Iterates(c, base, seq, Len(seq), h)
  BY IterationExists
<1>2. DOMAIN seq = 1..Len(seq)
  OBVIOUS
<1>3. Fold(c, base, seq) = h[1..Len(seq)]
  BY <1>2 DEF Fold, FoldLeft, MapThenFoldSet, Iterates
<1> HIDE DEF h
<1> QED BY <1>1, <1>3

(***************************************************************************)
(* What holds of the base and is kept by every step holds of the fold.     *)
(***************************************************************************)
THEOREM FoldInvariant ==
    ASSUME NEW c, NEW base, NEW T, NEW seq \in Seq(T),
           Inv(c, 0, base),
           \A k \in 1..Len(seq) : \A a : Inv(c, k - 1, a) => Inv(c, k, Op(c, a, seq[k]))
    PROVE  Inv(c, Len(seq), Fold(c, base, seq))
<1>1. PICK h : Iterates(c, base, seq, Len(seq), h) /\ Fold(c, base, seq) = h[1..Len(seq)]
  BY FoldIterates
<1> DEFINE H == {k \in 0..Len(seq) : Inv(c, k, h[1..k])}
<1>2. 0 \in H
  <2>1. 1..0 = {} /\ {} \in SUBSET (1..Len(seq))
    OBVIOUS
  <2>2. h[1..0] = base
    BY <1>1, <2>1 DEF Iterates
  <2> QED BY <2>2
<1>3. ASSUME NEW k \in 0..(Len(seq) - 1), k \in H
      PROVE  k + 1 \in H
  <2>1. Max(1..(k + 1)) = k + 1 /\ (1..(k + 1)) \ {k + 1} = 1..k
    BY MaxOfInterval
  <2>2. 1..(k + 1) \in SUBSET (1..Len(seq)) /\ 1..(k + 1) # {}
    <3>1. k \in Nat /\ k + 1 <= Len(seq) /\ Len(seq) \in Nat
      OBVIOUS
    <3>2. 1 \in 1..(k + 1)
      BY <3>1
    <3>3. 1..(k + 1) \subseteq 1..Len(seq)
      BY <3>1
    <3> QED BY <3>2, <3>3
  <2>3. h[1..(k + 1)] = Op(c, h[1..k], seq[k + 1])
    BY <1>1, <2>1, <2>2 DEF Iterates
  <2>4. Inv(c, k, h[1..k])
    BY <1>3
  <2>5. Inv(c, k + 1, Op(c, h[1..k], seq[k + 1]))
    BY <2>4
  <2> QED BY <2>3, <2>5
<1> HIDE DEF H
<1>4. 0..Len(seq) \subseteq H
  <2> DEFINE n == Len(seq)
  <2>1. n \in Nat
    OBVIOUS
  <2>2. \A k \in 0..(n - 1) : k \in H => k + 1 \in H
    BY <1>3
  <2> HIDE DEF n
  <2>3. 0..n \subseteq H
    BY <1>2, <2>1, <2>2, Ascent
  <2> QED BY <2>3 DEF n
<1>5. Len(seq) \in H
  BY <1>4
<1> QED BY <1>1, <1>5 DEF H
=============================================================================
