-------------------------------- MODULE FoldFacts --------------------------------
(***************************************************************************)
(* What the proofs need of folds: induction over the naturals, over the    *)
(* subsets that a fold goes through and over sequences, and that a fold    *)
(* over a finite set is a function, so that the recursion in its           *)
(* definition can be used.                                                 *)
(***************************************************************************)
EXTENDS Integers, FiniteSets, SequencesExt, FiniteSetTheorems, SequenceTheorems, WellFoundedInduction, TLAPS

(* A set of naturals with 0 and the successor of each is all of them.      *)
LEMMA Counting ==
  ASSUME NEW S \in SUBSET Nat, 0 \in S, \A n \in S : n + 1 \in S
  PROVE  S = Nat
<1> DEFINE T == Nat \ S
           R == OpToRel(<, Nat)
<1>1. IsWellFoundedOn(R, Nat)
  BY NatLessThanWellFounded
<1>2. \A x, y \in Nat : x < y => <<x, y>> \in R
  BY DEF OpToRel
<1>3. SUFFICES ASSUME T # {} PROVE FALSE
  OBVIOUS
<1>4. T \subseteq Nat
  OBVIOUS
<1> HIDE DEF R
<1>5. PICK x \in T : \A y \in T : <<y, x>> \notin R
  BY <1>1, <1>3, <1>4, WFMin
<1>6. x # 0 /\ x - 1 \in Nat /\ x - 1 < x
  OBVIOUS
<1>7. x - 1 \in S
  BY <1>2, <1>5, <1>6
<1> QED BY <1>5, <1>6, <1>7

Picks(pick, S) == \A s \in SUBSET S : s # {} => pick[s] \in s

IsFold(g, S, T, base, f, pick) ==
  /\ g \in [SUBSET S -> T]
  /\ \A s \in SUBSET S : g[s] = IF s = {} THEN base ELSE f[<<pick[s], g[s \ {pick[s]}]>>]

LEMMA FoldExists ==
  ASSUME NEW S, IsFiniteSet(S), NEW T, NEW base \in T, NEW f \in [S \X T -> T],
         NEW pick, Picks(pick, S)
  PROVE  \E g : IsFold(g, S, T, base, f, pick)
<1> USE DEF Picks
<1> DEFINE Small(n) == {s \in SUBSET S : Cardinality(s) <= n}
           Folds(n, g) == /\ g \in [Small(n) -> T]
                          /\ \A s \in Small(n) :
                               g[s] = IF s = {} THEN base ELSE f[<<pick[s], g[s \ {pick[s]}]>>]
           Reached == {n \in Nat : \E g : Folds(n, g)}
<1>1. \A s \in SUBSET S : IsFiniteSet(s) /\ Cardinality(s) \in Nat /\ Cardinality(s) <= Cardinality(S)
  BY FS_Subset, FS_CardinalityType
<1>2. \A s \in SUBSET S : s # {} =>
        s \ {pick[s]} \in SUBSET S /\ Cardinality(s \ {pick[s]}) = Cardinality(s) - 1
  BY <1>1, FS_RemoveElement
<1>3. 0 \in Reached
  <2>1. \A s \in Small(0) : s = {}
    BY <1>1, FS_EmptySet
  <2>2. Folds(0, [s \in Small(0) |-> base])
    BY <2>1
  <2> QED BY <2>2
<1>4. ASSUME NEW n \in Reached PROVE n + 1 \in Reached
  <2>1. PICK g : Folds(n, g)
    OBVIOUS
  <2> DEFINE h == [s \in Small(n + 1) |-> IF s = {} THEN base ELSE f[<<pick[s], g[s \ {pick[s]}]>>]]
  <2>2. \A s \in Small(n + 1) : s # {} => s \ {pick[s]} \in Small(n) /\ pick[s] \in S
    BY <1>1, <1>2
  <2>3. \A s \in Small(n) : s \in Small(n + 1)
    BY <1>1
  <2>4. \A s \in Small(n) : h[s] = g[s]
    BY <2>1, <2>3
  <2>5. h \in [Small(n + 1) -> T]
    <3>1. ASSUME NEW s \in Small(n + 1), s # {} PROVE f[<<pick[s], g[s \ {pick[s]}]>>] \in T
      <4>1. pick[s] \in S /\ g[s \ {pick[s]}] \in T
        BY <2>1, <2>2, <3>1
      <4> QED BY <4>1
    <3> QED BY <3>1
  <2>6. ASSUME NEW s \in Small(n + 1)
        PROVE  h[s] = IF s = {} THEN base ELSE f[<<pick[s], h[s \ {pick[s]}]>>]
    <3>1. s # {} => h[s \ {pick[s]}] = g[s \ {pick[s]}]
      BY <2>2, <2>4
    <3>2. h[s] = IF s = {} THEN base ELSE f[<<pick[s], g[s \ {pick[s]}]>>]
      OBVIOUS
    <3> HIDE DEF h, Small
    <3> QED BY <3>1, <3>2
  <2>7. Folds(n + 1, h)
    <3> HIDE DEF h, Small
    <3> QED BY <2>5, <2>6
  <2> HIDE DEF h, Small, Folds
  <2> QED BY <2>7
<1>5. Reached = Nat
  <2> HIDE DEF Reached
  <2>1. Reached \subseteq Nat
    BY DEF Reached
  <2> QED BY <1>3, <1>4, <2>1, Counting
<1>6. PICK g : Folds(Cardinality(S), g)
  BY <1>1, <1>5
<1>7. Small(Cardinality(S)) = SUBSET S
  BY <1>1
<1> QED BY <1>6, <1>7 DEF IsFold

(* What holds of a set as soon as it does without the element picked from it holds of *)
(* all subsets.                                                                       *)
LEMMA SubsetInduction ==
  ASSUME NEW S, IsFiniteSet(S), NEW pick, Picks(pick, S), NEW Z, {} \in Z,
         \A s \in SUBSET S : s # {} /\ s \ {pick[s]} \in Z => s \in Z
  PROVE  SUBSET S \subseteq Z
<1> DEFINE Upto == {n \in Nat : \A s \in SUBSET S : Cardinality(s) <= n => s \in Z}
<1>1. \A s \in SUBSET S : IsFiniteSet(s) /\ Cardinality(s) \in Nat
  BY FS_Subset, FS_CardinalityType
<1>2. 0 \in Upto
  BY <1>1, FS_EmptySet
<1>3. ASSUME NEW n \in Upto PROVE n + 1 \in Upto
  <2>1. ASSUME NEW s \in SUBSET S, s # {}, Cardinality(s) <= n + 1 PROVE s \in Z
    <3>1. pick[s] \in s /\ s \ {pick[s]} \in SUBSET S
      BY <2>1 DEF Picks
    <3>2. Cardinality(s \ {pick[s]}) = Cardinality(s) - 1
      BY <1>1, <3>1, FS_RemoveElement
    <3>3. Cardinality(s \ {pick[s]}) <= n
      BY <1>1, <2>1, <3>2
    <3> QED BY <2>1, <3>1, <3>3
  <2> QED BY <2>1
<1>4. Upto = Nat
  <2>1. Upto \subseteq Nat
    OBVIOUS
  <2> HIDE DEF Upto
  <2> QED BY <1>2, <1>3, <2>1, Counting
<1> QED BY <1>1, <1>4

-----------------------------------------------------------------------------
(***************************************************************************)
(* Folds over the places of a sequence, from the left                      *)
(***************************************************************************)
LEMMA GreatestIn ==
  ASSUME NEW n \in Nat, NEW t \in SUBSET (1 .. n), t # {}
  PROVE  Max(t) \in t /\ \A x \in t : x <= Max(t)
<1> DEFINE V == {n - x : x \in t}
<1>1. V \subseteq Nat /\ V # {}
  <2>1. \A x \in t : n - x \in Nat
    OBVIOUS
  <2> QED BY <2>1
<1>2. PICK v \in V : \A w \in V : <<w, v>> \notin OpToRel(<, Nat)
  BY <1>1, NatLessThanWellFounded, WFMin
<1>3. PICK x \in t : v = n - x
  OBVIOUS
<1>4. ASSUME NEW y \in t PROVE x >= y
  <2>1. <<n - y, v>> \notin OpToRel(<, Nat)
    BY <1>2
  <2>2. ~(n - y < v)
    BY <1>1, <2>1 DEF OpToRel
  <2> QED BY <1>3, <2>2
<1>5. Max(t) \in t /\ \A y \in t : Max(t) >= y
  BY <1>4 DEF Max
<1> QED BY <1>5

greatest(n) == [t \in SUBSET (1 .. n) |-> Max(t)]

LEMMA GreatestPicked ==
  ASSUME NEW n \in Nat
  PROVE  /\ Picks(greatest(n), 1 .. n) /\ \A t \in SUBSET (1 .. n) : greatest(n)[t] = Max(t)
         /\ IsFiniteSet(1 .. n)
         /\ \A i \in 1 .. n : /\ 1 .. i \in SUBSET (1 .. n) /\ 1 .. i # {} /\ Max(1 .. i) = i
                              /\ (1 .. i) \ {i} = 1 .. (i - 1)
<1>1. Picks(greatest(n), 1 .. n)
  BY GreatestIn DEF Picks, greatest
<1>2. ASSUME NEW i \in 1 .. n
      PROVE  1 .. i \in SUBSET (1 .. n) /\ 1 .. i # {} /\ (1 .. i) \ {i} = 1 .. (i - 1) /\ Max(1 .. i) = i
  <2>1. 1 .. i \in SUBSET (1 .. n) /\ i \in 1 .. i /\ (1 .. i) \ {i} = 1 .. (i - 1)
    OBVIOUS
  <2>2. Max(1 .. i) \in 1 .. i /\ i <= Max(1 .. i)
    BY <2>1, GreatestIn
  <2> QED BY <2>1, <2>2
<1>3. \A t \in SUBSET (1 .. n) : greatest(n)[t] = Max(t)
  BY DEF greatest
<1>4. IsFiniteSet(1 .. n)
  BY FS_Interval
<1> QED BY <1>1, <1>2, <1>3, <1>4

-----------------------------------------------------------------------------
(***************************************************************************)
(* Sequences                                                               *)
(***************************************************************************)
(* What holds of the empty sequence, and of a sequence with one element    *)
(* more as soon as it holds of the sequence, holds of every sequence.      *)
LEMMA AppendInduction ==
  ASSUME NEW X, NEW Z, <<>> \in Z, \A s \in Seq(X), x \in X : s \in Z => Append(s, x) \in Z
  PROVE  Seq(X) \subseteq Z
<1> DEFINE Upto == {n \in Nat : \A s \in Seq(X) : Len(s) = n => s \in Z}
<1>1. 0 \in Upto
  <2>1. \A s \in Seq(X) : Len(s) = 0 => s = <<>>
    BY EmptySeq
  <2> QED BY <2>1
<1>2. ASSUME NEW n \in Upto PROVE n + 1 \in Upto
  <2>1. ASSUME NEW s \in Seq(X), Len(s) = n + 1 PROVE s \in Z
    <3>1. s # <<>>
      BY <2>1, EmptySeq
    <3>2. PICK t \in Seq(X), x \in X : s = Append(t, x)
      BY <3>1, SequenceEmptyOrAppend
    <3>3. Len(t) = n
      BY <2>1, <3>2, AppendProperties, LenProperties
    <3> QED BY <3>2, <3>3
  <2> QED BY <2>1
<1>3. Upto = Nat
  <2>1. Upto \subseteq Nat
    OBVIOUS
  <2> HIDE DEF Upto
  <2> QED BY <1>1, <1>2, <2>1, Counting
<1> QED BY <1>3, LenProperties

LEMMA ConcatRange ==
  ASSUME NEW X, NEW s \in Seq(X), NEW t \in Seq(X)
  PROVE  ToSet(s \o t) = ToSet(s) \cup ToSet(t)
<1>1. /\ s \o t \in Seq(X) /\ Len(s \o t) = Len(s) + Len(t) /\ Len(s) \in Nat /\ Len(t) \in Nat
      /\ \A i \in 1 .. Len(s) : (s \o t)[i] = s[i]
      /\ \A i \in 1 .. Len(t) : (s \o t)[Len(s) + i] = t[i]
  BY LenProperties, ConcatProperties
<1>2. DOMAIN s = 1 .. Len(s) /\ DOMAIN t = 1 .. Len(t) /\ DOMAIN (s \o t) = 1 .. Len(s) + Len(t)
  BY <1>1, LenProperties
<1>3. ASSUME NEW i \in 1 .. Len(s) + Len(t)
      PROVE  i \in 1 .. Len(s) \/ \E j \in 1 .. Len(t) : i = Len(s) + j
  <2>1. i > Len(s) => i - Len(s) \in 1 .. Len(t) /\ i = Len(s) + (i - Len(s))
    BY <1>1
  <2> QED BY <1>1, <2>1
<1>4. ASSUME NEW i \in 1 .. Len(s) + Len(t) PROVE (s \o t)[i] \in ToSet(s) \cup ToSet(t)
  BY <1>1, <1>2, <1>3 DEF ToSet
<1>5. \A i \in 1 .. Len(s) : s[i] \in ToSet(s \o t)
  <2>1. \A i \in 1 .. Len(s) : i \in DOMAIN (s \o t)
    BY <1>1, <1>2
  <2> QED BY <1>1, <2>1 DEF ToSet
<1>6. \A i \in 1 .. Len(t) : t[i] \in ToSet(s \o t)
  <2>1. \A i \in 1 .. Len(t) : Len(s) + i \in DOMAIN (s \o t)
    BY <1>1, <1>2
  <2> QED BY <1>1, <2>1 DEF ToSet
<1> QED BY <1>2, <1>4, <1>5, <1>6 DEF ToSet

LEMMA AppendConcat ==
  ASSUME NEW X, NEW s \in Seq(X), NEW t \in Seq(X), NEW x \in X
  PROVE  s \o Append(t, x) = Append(s \o t, x)
<1>1. /\ <<x>> \in Seq(X) /\ s \o t \in Seq(X)
      /\ Append(t, x) = t \o <<x>> /\ Append(s \o t, x) = (s \o t) \o <<x>>
  BY ConcatProperties, AppendIsConcat
<1> QED BY <1>1, ConcatAssociative

(* A function of each element.                                             *)
LEMMA MapAppend ==
  ASSUME NEW X, NEW Y, NEW g \in [X -> Y], NEW s \in Seq(X), NEW x \in X
  PROVE  /\ [i \in DOMAIN s |-> g[s[i]]] \in Seq(Y)
         /\ [i \in DOMAIN Append(s, x) |-> g[Append(s, x)[i]]] = Append([i \in DOMAIN s |-> g[s[i]]], g[x])
<1> DEFINE more == Append(s, x)
           n == Len(s)
           image == [i \in DOMAIN s |-> g[s[i]]]
           imageMore == [i \in DOMAIN more |-> g[more[i]]]
<1>1. /\ more \in Seq(X) /\ Len(more) = n + 1 /\ n \in Nat
      /\ \A i \in 1 .. n : more[i] = s[i]
      /\ more[n + 1] = x
  BY AppendProperties, LenProperties
<1>2. DOMAIN s = 1 .. n /\ (\A i \in 1 .. n : s[i] \in X) /\ DOMAIN more = 1 .. n + 1
  BY <1>1, LenProperties
<1> HIDE DEF more, n
<1>3. image = [i \in 1 .. n |-> g[s[i]]] /\ \A i \in 1 .. n : g[s[i]] \in Y
  BY <1>2
<1>4. image \in Seq(Y) /\ Len(image) = n /\ \A i \in 1 .. n : image[i] = g[s[i]]
  <2>1. image \in Seq(Y)
    BY <1>1, <1>3, IsASeq
  <2>2. DOMAIN image = 1 .. n
    BY <1>2
  <2>3. Len(image) = n
    BY <1>1, <2>1, <2>2, LenProperties
  <2> QED BY <1>2, <2>1, <2>3
<1>5. g[x] \in Y
  OBVIOUS
<1>6. \A i \in 1 .. n + 1 : more[i] \in X /\ g[more[i]] \in Y
  <2>1. \A i \in 1 .. n + 1 : i \in 1 .. n \/ i = n + 1
    BY <1>1
  <2> QED BY <1>1, <1>2, <2>1
<1>7. imageMore = [i \in 1 .. n + 1 |-> g[more[i]]]
  BY <1>2
<1>8. imageMore \in Seq(Y)
  BY <1>1, <1>6, <1>7, IsASeq
<1>9. DOMAIN imageMore = 1 .. n + 1 /\ \A i \in 1 .. n + 1 : imageMore[i] = g[more[i]]
  BY <1>7
<1>10. Len(imageMore) = n + 1
  BY <1>1, <1>8, <1>9, LenProperties
<1> HIDE DEF image, imageMore
<1>11. /\ Append(image, g[x]) \in Seq(Y) /\ Len(Append(image, g[x])) = n + 1
       /\ \A i \in 1 .. n : Append(image, g[x])[i] = image[i]
       /\ Append(image, g[x])[n + 1] = g[x]
  BY <1>4, <1>5, AppendProperties
<1>12. \A i \in 1 .. n + 1 : imageMore[i] = Append(image, g[x])[i]
  <2>1. \A i \in 1 .. n + 1 : i \in 1 .. n \/ i = n + 1
    BY <1>1
  <2> QED BY <1>1, <1>4, <1>9, <1>11, <2>1
<1>13. imageMore = Append(image, g[x])
  BY <1>8, <1>10, <1>11, <1>12, SeqEqual
<1> QED BY <1>4, <1>13 DEF image, imageMore, more

==================================================================================
