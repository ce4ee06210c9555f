------------------------------ MODULE DataLemmas ------------------------------
(***************************************************************************)
(* Lemmas about numbers, finite sets and sequences that the proofs of      *)
(* several components need.                                                *)
(***************************************************************************)
EXTENDS Integers, SequencesExt, SequenceTheorems, FiniteSetTheorems,
        WellFoundedInduction, TLAPS

-----------------------------------------------------------------------------
(* Induction, in a form without an operator parameter: a set that has 0    *)
(* and the successor of each of its numbers has them all.                  *)

LEMMA LessThanWellFounded ==
  \E R : IsWellFoundedOn(R, Nat) /\ R = { p \in Nat \X Nat : p[1] < p[2] }
BY NatLessThanWellFounded DEF OpToRel

LEMMA SetInduction ==
  ASSUME NEW S, 0 \in S, \A n \in Nat : n \in S => n + 1 \in S
  PROVE  Nat \subseteq S
<1> DEFINE R == { p \in Nat \X Nat : p[1] < p[2] }
           T == Nat \ S
<1>1. IsWellFoundedOn(R, Nat)
  BY LessThanWellFounded
<1> SUFFICES ASSUME T # {} PROVE FALSE
  OBVIOUS
<1>2. T \subseteq Nat
  OBVIOUS
<1> HIDE DEF R, T
<1>3. PICK x \in T : \A y \in T : ~(<<y, x>> \in R)
  BY <1>1, <1>2, WFMin
<1> USE DEF R, T
<1>4. x \in Nat \ {0} /\ x - 1 \in Nat /\ x - 1 < x
  OBVIOUS
<1>5. x - 1 \notin T
  <2>1. <<x - 1, x>> \in R
    BY <1>4
  <2> QED BY <1>3, <2>1
<1>6. x - 1 \in S
  BY <1>4, <1>5
<1> QED BY <1>4, <1>6

(* The same over the numbers up to n.                                      *)
LEMMA BoundedInduction ==
  ASSUME NEW n \in Nat, NEW S, 0 \in S,
         \A k \in 1..n : k - 1 \in S => k \in S
  PROVE  0..n \subseteq S
<1> DEFINE T == { k \in Nat : k <= n => k \in S }
<1>1. 0 \in T
  OBVIOUS
<1>2. ASSUME NEW k \in Nat, k \in T PROVE k + 1 \in T
  <2>1. CASE k + 1 <= n
    <3>1. k \in S /\ k + 1 \in 1..n /\ (k + 1) - 1 = k
      BY <1>2, <2>1
    <3> QED BY <3>1
  <2> QED BY <2>1
<1> HIDE DEF T
<1>3. Nat \subseteq T
  BY <1>1, <1>2, SetInduction
<1>4. \A k \in 0..n : k \in T /\ k <= n
  BY <1>3
<1> QED BY <1>4 DEF T

-----------------------------------------------------------------------------
(* A function defined by recursion is what its equation says: there is a   *)
(* function that satisfies the equation.                                   *)

Iteration(f, x, g, n) ==
  f = [k \in 0..n |-> IF k = 0 THEN x ELSE g[f[k - 1]]]

LEMMA IterationExists ==
  ASSUME NEW S, NEW x \in S, NEW g \in [S -> S], NEW n \in Nat
  PROVE  \E f \in [0..n -> S] : Iteration(f, x, g, n)
<1> DEFINE Iterates(f, m) ==
             f[0] = x /\ \A k \in 1..m : f[k] = g[f[k - 1]]
           T == { m \in Nat : \E f \in [0..m -> S] : Iterates(f, m) }
<1>1. 0 \in T
  <2>1. [k \in 0..0 |-> x] \in [0..0 -> S] /\ Iterates([k \in 0..0 |-> x], 0)
    OBVIOUS
  <2> QED BY <2>1
<1>2. ASSUME NEW m \in Nat, m \in T PROVE m + 1 \in T
  <2>1. PICK f \in [0..m -> S] : Iterates(f, m)
    BY <1>2
  <2> DEFINE h == [k \in 0..(m + 1) |-> IF k = m + 1 THEN g[f[m]] ELSE f[k]]
  <2>2. m \in 0..m /\ f[m] \in S /\ g[f[m]] \in S
    BY <2>1
  <2>3. \A k \in 0..(m + 1) : k = m + 1 \/ k \in 0..m
    OBVIOUS
  <2>4. h \in [0..(m + 1) -> S]
    BY <2>2, <2>3
  <2>5. h[0] = x
    BY <2>1
  <2>6. \A k \in 1..(m + 1) : h[k] = g[h[k - 1]]
    <3> SUFFICES ASSUME NEW k \in 1..(m + 1) PROVE h[k] = g[h[k - 1]]
      OBVIOUS
    <3>1. k - 1 \in 0..m /\ k - 1 # m + 1 /\ h[k - 1] = f[k - 1]
      OBVIOUS
    <3>2. CASE k = m + 1
      BY <3>1, <3>2
    <3>3. CASE k # m + 1
      BY <2>1, <3>1, <3>3
    <3> QED BY <3>2, <3>3
  <2> HIDE DEF h
  <2> QED BY <2>4, <2>5, <2>6
<1>3. n \in T
  <2> HIDE DEF T
  <2> QED BY <1>1, <1>2, SetInduction
<1>4. PICK f \in [0..n -> S] : Iterates(f, n)
  BY <1>3
<1>5. \A k \in 0..n : f[k] = IF k = 0 THEN x ELSE g[f[k - 1]]
  BY <1>4
<1>6. f = [k \in 0..n |-> f[k]]
  OBVIOUS
<1>7. [k \in 0..n |-> f[k]]
        = [k \in 0..n |-> IF k = 0 THEN x ELSE g[f[k - 1]]]
  BY <1>5
<1> QED BY <1>6, <1>7 DEF Iteration

LEMMA MaxIs ==
  ASSUME NEW S \in SUBSET Nat, NEW x \in S, \A y \in S : x >= y
  PROVE  Max(S) = x
<1>1. Max(S) \in S /\ \A y \in S : Max(S) >= y
  BY DEF Max
<1>2. Max(S) \in Nat /\ x \in Nat /\ Max(S) >= x /\ x >= Max(S)
  BY <1>1
<1> QED BY <1>2

(* What FoldLeft computes, over the places 1..n of a sequence: FoldLeft's  *)
(* own definition takes the places from the greatest down.                 *)
Folds(h, base, g, m) ==
  \A s \in SUBSET (1..m) :
    h[s] = IF s = {} THEN base ELSE g[<<h[s \ {Max(s)}], Max(s)>>]

LEMMA FoldExists ==
  ASSUME NEW S, NEW base \in S, NEW n \in Nat, NEW g \in [S \X (1..n) -> S]
  PROVE  \E h \in [SUBSET (1..n) -> S] : Folds(h, base, g, n)
<1> DEFINE Exists(m) == \E h \in [SUBSET (1..m) -> S] : Folds(h, base, g, m)
           T == { m \in Nat : m <= n => Exists(m) }
<1>1. 0 \in T
  <2> DEFINE h == [s \in SUBSET (1..0) |-> base]
  <2>1. \A s \in SUBSET (1..0) : s = {}
    OBVIOUS
  <2>2. h \in [SUBSET (1..0) -> S] /\ Folds(h, base, g, 0)
    BY <2>1 DEF Folds
  <2>3. Exists(0)
    <3> HIDE DEF h
    <3> QED BY <2>2
  <2> HIDE DEF Exists
  <2> QED BY <2>3
<1>2. ASSUME NEW m \in Nat, m \in T PROVE m + 1 \in T
  <2> SUFFICES ASSUME m + 1 <= n
               PROVE  Exists(m + 1)
    <3> HIDE DEF Exists
    <3> QED OBVIOUS
  <2>1. PICK f \in [SUBSET (1..m) -> S] : Folds(f, base, g, m)
    <3>1. Exists(m)
      <4> HIDE DEF Exists
      <4> QED BY <1>2
    <3> QED BY <3>1
  <2> DEFINE h == [ s \in SUBSET (1..(m + 1)) |->
                      IF m + 1 \in s THEN g[<<f[s \ {m + 1}], m + 1>>]
                                     ELSE f[s] ]
  <2>2. ASSUME NEW s \in SUBSET (1..(m + 1))
        PROVE  /\ m + 1 \in s => s \ {m + 1} \in SUBSET (1..m)
               /\ m + 1 \notin s => s \in SUBSET (1..m)
               /\ m + 1 \in s => Max(s) = m + 1
               /\ m + 1 \in 1..n
    <3>1. \A k \in 1..(m + 1) : k = m + 1 \/ k \in 1..m
      OBVIOUS
    <3>2. ASSUME m + 1 \in s PROVE Max(s) = m + 1
      <4>1. s \in SUBSET Nat /\ \A y \in s : m + 1 >= y
        OBVIOUS
      <4> QED BY <3>2, <4>1, MaxIs
    <3> QED BY <3>1, <3>2
  <2>3. h \in [SUBSET (1..(m + 1)) -> S]
    BY <2>1, <2>2
  <2>4. Folds(h, base, g, m + 1)
    <3> SUFFICES ASSUME NEW s \in SUBSET (1..(m + 1))
                 PROVE  h[s] = IF s = {} THEN base
                               ELSE g[<<h[s \ {Max(s)}], Max(s)>>]
      BY DEF Folds
    <3>1. CASE m + 1 \in s
      <4>1. Max(s) = m + 1 /\ s # {} /\ s \ {m + 1} \in SUBSET (1..(m + 1))
        BY <2>2, <3>1
      <4>2. h[s \ {m + 1}] = f[s \ {m + 1}]
        BY <4>1
      <4>3. h[s] = g[<<f[s \ {m + 1}], m + 1>>]
        BY <3>1
      <4> QED BY <4>1, <4>2, <4>3
    <3>2. CASE m + 1 \notin s
      <4>1. s \in SUBSET (1..m) /\ h[s] = f[s]
        BY <2>2, <3>2
      <4>2. /\ s \ {Max(s)} \in SUBSET (1..(m + 1))
            /\ m + 1 \notin s \ {Max(s)}
        BY <3>2
      <4>3. h[s \ {Max(s)}] = f[s \ {Max(s)}]
        BY <4>2
      <4> QED BY <2>1, <4>1, <4>3 DEF Folds
    <3> QED BY <3>1, <3>2
  <2> HIDE DEF h
  <2> QED BY <2>3, <2>4
<1>3. n \in T
  <2> HIDE DEF T
  <2> QED BY <1>1, <1>2, SetInduction
<1>4. Exists(n)
  <2> HIDE DEF Exists
  <2> QED BY <1>3
<1> QED BY <1>4

(* The places FoldLeft has folded after i of them.                         *)
LEMMA FirstPlaces ==
  ASSUME NEW n \in Nat, NEW i \in 1..n
  PROVE  /\ 1..i \in SUBSET (1..n) /\ 1..i # {}
         /\ Max(1..i) = i /\ (1..i) \ {i} = 1..(i - 1)
<1>1. /\ 1..i \in SUBSET (1..n) /\ i \in 1..i
      /\ 1..i \in SUBSET Nat /\ \A y \in 1..i : i >= y
      /\ (1..i) \ {i} = 1..(i - 1)
  OBVIOUS
<1> QED BY <1>1, MaxIs

(* A nonempty set of numbers has a least one.                              *)
LEMMA MinInSet ==
  ASSUME NEW S \in SUBSET Nat, S # {}
  PROVE  Min(S) \in S /\ \A y \in S : Min(S) <= y
<1> DEFINE R == { p \in Nat \X Nat : p[1] < p[2] }
<1>1. IsWellFoundedOn(R, Nat)
  BY LessThanWellFounded
<1> HIDE DEF R
<1>2. PICK x \in S : \A y \in S : ~(<<y, x>> \in R)
  BY <1>1, WFMin
<1>3. \A y \in S : ~(y < x)
  BY <1>2 DEF R
<1>4. \A y \in S : x <= y
  BY <1>3
<1> QED BY <1>4 DEF Min

(* A finite nonempty set of numbers has a greatest one.                    *)
LEMMA MaxOfFinite ==
  ASSUME NEW S \in SUBSET Nat, IsFiniteSet(S), S # {}
  PROVE  Max(S) \in S /\ \A y \in S : Max(S) >= y
<1> DEFINE HasMax(T) == \E x \in T : \A y \in T : x >= y
           G == { n \in Nat : \A T \in SUBSET Nat :
                    IsFiniteSet(T) /\ T # {} /\ Cardinality(T) = n => HasMax(T) }
<1>1. 0 \in G
  BY FS_EmptySet
<1>2. ASSUME NEW n \in Nat, n \in G PROVE n + 1 \in G
  <2> SUFFICES ASSUME NEW T \in SUBSET Nat, IsFiniteSet(T), T # {},
                      Cardinality(T) = n + 1
               PROVE  HasMax(T)
    OBVIOUS
  <2>1. PICK z \in T : TRUE
    OBVIOUS
  <2> DEFINE U == T \ {z}
  <2>2. U \in SUBSET Nat /\ IsFiniteSet(U) /\ Cardinality(U) = n
    <3>1. IsFiniteSet(U) /\ Cardinality(U) = (n + 1) - 1
      BY <2>1, FS_RemoveElement
    <3> QED BY <3>1
  <2>3. CASE U = {}
    BY <2>1, <2>3
  <2>4. CASE U # {}
    <3>1. PICK x \in U : \A y \in U : x >= y
      BY <1>2, <2>2, <2>4
    <3>2. \A y \in T : y \in U \/ y = z
      OBVIOUS
    <3>3. x \in Nat /\ z \in Nat /\ x \in T
      BY <2>1, <3>1
    <3>4. CASE x >= z
      BY <3>1, <3>2, <3>3, <3>4
    <3>5. CASE z >= x
      <4>1. \A y \in T : z >= y
        BY <3>1, <3>2, <3>3, <3>5
      <4> QED BY <2>1, <4>1
    <3> QED BY <3>3, <3>4, <3>5
  <2> QED BY <2>3, <2>4
<1>3. Nat \subseteq G
  <2> HIDE DEF G
  <2> QED BY <1>1, <1>2, SetInduction
<1>4. HasMax(S)
  BY <1>3, FS_CardinalityType
<1> QED BY <1>4 DEF Max

LEMMA MaxOfPlaces ==
  ASSUME NEW n \in Nat, NEW t \in SUBSET (1..n), t # {}
  PROVE  Max(t) \in t
<1>1. IsFiniteSet(1..n) /\ t \in SUBSET Nat
  BY FS_Interval
<1>2. IsFiniteSet(t)
  BY <1>1, FS_Subset
<1> QED BY <1>1, <1>2, MaxOfFinite

(* A function on a finite set has finitely many values.                    *)
LEMMA FiniteImage ==
  ASSUME NEW S, NEW T, NEW f \in [S -> T], IsFiniteSet(S)
  PROVE  IsFiniteSet({ f[x] : x \in S })
<1> DEFINE V == { f[x] : x \in S }
<1>1. f \in Surjection(S, V)
  BY DEF Surjection
<1> QED BY <1>1, FS_Surjection

-----------------------------------------------------------------------------
(* Sequences.                                                              *)

(* A function on the first n numbers is a sequence.                        *)
LEMMA FunctionIsSeq ==
  ASSUME NEW S, NEW n \in Nat, NEW f \in [1..n -> S]
  PROVE  f \in Seq(S) /\ Len(f) = n
OBVIOUS

(* The last element of a sequence is one of its elements.                  *)
LEMMA LastOfSeq ==
  ASSUME NEW S, NEW s \in Seq(S), s # <<>>
  PROVE  /\ Last(s) \in S
         /\ Len(s) \in DOMAIN s
         /\ Last(s) = s[Len(s)]
<1>1. Len(s) \in Nat \ {0} /\ DOMAIN s = 1..Len(s)
  BY LenProperties, EmptySeq
<1> QED BY <1>1, ElementOfSeq DEF Last

LEMMA AppendTypes ==
  ASSUME NEW S, NEW s \in Seq(S), NEW e \in S
  PROVE  /\ Append(s, e) \in Seq(S)
         /\ Append(s, e) # <<>>
         /\ Len(Append(s, e)) = Len(s) + 1
         /\ DOMAIN Append(s, e) = 1..(Len(s) + 1)
         /\ \A i \in DOMAIN s : Append(s, e)[i] = s[i]
         /\ Append(s, e)[Len(s) + 1] = e
         /\ Last(Append(s, e)) = e
BY AppendProperties DEF Last

(* What a sequence and one more element hold.                              *)
LEMMA AppendSet ==
  ASSUME NEW S, NEW s \in Seq(S), NEW e \in S
  PROVE  ToSet(Append(s, e)) = ToSet(s) \cup {e}
<1> DEFINE t == Append(s, e)
           n == Len(s)
<1>1. n \in Nat /\ DOMAIN s = 1..n
  BY LenProperties
<1>2. /\ DOMAIN t = 1..(n + 1) /\ t[n + 1] = e
      /\ \A i \in DOMAIN s : t[i] = s[i]
  BY AppendTypes
<1> HIDE DEF t, n
<1>3. 1..(n + 1) = (1..n) \cup {n + 1}
  BY <1>1
<1>4. ToSet(t) = ToSet(s) \cup {e}
  BY <1>1, <1>2, <1>3 DEF ToSet
<1> QED BY <1>4 DEF t

(* A sequence without duplicates stays one when it gets an element it does *)
(* not hold.                                                               *)
LEMMA AppendNew ==
  ASSUME NEW S, NEW s \in Seq(S), IsInjective(s), NEW e \in S, e \notin ToSet(s)
  PROVE  IsInjective(Append(s, e))
<1> DEFINE t == Append(s, e)
           n == Len(s)
<1>1. n \in Nat /\ DOMAIN s = 1..n
  BY LenProperties
<1>2. /\ DOMAIN t = 1..(n + 1) /\ t[n + 1] = e
      /\ \A i \in DOMAIN s : t[i] = s[i]
  BY AppendTypes
<1> HIDE DEF t, n
<1>3. 1..(n + 1) = (1..n) \cup {n + 1}
  BY <1>1
<1>4. \A i \in 1..n : t[i] = s[i] /\ s[i] # e
  BY <1>1, <1>2 DEF ToSet
<1>5. \A i, j \in 1..n : s[i] = s[j] => i = j
  BY <1>1 DEF IsInjective
<1>6. IsInjective(t)
  <2> SUFFICES ASSUME NEW i \in 1..(n + 1), NEW j \in 1..(n + 1), t[i] = t[j]
               PROVE  i = j
    BY <1>2 DEF IsInjective
  <2>1. i \in 1..n \/ i = n + 1
    BY <1>3
  <2>2. j \in 1..n \/ j = n + 1
    BY <1>3
  <2> QED BY <1>2, <1>4, <1>5, <2>1, <2>2
<1> QED BY <1>6 DEF t

(* A sequence holds what its front holds, and its last element.            *)
LEMMA FrontLastSet ==
  ASSUME NEW S, NEW s \in Seq(S), s # <<>>
  PROVE  /\ Front(s) \in Seq(S)
         /\ Len(s) \in Nat \ {0}
         /\ Len(Front(s)) = Len(s) - 1
         /\ Last(s) \in S
         /\ ToSet(s) = ToSet(Front(s)) \cup {Last(s)}
<1> DEFINE n == Len(s)
           f == Front(s)
<1>1. n \in Nat \ {0} /\ DOMAIN s = 1..n /\ Last(s) \in S /\ Last(s) = s[n]
  BY LastOfSeq, LenProperties
<1>2. \A i \in 1..n : s[i] \in S
  BY <1>1, ElementOfSeq
<1>3. /\ f \in Seq(S) /\ Len(f) = n - 1
      /\ \A i \in 1..(n - 1) : f[i] = s[i]
  <2>1. 1 \in 1..(n + 1) /\ n - 1 \in (1 - 1)..n
    BY <1>1
  <2>2. /\ f \in Seq(S)
        /\ Len(f) = IF 1 <= n - 1 THEN (n - 1) - 1 + 1 ELSE 0
        /\ \A i \in 1..((n - 1) - 1 + 1) : f[i] = s[1 + i - 1]
    BY <1>1, <1>2, SubSeqProperties DEF Front
  <2> HIDE DEF f, n
  <2> QED BY <1>1, <2>2
<1>4. DOMAIN f = 1..(n - 1)
  BY <1>3, LenProperties
<1> HIDE DEF f, n
<1>5. 1..n = (1..(n - 1)) \cup {n}
  BY <1>1
<1>6. ToSet(s) = ToSet(f) \cup {s[n]}
  BY <1>1, <1>3, <1>4, <1>5 DEF ToSet
<1> QED BY <1>1, <1>3, <1>6 DEF f, n

(* What is left of a sequence without duplicates when its head is gone.    *)
LEMMA TailSet ==
  ASSUME NEW S, NEW s \in Seq(S), IsInjective(s), s # <<>>
  PROVE  /\ Head(s) \in ToSet(s)
         /\ Tail(s) \in Seq(S) /\ IsInjective(Tail(s))
         /\ \A e : e \in ToSet(Tail(s)) <=> e \in ToSet(s) /\ e # Head(s)
<1> DEFINE n == Len(s)
           t == Tail(s)
<1>1. n \in Nat \ {0} /\ DOMAIN s = 1..n /\ Head(s) = s[1]
  BY LenProperties, EmptySeq, HeadTailProperties
<1>2. t \in Seq(S) /\ Len(t) = n - 1
  BY HeadTailProperties
<1>3. DOMAIN t = 1..(n - 1)
  BY <1>2, LenProperties
<1>4. \A i \in 1..(n - 1) : t[i] = s[i + 1]
  BY HeadTailProperties
<1> HIDE DEF t, n
<1>5. \A i \in 1..(n - 1) : i + 1 \in 1..n /\ i + 1 # 1
  BY <1>1
<1>6. \A i \in 1..n : i = 1 \/ (i - 1 \in 1..(n - 1) /\ (i - 1) + 1 = i)
  BY <1>1
<1>7. \A i, j \in 1..n : s[i] = s[j] => i = j
  BY <1>1 DEF IsInjective
<1>8. IsInjective(t)
  <2> SUFFICES ASSUME NEW i \in 1..(n - 1), NEW j \in 1..(n - 1), t[i] = t[j]
               PROVE  i = j
    BY <1>3 DEF IsInjective
  <2>1. i + 1 = j + 1
    BY <1>4, <1>5, <1>7
  <2> QED BY <1>1, <2>1
<1>9. Head(s) \in ToSet(s)
  <2>1. 1 \in 1..n
    BY <1>1
  <2> QED BY <1>1, <2>1 DEF ToSet
<1>10. ASSUME NEW e, e \in ToSet(t) PROVE e \in ToSet(s) /\ e # Head(s)
  <2>1. PICK i \in 1..(n - 1) : e = t[i]
    BY <1>3, <1>10 DEF ToSet
  <2>2. e = s[i + 1] /\ i + 1 \in 1..n /\ i + 1 # 1 /\ 1 \in 1..n
    BY <1>1, <1>4, <1>5, <2>1
  <2>3. e # s[1]
    BY <1>7, <2>2
  <2> QED BY <1>1, <2>2, <2>3 DEF ToSet
<1>11. ASSUME NEW e, e \in ToSet(s), e # Head(s) PROVE e \in ToSet(t)
  <2>1. PICK i \in 1..n : e = s[i]
    BY <1>1, <1>11 DEF ToSet
  <2>2. i - 1 \in 1..(n - 1) /\ (i - 1) + 1 = i
    BY <1>1, <1>6, <1>11, <2>1
  <2>3. e = t[i - 1]
    BY <1>4, <2>1, <2>2
  <2> QED BY <1>3, <2>2, <2>3 DEF ToSet
<1> QED BY <1>2, <1>8, <1>9, <1>10, <1>11 DEF t

(* A prefix agrees with the whole wherever it is defined.                  *)
LEMMA PrefixByElements ==
  ASSUME NEW S, NEW s \in Seq(S), NEW t \in Seq(S), Len(s) <= Len(t),
         \A k \in 1..Len(s) : s[k] = t[k]
  PROVE  IsPrefix(s, t)
<1>1. /\ Len(s) \in Nat /\ Len(t) \in Nat
      /\ \A i \in 1..Len(s) : s[i] \in S /\ t[i] \in S
  BY LenProperties, ElementOfSeq
<1> DEFINE p == SubSeq(s, 1, Len(s))
           q == SubSeq(t, 1, Len(s))
<1>2. /\ p \in Seq(S) /\ Len(p) = Len(s)
      /\ \A i \in 1..Len(s) : p[i] = s[i]
  BY <1>1, SubSeqProperties
<1>3. /\ q \in Seq(S) /\ Len(q) = Len(s)
      /\ \A i \in 1..Len(s) : q[i] = t[i]
  BY <1>1, SubSeqProperties
<1> HIDE DEF p, q
<1>4. p = q
  BY <1>2, <1>3, SeqEqual
<1> QED BY <1>4 DEF IsPrefix, p, q

(* A suffix agrees with the whole counted from the end.                    *)
LEMMA SuffixByElements ==
  ASSUME NEW S, NEW s \in Seq(S), NEW t \in Seq(S), Len(s) <= Len(t),
         \A k \in DOMAIN s : s[k] = t[(Len(t) - Len(s)) + k]
  PROVE  IsSuffix(s, t)
<1>1. /\ Len(s) \in Nat /\ Len(t) \in Nat
      /\ DOMAIN s = 1..Len(s)
      /\ \A i \in 1..Len(s) : s[i] \in S
      /\ \A i \in 1..Len(t) : t[i] \in S
  BY LenProperties, ElementOfSeq
<1> DEFINE r == Reverse(s)
           q == Reverse(t)
<1>2. /\ r \in Seq(S) /\ Len(r) = Len(s)
      /\ \A i \in 1..Len(s) : r[i] = s[(Len(s) - i) + 1]
  BY <1>1 DEF Reverse
<1>3. /\ q \in Seq(S) /\ Len(q) = Len(t)
      /\ \A i \in 1..Len(t) : q[i] = t[(Len(t) - i) + 1]
  BY <1>1 DEF Reverse
<1> HIDE DEF r, q
<1>4. \A k \in 1..Len(r) : r[k] = q[k]
  <2> SUFFICES ASSUME NEW k \in 1..Len(s) PROVE r[k] = q[k]
    BY <1>2
  <2>1. /\ (Len(s) - k) + 1 \in 1..Len(s)
        /\ (Len(t) - Len(s)) + ((Len(s) - k) + 1) = (Len(t) - k) + 1
        /\ k \in 1..Len(t)
    BY <1>1
  <2> QED BY <1>1, <1>2, <1>3, <2>1
<1>5. IsPrefix(r, q)
  BY <1>2, <1>3, <1>4, PrefixByElements
<1> QED BY <1>5 DEF IsSuffix, r, q
-----------------------------------------------------------------------------
(* FlattenSeq, whose definition takes one sequence after the other.        *)

Flattens(F, s) ==
  /\ F[0] = <<>>
  /\ \A i \in 1..Len(s) : F[i] = F[i - 1] \o s[i]

LEMMA FlattenExists ==
  ASSUME NEW S, NEW s \in Seq(Seq(S))
  PROVE  \E F \in [0..Len(s) -> Seq(S)] :
           Flattens(F, s) /\ FlattenSeq(s) = F[Len(s)]
<1> DEFINE n == Len(s)
           g == [p \in Seq(S) \X (1..n) |-> p[1] \o s[p[2]]]
           f == CHOOSE flatten : flatten = [ i \in 1..n |->
                  IF i = 1 THEN s[i] ELSE flatten[i - 1] \o s[i] ]
<1>1. n \in Nat /\ \A i \in 1..n : s[i] \in Seq(S)
  BY LenProperties, ElementOfSeq
<1>2. <<>> \in Seq(S)
  BY EmptySeq
<1>3. g \in [Seq(S) \X (1..n) -> Seq(S)]
  <2>1. \A p \in Seq(S) \X (1..n) : p[1] \o s[p[2]] \in Seq(S)
    BY <1>1, ConcatProperties
  <2> QED BY <2>1
<1>4. PICK h \in [SUBSET (1..n) -> Seq(S)] : Folds(h, <<>>, g, n)
  <2> HIDE DEF n, g
  <2> QED BY <1>1, <1>2, <1>3, FoldExists
<1> DEFINE F == [i \in 0..n |-> h[1..i]]
<1>5. F \in [0..n -> Seq(S)] /\ F[0] = <<>>
  <2>1. \A i \in 0..n : 1..i \in SUBSET (1..n)
    BY <1>1
  <2>2. 1..0 = {} /\ {} \in SUBSET (1..n) /\ 0 \in 0..n
    BY <1>1
  <2>3. h[{}] = <<>>
    BY <1>4, <2>2 DEF Folds
  <2>4. F[0] = <<>>
    BY <2>2, <2>3
  <2> QED BY <1>4, <2>1, <2>4
<1>6. ASSUME NEW i \in 1..n PROVE F[i] = F[i - 1] \o s[i]
  <2>1. /\ 1..i \in SUBSET (1..n) /\ 1..i # {}
        /\ Max(1..i) = i /\ (1..i) \ {i} = 1..(i - 1)
    <3> HIDE DEF n
    <3> QED BY <1>1, FirstPlaces
  <2>2. h[1..i] = g[<<h[1..(i - 1)], i>>]
    BY <1>4, <2>1 DEF Folds
  <2>3. i \in 0..n /\ i - 1 \in 0..n /\ 1..(i - 1) \in SUBSET (1..n)
    BY <1>1
  <2>4. h[1..(i - 1)] \in Seq(S)
    BY <1>4, <2>3
  <2>5. g[<<h[1..(i - 1)], i>>] = h[1..(i - 1)] \o s[i]
    BY <2>4
  <2> QED BY <2>2, <2>3, <2>5
<1>7. Flattens(F, s)
  BY <1>5, <1>6 DEF Flattens
<1>8. CASE n = 0
  <2>1. s = <<>>
    BY <1>8, EmptySeq
  <2>2. FlattenSeq(s) = s
    BY <1>8 DEF FlattenSeq
  <2> HIDE DEF F
  <2> QED BY <1>5, <1>7, <1>8, <2>1, <2>2
<1>9. CASE n # 0
  <2> DEFINE e == [i \in 1..n |-> F[i]]
  <2>1. ASSUME NEW i \in 1..n
        PROVE  e[i] = IF i = 1 THEN s[i] ELSE e[i - 1] \o s[i]
    <3>1. e[i] = F[i] /\ F[i] = F[i - 1] \o s[i] /\ s[i] \in Seq(S)
      BY <1>1, <1>6
    <3>2. CASE i = 1
      <4>1. F[i - 1] = <<>>
        <5>1. i - 1 = 0
          BY <3>2
        <5> HIDE DEF F
        <5> QED BY <1>5, <5>1
      <4> QED BY <3>1, <3>2, <4>1, ConcatEmptySeq
    <3>3. CASE i # 1
      <4>1. i - 1 \in 1..n
        BY <1>1, <3>3
      <4>2. e[i - 1] = F[i - 1]
        BY <4>1
      <4> HIDE DEF F, e
      <4> QED BY <3>1, <3>3, <4>2
    <3> QED BY <3>2, <3>3
  <2>2. e = [i \in 1..n |-> e[i]]
    OBVIOUS
  <2>3. e = [i \in 1..n |-> IF i = 1 THEN s[i] ELSE e[i - 1] \o s[i]]
    <3> HIDE DEF e
    <3> QED BY <2>1, <2>2
  <2>4. f = [i \in 1..n |-> IF i = 1 THEN s[i] ELSE f[i - 1] \o s[i]]
    <3> HIDE DEF e
    <3> QED BY <2>3
  <2> DEFINE T == {i \in Nat : i \in 1..n => f[i] = F[i]}
  <2>5. 0 \in T
    OBVIOUS
  <2>6. ASSUME NEW i \in Nat, i \in T PROVE i + 1 \in T
    <3> SUFFICES ASSUME i + 1 \in 1..n PROVE f[i + 1] = F[i + 1]
      OBVIOUS
    <3>1. f[i + 1] = IF i + 1 = 1 THEN s[i + 1] ELSE f[(i + 1) - 1] \o s[i + 1]
      <4> HIDE DEF f
      <4> QED BY <2>4
    <3>2. e[i + 1] = IF i + 1 = 1 THEN s[i + 1] ELSE e[(i + 1) - 1] \o s[i + 1]
      <4> HIDE DEF e
      <4> QED BY <2>1
    <3>3. e[i + 1] = F[i + 1] /\ (i + 1) - 1 = i
      OBVIOUS
    <3>4. CASE i + 1 = 1
      <4> HIDE DEF f, e, F
      <4> QED BY <3>1, <3>2, <3>3, <3>4
    <3>5. CASE i + 1 # 1
      <4>1. i \in 1..n
        BY <1>1, <3>5
      <4>2. f[i] = F[i] /\ e[i] = F[i]
        BY <2>6, <4>1
      <4> HIDE DEF f, e, F
      <4> QED BY <3>1, <3>2, <3>3, <3>5, <4>2
    <3> QED BY <3>4, <3>5
  <2>7. Nat \subseteq T
    <3> HIDE DEF T
    <3> QED BY <2>5, <2>6, SetInduction
  <2>8. n \in 1..n
    BY <1>1, <1>9
  <2>9. f[n] = F[n]
    <3> HIDE DEF f, F
    <3> QED BY <1>1, <2>7, <2>8
  <2>10. FlattenSeq(s) = f[n]
    BY <1>9 DEF FlattenSeq
  <2> HIDE DEF f, F
  <2> QED BY <1>5, <1>7, <2>9, <2>10
<1> QED BY <1>8, <1>9

LEMMA FlattenIs ==
  ASSUME NEW S, NEW s \in Seq(Seq(S)),
         NEW F \in [0..Len(s) -> Seq(S)], Flattens(F, s)
  PROVE  FlattenSeq(s) = F[Len(s)]
<1> DEFINE n == Len(s)
<1>1. n \in Nat
  BY LenProperties
<1>2. PICK G \in [0..n -> Seq(S)] : Flattens(G, s) /\ FlattenSeq(s) = G[n]
  BY FlattenExists
<1> DEFINE T == {i \in 0..n : F[i] = G[i]}
<1>3. 0 \in T
  BY <1>1, <1>2 DEF Flattens
<1>4. ASSUME NEW k \in 1..n, k - 1 \in T PROVE k \in T
  <2>1. F[k] = F[k - 1] \o s[k] /\ G[k] = G[k - 1] \o s[k]
    BY <1>2 DEF Flattens
  <2>2. F[k - 1] = G[k - 1] /\ k \in 0..n
    BY <1>1, <1>4
  <2> QED BY <2>1, <2>2
<1>5. 0..n \subseteq T
  <2> HIDE DEF n, T
  <2> QED BY <1>1, <1>3, <1>4, BoundedInduction
<1> QED BY <1>1, <1>2, <1>5

LEMMA FlattenType ==
  ASSUME NEW S, NEW s \in Seq(Seq(S))
  PROVE  FlattenSeq(s) \in Seq(S)
<1>1. Len(s) \in 0..Len(s)
  BY LenProperties
<1> QED BY <1>1, FlattenExists

LEMMA FlattenNone == FlattenSeq(<<>>) = <<>>
BY DEF FlattenSeq

LEMMA FlattenOne ==
  ASSUME NEW S, NEW e \in Seq(S)
  PROVE  FlattenSeq(<<e>>) = e
<1> DEFINE s == <<e>>
           F == [i \in 0..1 |-> IF i = 0 THEN <<>> ELSE e]
<1>1. s \in Seq(Seq(S)) /\ Len(s) = 1 /\ s[1] = e
  OBVIOUS
<1>2. <<>> \in Seq(S) /\ <<>> \o e = e
  BY EmptySeq, ConcatEmptySeq
<1>3. F \in [0..1 -> Seq(S)] /\ F[0] = <<>> /\ F[1] = e
  BY <1>2
<1> HIDE DEF s, F
<1>4. \A i \in 1..1 : F[i] = F[i - 1] \o s[i]
  <2>1. \A i \in 1..1 : i = 1 /\ i - 1 = 0
    OBVIOUS
  <2>2. F[1] = F[0] \o s[1]
    BY <1>1, <1>2, <1>3
  <2> QED BY <2>1, <2>2
<1>5. Flattens(F, s)
  BY <1>1, <1>3, <1>4 DEF Flattens
<1>6. FlattenSeq(s) = F[Len(s)]
  BY <1>1, <1>3, <1>5, FlattenIs
<1> QED BY <1>1, <1>3, <1>6 DEF s

LEMMA FlattenConcat ==
  ASSUME NEW S, NEW s \in Seq(Seq(S)), NEW t \in Seq(Seq(S))
  PROVE  FlattenSeq(s \o t) = FlattenSeq(s) \o FlattenSeq(t)
<1> DEFINE m == Len(s)
           n == Len(t)
           u == s \o t
<1>1. m \in Nat /\ n \in Nat
  BY LenProperties
<1>2. /\ u \in Seq(Seq(S)) /\ Len(u) = m + n
      /\ \A i \in 1..(m + n) : u[i] = IF i <= m THEN s[i] ELSE t[i - m]
  BY ConcatProperties
<1>3. PICK F \in [0..m -> Seq(S)] : Flattens(F, s) /\ FlattenSeq(s) = F[m]
  BY FlattenExists
<1>4. PICK G \in [0..n -> Seq(S)] : Flattens(G, t) /\ FlattenSeq(t) = G[n]
  BY FlattenExists
<1>5. \A i \in 1..n : t[i] \in Seq(S)
  BY ElementOfSeq
<1> DEFINE K == [i \in 0..(m + n) |-> IF i <= m THEN F[i] ELSE F[m] \o G[i - m]]
<1>6. F[m] \in Seq(S)
  BY <1>1, <1>3
<1>7. K \in [0..(m + n) -> Seq(S)]
  <2>1. ASSUME NEW i \in 0..(m + n)
        PROVE  (IF i <= m THEN F[i] ELSE F[m] \o G[i - m]) \in Seq(S)
    <3>1. CASE i <= m
      <4>1. i \in 0..m
        BY <1>1, <3>1
      <4>2. F[i] \in Seq(S)
        <5> HIDE DEF m
        <5> QED BY <1>3, <4>1
      <4> QED BY <3>1, <4>2
    <3>2. CASE ~(i <= m)
      <4>1. G[i - m] \in Seq(S)
        <5>1. i - m \in 0..n
          BY <1>1, <3>2
        <5> HIDE DEF m, n
        <5> QED BY <1>4, <5>1
      <4> QED BY <1>6, <3>2, <4>1, ConcatProperties
    <3> QED BY <3>1, <3>2
  <2> QED BY <2>1
<1>8. K[0] = <<>>
  BY <1>1, <1>3 DEF Flattens
<1>9. ASSUME NEW i \in 1..(m + n) PROVE K[i] = K[i - 1] \o u[i]
  <2>1. CASE i <= m
    <3>1. i \in 1..m /\ i - 1 <= m /\ i \in 0..(m + n) /\ i - 1 \in 0..(m + n)
      BY <1>1, <2>1
    <3>2. K[i] = F[i] /\ K[i - 1] = F[i - 1] /\ u[i] = s[i]
      BY <1>2, <2>1, <3>1
    <3>3. F[i] = F[i - 1] \o s[i]
      BY <1>3, <3>1 DEF Flattens
    <3> QED BY <3>2, <3>3
  <2>2. CASE ~(i <= m)
    <3> DEFINE j == i - m
    <3>1. j \in 1..n /\ j - 1 \in 0..n /\ i \in 0..(m + n) /\ i - 1 \in 0..(m + n)
      BY <1>1, <2>2
    <3>2. K[i] = F[m] \o G[j] /\ u[i] = t[j]
      BY <1>2, <2>2, <3>1
    <3>3. G[j] = G[j - 1] \o t[j] /\ G[j - 1] \in Seq(S) /\ t[j] \in Seq(S)
      BY <1>4, <1>5, <3>1 DEF Flattens
    <3>4. K[i - 1] = F[m] \o G[j - 1]
      <4>1. CASE i - 1 <= m
        <5>1. i - 1 = m /\ j - 1 = 0
          BY <1>1, <2>2, <4>1
        <5>2. G[j - 1] = <<>>
          <6> HIDE DEF j
          <6> QED BY <1>4, <5>1 DEF Flattens
        <5>3. K[i - 1] = F[m]
          BY <3>1, <5>1
        <5> HIDE DEF K, m, j
        <5> QED BY <1>6, <5>2, <5>3, ConcatEmptySeq
      <4>2. CASE ~(i - 1 <= m)
        <5>1. (i - 1) - m = j - 1
          BY <1>1
        <5> QED BY <3>1, <4>2, <5>1
      <4> QED BY <4>1, <4>2
    <3>5. F[m] \o (G[j - 1] \o t[j]) = (F[m] \o G[j - 1]) \o t[j]
      <4>1. \A x, y, z \in Seq(S) : (x \o y) \o z = x \o (y \o z)
        OBVIOUS
      <4> HIDE DEF m, j
      <4> QED BY <1>6, <3>3, <4>1
    <3> HIDE DEF K, m, j, u
    <3> QED BY <3>2, <3>3, <3>4, <3>5
  <2> QED BY <2>1, <2>2
<1> HIDE DEF K, u, m, n
<1>10. Flattens(K, u)
  BY <1>2, <1>8, <1>9 DEF Flattens
<1>11. FlattenSeq(u) = K[m + n]
  BY <1>2, <1>7, <1>10, FlattenIs
<1>12. K[m + n] = F[m] \o G[n]
  <2>1. m + n \in 0..(m + n)
    BY <1>1
  <2>2. CASE n = 0
    <3>1. K[m + n] = F[m] /\ G[n] = <<>>
      BY <1>1, <1>4, <2>1, <2>2 DEF K, Flattens
    <3> QED BY <1>6, <3>1, ConcatEmptySeq
  <2>3. CASE n # 0
    <3>1. ~(m + n <= m) /\ (m + n) - m = n
      BY <1>1, <2>3
    <3> QED BY <2>1, <3>1 DEF K
  <2> QED BY <2>2, <2>3
<1> QED BY <1>3, <1>4, <1>11, <1>12 DEF u

(* Flattening what has its places from two sequences in a row.             *)
LEMMA FlattenSplit ==
  ASSUME NEW S, NEW s \in Seq(Seq(S)), NEW t \in Seq(Seq(S)),
         NEW p \in Seq(Seq(S)), Len(p) = Len(s) + Len(t),
         \A i \in 1..Len(s) : p[i] = s[i],
         \A i \in 1..Len(t) : p[Len(s) + i] = t[i]
  PROVE  FlattenSeq(p) = FlattenSeq(s) \o FlattenSeq(t)
<1> DEFINE m == Len(s)
           n == Len(t)
<1>1. /\ m \in Nat /\ n \in Nat
      /\ s \o t \in Seq(Seq(S)) /\ Len(s \o t) = m + n
      /\ \A i \in 1..(m + n) : (s \o t)[i] = IF i <= m THEN s[i] ELSE t[i - m]
  BY LenProperties, ConcatProperties
<1>2. ASSUME NEW i \in 1..(m + n) PROVE p[i] = (s \o t)[i]
  <2>1. CASE i <= m
    BY <1>1, <2>1
  <2>2. CASE ~(i <= m)
    <3>1. i - m \in 1..n /\ m + (i - m) = i
      BY <1>1, <2>2
    <3>2. p[m + (i - m)] = t[i - m]
      BY <3>1
    <3> QED BY <1>1, <2>2, <3>1, <3>2
  <2> QED BY <2>1, <2>2
<1>3. p = s \o t
  BY <1>1, <1>2, SeqEqual
<1> QED BY <1>3, FlattenConcat

LEMMA FlattenEmpties ==
  ASSUME NEW n \in Nat
  PROVE  FlattenSeq([i \in 1..n |-> <<>>]) = <<>>
<1> DEFINE s == [i \in 1..n |-> <<>>]
           F == [i \in 0..n |-> <<>>]
<1>1. <<>> \in Seq({}) /\ <<>> \o <<>> = <<>>
  OBVIOUS
<1>2. s \in Seq(Seq({})) /\ Len(s) = n /\ \A i \in 1..n : s[i] = <<>>
  OBVIOUS
<1>3. F \in [0..n -> Seq({})] /\ \A i \in 0..n : F[i] = <<>>
  OBVIOUS
<1> HIDE DEF s, F
<1>4. Flattens(F, s)
  <2>1. F[0] = <<>>
    BY <1>3
  <2>2. \A i \in 1..n : F[i] = <<>> /\ F[i - 1] = <<>> /\ s[i] = <<>>
    BY <1>2, <1>3
  <2> QED BY <1>1, <1>2, <2>1, <2>2 DEF Flattens
<1>5. FlattenSeq(s) = F[n]
  BY <1>2, <1>3, <1>4, FlattenIs
<1>6. F[n] = <<>>
  BY <1>3
<1> QED BY <1>5, <1>6 DEF s

LEMMA FlattenSingles ==
  ASSUME NEW S, NEW c \in Seq(S)
  PROVE  FlattenSeq([i \in DOMAIN c |-> <<c[i]>>]) = c
<1> DEFINE n == Len(c)
           s == [i \in DOMAIN c |-> <<c[i]>>]
           F == [i \in 0..n |-> SubSeq(c, 1, i)]
<1>1. n \in Nat /\ DOMAIN c = 1..n /\ \A i \in 1..n : c[i] \in S
  BY LenProperties, ElementOfSeq
<1>2. s \in [1..n -> Seq(S)] /\ \A i \in 1..n : s[i] = <<c[i]>>
  BY <1>1
<1>3. s \in Seq(Seq(S)) /\ Len(s) = n
  BY <1>1, <1>2
<1>4. ASSUME NEW i \in 0..n PROVE SubSeq(c, 1, i) \in Seq(S)
  <2>1. i \in Int /\ \A j \in 1..i : c[j] \in S
    BY <1>1
  <2> QED BY <2>1, SubSeqProperties
<1>5. F \in [0..n -> Seq(S)] /\ \A i \in 0..n : F[i] = SubSeq(c, 1, i)
  BY <1>4
<1>6. F[0] = <<>>
  <2>1. 0 \in 0..n
    BY <1>1
  <2>2. SubSeq(c, 1, 0) = <<>>
    BY SubSeqEmpty
  <2> HIDE DEF n, F
  <2> QED BY <1>5, <2>1, <2>2
<1>7. ASSUME NEW i \in 1..n PROVE F[i] = F[i - 1] \o s[i]
  <2>1. 1 \in 1..n /\ i \in 1..n /\ i \in 0..n /\ i - 1 \in 0..n
    BY <1>1
  <2>2. SubSeq(c, 1, i) = SubSeq(c, 1, i - 1) \o <<c[i]>>
    BY <2>1, SubSeqRecursiveSecond
  <2> HIDE DEF F, s, n
  <2> QED BY <1>2, <1>5, <2>1, <2>2
<1>8. F[n] = c
  <2>1. n \in 0..n
    BY <1>1
  <2>2. F[n] = SubSeq(c, 1, n)
    <3> HIDE DEF n, F
    <3> QED BY <1>5, <2>1
  <2> QED BY <2>2, SubSeqFull
<1> HIDE DEF F, s, n
<1>9. Flattens(F, s)
  BY <1>3, <1>6, <1>7 DEF Flattens
<1>10. FlattenSeq(s) = F[n]
  BY <1>3, <1>5, <1>9, FlattenIs
<1> QED BY <1>8, <1>10 DEF s

(* What the elements of a sequence give, each a sequence, one after the    *)
(* other.                                                                  *)
Given(F, s) == FlattenSeq([i \in DOMAIN s |-> F[s[i]]])

LEMMA GivenType ==
  ASSUME NEW A, NEW B, NEW F \in [A -> Seq(B)], NEW s \in Seq(A)
  PROVE  /\ Given(F, s) \in Seq(B)
         /\ [i \in DOMAIN s |-> F[s[i]]] \in Seq(Seq(B))
         /\ Len([i \in DOMAIN s |-> F[s[i]]]) = Len(s)
<1> DEFINE f == [i \in DOMAIN s |-> F[s[i]]]
           n == Len(s)
<1>1. n \in Nat /\ DOMAIN s = 1..n /\ \A i \in 1..n : s[i] \in A
  BY LenProperties, ElementOfSeq
<1>2. f \in [1..n -> Seq(B)]
  BY <1>1
<1> HIDE DEF f, n
<1>3. f \in Seq(Seq(B)) /\ Len(f) = n
  BY <1>1, <1>2, FunctionIsSeq
<1>4. FlattenSeq(f) \in Seq(B)
  BY <1>3, FlattenType
<1> QED BY <1>3, <1>4 DEF Given, f, n

LEMMA GivenConcat ==
  ASSUME NEW A, NEW B, NEW F \in [A -> Seq(B)], NEW s \in Seq(A), NEW t \in Seq(A)
  PROVE  Given(F, s \o t) = Given(F, s) \o Given(F, t)
<1> DEFINE m == Len(s)
           n == Len(t)
           u == s \o t
           f == [i \in DOMAIN s |-> F[s[i]]]
           g == [i \in DOMAIN t |-> F[t[i]]]
           h == [i \in DOMAIN u |-> F[u[i]]]
<1>1. /\ m \in Nat /\ n \in Nat /\ DOMAIN s = 1..m /\ DOMAIN t = 1..n
      /\ u \in Seq(A) /\ Len(u) = m + n
      /\ \A i \in 1..(m + n) : u[i] = IF i <= m THEN s[i] ELSE t[i - m]
  BY LenProperties, ConcatProperties
<1>2. DOMAIN u = 1..(m + n)
  BY <1>1, LenProperties
<1> HIDE DEF m, n, u
<1>3. \A i \in 1..m : h[i] = f[i]
  <2>1. \A i \in 1..m : i \in 1..(m + n) /\ i <= m
    BY <1>1
  <2> QED BY <1>1, <1>2, <2>1
<1>4. ASSUME NEW i \in 1..n PROVE h[m + i] = g[i]
  <2>1. m + i \in 1..(m + n) /\ ~(m + i <= m) /\ (m + i) - m = i
    BY <1>1
  <2>2. u[m + i] = t[i]
    BY <1>1, <2>1
  <2>3. h[m + i] = F[u[m + i]]
    BY <1>2, <2>1
  <2> QED BY <1>1, <2>2, <2>3
<1>5. /\ f \in Seq(Seq(B)) /\ Len(f) = m
      /\ g \in Seq(Seq(B)) /\ Len(g) = n
      /\ h \in Seq(Seq(B)) /\ Len(h) = m + n
  <2>1. f \in Seq(Seq(B)) /\ Len(f) = m
    <3>1. f \in Seq(Seq(B)) /\ Len(f) = Len(s)
      BY <1>1, GivenType
    <3> HIDE DEF f
    <3> QED BY <3>1 DEF m
  <2>2. g \in Seq(Seq(B)) /\ Len(g) = n
    <3>1. g \in Seq(Seq(B)) /\ Len(g) = Len(t)
      BY <1>1, GivenType
    <3> HIDE DEF g
    <3> QED BY <3>1 DEF n
  <2>3. h \in Seq(Seq(B)) /\ Len(h) = Len(u)
    BY <1>1, GivenType
  <2> HIDE DEF f, g, h
  <2> QED BY <1>1, <2>1, <2>2, <2>3
<1>6. /\ FlattenSeq(f) = Given(F, s) /\ FlattenSeq(g) = Given(F, t)
      /\ FlattenSeq(h) = Given(F, u)
  BY DEF Given
<1> HIDE DEF f, g, h
<1>7. /\ \A i \in 1..Len(f) : h[i] = f[i]
      /\ \A i \in 1..Len(g) : h[Len(f) + i] = g[i]
      /\ Len(h) = Len(f) + Len(g)
  BY <1>3, <1>4, <1>5
<1>8. FlattenSeq(h) = FlattenSeq(f) \o FlattenSeq(g)
  BY <1>5, <1>7, FlattenSplit
<1> QED BY <1>6, <1>8 DEF u

LEMMA GivenFew ==
  ASSUME NEW A, NEW B, NEW F \in [A -> Seq(B)]
  PROVE  /\ Given(F, <<>>) = <<>>
         /\ \A e \in A : Given(F, <<e>>) = F[e]
<1>1. Given(F, <<>>) = <<>>
  <2>1. [i \in DOMAIN <<>> |-> F[<<>>[i]]] = <<>>
    OBVIOUS
  <2> QED BY <2>1, FlattenNone DEF Given
<1>2. ASSUME NEW e \in A PROVE Given(F, <<e>>) = F[e]
  <2>1. [i \in DOMAIN <<e>> |-> F[<<e>>[i]]] = <<F[e]>>
    OBVIOUS
  <2>2. FlattenSeq(<<F[e]>>) = F[e]
    BY FlattenOne
  <2> QED BY <2>1, <2>2 DEF Given
<1> QED BY <1>1, <1>2

(* Elements that give nothing.                                             *)
LEMMA GivenNothing ==
  ASSUME NEW A, NEW B, NEW F \in [A -> Seq(B)], NEW s \in Seq(A),
         \A i \in 1..Len(s) : F[s[i]] = <<>>
  PROVE  Given(F, s) = <<>>
<1>1. Len(s) \in Nat /\ DOMAIN s = 1..Len(s)
  BY LenProperties
<1>2. [i \in DOMAIN s |-> F[s[i]]] = [i \in 1..Len(s) |-> <<>>]
  BY <1>1
<1>3. FlattenSeq([i \in 1..Len(s) |-> <<>>]) = <<>>
  BY <1>1, FlattenEmpties
<1> QED BY <1>2, <1>3 DEF Given

(* A sequence is its front with its last element after it, and what is     *)
(* appended to is the front of the result.                                 *)
LEMMA FrontAndLast ==
  ASSUME NEW S, NEW s \in Seq(S), s # <<>>
  PROVE  /\ Front(s) \in Seq(S) /\ Last(s) \in S
         /\ s = Append(Front(s), Last(s))
<1> DEFINE n == Len(s)
           f == Front(s)
           e == Last(s)
           t == Append(f, e)
<1>1. n \in Nat \ {0} /\ e \in S /\ e = s[n] /\ DOMAIN s = 1..n
  BY LastOfSeq, LenProperties
<1>2. f \in Seq(S) /\ Len(f) = n - 1
  BY FrontLastSet
<1>3. \A i \in 1..(n - 1) : f[i] = s[i]
  <2>1. 1 \in 1..(n + 1) /\ n - 1 \in (1 - 1)..n
    BY <1>1
  <2>2. \A i \in 1..((n - 1) - 1 + 1) : f[i] = s[1 + i - 1]
    BY <1>1, <2>1, SubSeqProperties DEF Front
  <2> HIDE DEF f, n
  <2> QED BY <1>1, <2>2
<1> HIDE DEF f, e, n
<1>4. t \in Seq(S) /\ Len(t) = n /\ t[n] = e /\ \A i \in 1..(n - 1) : t[i] = f[i]
  <2>1. /\ t \in Seq(S) /\ Len(t) = Len(f) + 1 /\ t[Len(f) + 1] = e
        /\ \A i \in 1..Len(f) : t[i] = f[i]
    BY <1>1, <1>2, AppendProperties
  <2>2. Len(f) + 1 = n
    BY <1>1, <1>2
  <2> QED BY <1>2, <2>1, <2>2
<1> HIDE DEF t
<1>5. \A i \in 1..n : t[i] = s[i]
  <2>1. \A i \in 1..n : i = n \/ i \in 1..(n - 1)
    BY <1>1
  <2> QED BY <1>1, <1>3, <1>4, <2>1
<1>6. t = s
  BY <1>4, <1>5, SeqEqual DEF n
<1> QED BY <1>1, <1>2, <1>6 DEF f, e, t

LEMMA FrontOfAppend ==
  ASSUME NEW S, NEW s \in Seq(S), NEW e \in S
  PROVE  /\ Append(s, e) \in Seq(S) /\ Append(s, e) # <<>>
         /\ Front(Append(s, e)) = s /\ Last(Append(s, e)) = e
<1> DEFINE t == Append(s, e)
<1>1. t \in Seq(S) /\ t # <<>> /\ Last(t) = e
  BY AppendTypes
<1> HIDE DEF t
<1>2. Front(t) \in Seq(S) /\ Append(Front(t), Last(t)) = t
  BY <1>1, FrontAndLast
<1>3. Front(t) = s
  BY <1>1, <1>2, AppendInjective DEF t
<1> QED BY <1>1, <1>3 DEF t

(* What moves from the head of one sequence to the end of another stays    *)
(* where it is in the two together.                                        *)
LEMMA HeadMoves ==
  ASSUME NEW S, NEW s \in Seq(S), NEW t \in Seq(S), t # <<>>
  PROVE  /\ Head(t) \in S /\ Tail(t) \in Seq(S)
         /\ Append(s, Head(t)) \in Seq(S)
         /\ Append(s, Head(t)) = s \o <<Head(t)>>
         /\ Append(s, Head(t)) \o Tail(t) = s \o t
<1> DEFINE h == Head(t)
           r == Tail(t)
           o == <<h>>
<1>1. h \in S /\ r \in Seq(S) /\ t = o \o r
  <2>1. h \in S /\ r \in Seq(S) /\ Len(r) = Len(t) - 1
        /\ (\A i \in 1..Len(r) : r[i] = t[i + 1])
    BY HeadTailProperties
  <2>2. Len(t) \in Nat \ {0} /\ h = t[1]
    BY LenProperties, EmptySeq
  <2> DEFINE n == Len(t)
             u == o \o r
  <2>3. o \in Seq(S) /\ Len(o) = 1 /\ o[1] = h
    BY <2>1
  <2> HIDE DEF h, r, o
  <2>4. /\ u \in Seq(S) /\ Len(u) = 1 + Len(r)
        /\ \A i \in 1..(1 + Len(r)) : u[i] = IF i <= 1 THEN o[i] ELSE r[i - 1]
    <3>0. o \in Seq(S) /\ r \in Seq(S)
      BY <2>1, <2>3
    <3>1. /\ u \in Seq(S) /\ Len(u) = Len(o) + Len(r)
          /\ \A i \in 1..(Len(o) + Len(r)) :
               u[i] = IF i <= Len(o) THEN o[i] ELSE r[i - Len(o)]
      BY <3>0, ConcatProperties
    <3> HIDE DEF u
    <3> QED BY <2>3, <3>1
  <2> HIDE DEF u
  <2>5. Len(u) = n /\ Len(r) = n - 1 /\ n \in Nat \ {0}
    BY <2>1, <2>2, <2>4
  <2> HIDE DEF n
  <2>6. ASSUME NEW i \in 1..n PROVE u[i] = t[i]
    <3>1. CASE i = 1
      BY <2>2, <2>3, <2>4, <2>5, <3>1
    <3>2. CASE i # 1
      <4>1. i \in 1..(1 + Len(r)) /\ ~(i <= 1) /\ i - 1 \in 1..Len(r)
            /\ (i - 1) + 1 = i
        BY <2>5, <3>2
      <4>2. u[i] = r[i - 1]
        BY <2>4, <4>1
      <4>3. r[i - 1] = t[i]
        BY <2>1, <4>1
      <4> QED BY <4>2, <4>3
    <3> QED BY <3>1, <3>2
  <2>7. u = t
    BY <2>4, <2>5, <2>6, SeqEqual DEF n
  <2> QED BY <2>1, <2>7 DEF u
<1>2. o \in Seq(S) /\ Append(s, h) \in Seq(S) /\ Append(s, h) = s \o o
  BY <1>1, AppendProperties, AppendIsConcat
<1> HIDE DEF h, r, o
<1>3. (s \o o) \o r = s \o (o \o r)
  BY <1>1, <1>2, ConcatAssociative
<1> QED BY <1>1, <1>2, <1>3 DEF h, r, o

LEMMA LastOfConcat ==
  ASSUME NEW S, NEW s \in Seq(S), NEW e \in S
  PROVE  Last(s \o <<e>>) = e
<1>1. Append(s, e) = s \o <<e>>
  BY AppendIsConcat
<1>2. Last(Append(s, e)) = e
  BY FrontOfAppend
<1> QED BY <1>1, <1>2
=============================================================================
