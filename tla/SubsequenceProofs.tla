------------------------- MODULE SubsequenceProofs --------------------------
(***************************************************************************)
(* What Keep keeps of a sequence: the elements in the set, each as often   *)
(* as before and in their order.  No induction is needed: the rank maps    *)
(* the places one to one into 1..n, where n is their number, so that every *)
(* k in 1..n is the rank of a place.  The same of InOrder: an element of a *)
(* finite set comes at the number of those before it.  And what loops over *)
(* lists need: numbers that count up, the states between the steps, and    *)
(* the lists that SetToSeq makes.                                          *)
(***************************************************************************)
EXTENDS Subsequences, SequencesExt, FiniteSetTheorems, SequenceTheorems, TLAPS

LEMMA PlacesAreFinite ==
    ASSUME NEW T, NEW s \in Seq(T), NEW S
    PROVE  /\ Len(s) \in Nat
           /\ PlacesIn(s, S) \in SUBSET (1..Len(s))
           /\ IsFiniteSet(PlacesIn(s, S))
           /\ Cardinality(PlacesIn(s, S)) \in Nat
<1>1. Len(s) \in Nat
  BY LenProperties
<1>2. IsFiniteSet(1..Len(s))
  BY <1>1, FS_Interval
<1>3. PlacesIn(s, S) \in SUBSET (1..Len(s))
  BY DEF PlacesIn
<1> QED
  BY <1>1, <1>2, <1>3, FS_Subset, FS_CardinalityType

\* Ranks grow with the places.
LEMMA RankGrows ==
    ASSUME NEW P \in SUBSET Nat, IsFiniteSet(P)
    PROVE  /\ \A i \in P : UpTo(P, i) \in 1..Cardinality(P)
           /\ \A i, j \in P : i < j => UpTo(P, i) < UpTo(P, j)
<1> DEFINE upto(i) == {j \in P : j <= i}
<1>1. \A i \in P : IsFiniteSet(upto(i)) /\ Cardinality(upto(i)) \in Nat
               /\ Cardinality(upto(i)) <= Cardinality(P)
  BY FS_Subset, FS_CardinalityType
<1>2. \A i \in P : Cardinality(upto(i)) # 0
  <2> TAKE i \in P
  <2>1. i \in upto(i)
    OBVIOUS
  <2>2. upto(i) # {}
    BY <2>1
  <2> HIDE DEF upto
  <2> QED
    BY <1>1, <2>2, FS_EmptySet
<1>3. \A i, j \in P : i < j => Cardinality(upto(i)) < Cardinality(upto(j))
  <2> SUFFICES ASSUME NEW i \in P, NEW j \in P, i < j
               PROVE  Cardinality(upto(i)) < Cardinality(upto(j))
    OBVIOUS
  <2>1. upto(i) \subseteq upto(j) /\ j \in upto(j) /\ j \notin upto(i)
    <3>1. i \in Nat /\ j \in Nat /\ \A k \in P : k \in Nat
      OBVIOUS
    <3>2. \A k \in P : k <= i => k <= j
      BY <3>1
    <3>3. j <= j /\ ~(j <= i)
      BY <3>1
    <3> QED
      BY <3>2, <3>3
  <2>2. upto(i) \in SUBSET upto(j) /\ upto(i) # upto(j)
    BY <2>1
  <2> HIDE DEF upto
  <2>3. Cardinality(upto(i)) <= Cardinality(upto(j)) /\ Cardinality(upto(i)) # Cardinality(upto(j))
    BY <1>1, <2>2, FS_Subset
  <2> QED
    BY <1>1, <2>3
<1>4. \A i \in P : UpTo(P, i) = Cardinality(upto(i))
  BY DEF UpTo
<1> HIDE DEF upto
<1>5. Cardinality(P) \in Nat
  BY FS_CardinalityType
<1> QED
  BY <1>1, <1>2, <1>3, <1>4, <1>5

\* Every k up to the number of places is the rank of exactly one.
LEMMA NthIsPlace ==
    ASSUME NEW P \in SUBSET Nat, IsFiniteSet(P)
    PROVE  /\ \A k \in 1..Cardinality(P) : Nth(P, k) \in P /\ UpTo(P, Nth(P, k)) = k
           /\ \A i \in P : Nth(P, UpTo(P, i)) = i
<1> DEFINE n == Cardinality(P)
           rank == [i \in P |-> UpTo(P, i)]
<1>1. n \in Nat
  BY FS_CardinalityType
<1>2. rank \in Injection(P, 1..n)
  <2>1. rank \in [P -> 1..n]
    BY RankGrows
  <2>2. ASSUME NEW i \in P, NEW j \in P, rank[i] = rank[j]
        PROVE  i = j
    <3>1. UpTo(P, i) = UpTo(P, j) /\ UpTo(P, i) \in 1..n
      BY <2>2, RankGrows
    <3>2. i \in Nat /\ j \in Nat
      OBVIOUS
    <3>3. ~(i < j) /\ ~(j < i)
      BY <3>1, RankGrows, <1>1
    <3> QED
      BY <3>2, <3>3
  <2> HIDE DEF rank
  <2> QED
    BY <2>1, <2>2 DEF Injection, IsInjective
<1>3. IsFiniteSet(1..n) /\ Cardinality(1..n) = n
  BY <1>1, FS_Interval
<1>4. rank \in Surjection(P, 1..n)
  <2> HIDE DEF rank
  <2> QED
    BY <1>2, <1>3, FS_Injection
<1>5. \A k \in 1..n : \E i \in P : UpTo(P, i) = k
  <2>1. \A k \in 1..n : \E i \in P : rank[i] = k
    <3> HIDE DEF rank
    <3> QED
      BY <1>4 DEF Surjection
  <2> QED
    BY <2>1
<1>6. \A k \in 1..n : Nth(P, k) \in P /\ UpTo(P, Nth(P, k)) = k
  BY <1>5 DEF Nth
<1>7. ASSUME NEW i \in P PROVE Nth(P, UpTo(P, i)) = i
  <2>1. UpTo(P, i) \in 1..n
    BY RankGrows
  <2>2. Nth(P, UpTo(P, i)) \in P /\ UpTo(P, Nth(P, UpTo(P, i))) = UpTo(P, i)
    BY <1>6, <2>1
  <2> DEFINE j == Nth(P, UpTo(P, i))
  <2>3. j \in P /\ rank[j] = rank[i]
    BY <2>2
  <2> HIDE DEF j, rank
  <2>4. j = i
    BY <1>2, <2>3 DEF Injection, IsInjective
  <2> QED
    BY <2>4 DEF j
<1> QED
  BY <1>6, <1>7

LEMMA KeepPlaces ==
    ASSUME NEW T, NEW s \in Seq(T), NEW S
    PROVE  /\ Cardinality(PlacesIn(s, S)) \in Nat
           /\ PlacesIn(s, S) \in SUBSET (1..Len(s))
           /\ \A k \in 1..Cardinality(PlacesIn(s, S)) :
                 /\ Nth(PlacesIn(s, S), k) \in PlacesIn(s, S)
                 /\ UpTo(PlacesIn(s, S), Nth(PlacesIn(s, S), k)) = k
           /\ \A i \in PlacesIn(s, S) :
                 /\ UpTo(PlacesIn(s, S), i) \in 1..Cardinality(PlacesIn(s, S))
                 /\ Nth(PlacesIn(s, S), UpTo(PlacesIn(s, S), i)) = i
<1> DEFINE P == PlacesIn(s, S)
<1>1. P \in SUBSET (1..Len(s)) /\ IsFiniteSet(P) /\ Cardinality(P) \in Nat /\ Len(s) \in Nat
  BY PlacesAreFinite
<1>2. P \in SUBSET Nat
  BY <1>1
<1> HIDE DEF P
<1>3. /\ \A k \in 1..Cardinality(P) : Nth(P, k) \in P /\ UpTo(P, Nth(P, k)) = k
      /\ \A i \in P : Nth(P, UpTo(P, i)) = i
      /\ \A i \in P : UpTo(P, i) \in 1..Cardinality(P)
  BY <1>1, <1>2, NthIsPlace, RankGrows
<1> QED
  BY <1>1, <1>3 DEF P

\* Keep returns a sequence of the elements of s in S, no longer than s.
LEMMA KeepSeq ==
    ASSUME NEW T, NEW s \in Seq(T), NEW S
    PROVE  /\ Keep(s, S) \in Seq(T)
           /\ Len(Keep(s, S)) = Cardinality(PlacesIn(s, S))
           /\ Elements(Keep(s, S)) = Elements(s) \intersect S
<1> DEFINE P == PlacesIn(s, S)
           n == Cardinality(P)
<1>1. /\ n \in Nat /\ P \in SUBSET (1..Len(s))
      /\ \A k \in 1..n : Nth(P, k) \in P
      /\ \A i \in P : UpTo(P, i) \in 1..n /\ Nth(P, UpTo(P, i)) = i
  BY KeepPlaces
<1>2. Keep(s, S) = [k \in 1..n |-> s[Nth(P, k)]]
  BY DEF Keep
<1>3. \A i \in P : i \in 1..Len(s) /\ s[i] \in S /\ s[i] \in T
  BY <1>1, ElementOfSeq DEF PlacesIn
<1>4. \A i \in 1..Len(s) : s[i] \in S => i \in P
  BY DEF PlacesIn
<1> HIDE DEF P, n
<1>5. Keep(s, S) \in Seq(T) /\ Len(Keep(s, S)) = n
  <2>1. \A k \in 1..n : s[Nth(P, k)] \in T
    BY <1>1, <1>3
  <2>2. [k \in 1..n |-> s[Nth(P, k)]] \in Seq(T)
    BY <1>1, <2>1, IsASeq
  <2>3. Len([k \in 1..n |-> s[Nth(P, k)]]) = n
    BY <1>1
  <2> QED
    BY <1>2, <2>2, <2>3
<1>6. Len(Keep(s, S)) = n
  BY <1>5
<1>7. Elements(Keep(s, S)) \subseteq Elements(s) \intersect S
  BY <1>1, <1>2, <1>3, <1>6 DEF Elements
<1>8. ASSUME NEW e \in Elements(s) \intersect S PROVE e \in Elements(Keep(s, S))
  <2>1. PICK i \in 1..Len(s) : s[i] = e
    BY DEF Elements
  <2>2. i \in P
    BY <1>4, <2>1
  <2>3. UpTo(P, i) \in 1..n /\ Keep(s, S)[UpTo(P, i)] = e
    BY <1>1, <1>2, <2>1, <2>2
  <2> QED
    BY <1>6, <2>3 DEF Elements
<1> QED
  BY <1>5, <1>6, <1>7, <1>8 DEF n, P

\* What does not repeat in s does not repeat in what is kept of it.
LEMMA KeepHasNoRepeats ==
    ASSUME NEW T, NEW s \in Seq(T), NEW S, HasNoRepeats(s)
    PROVE  HasNoRepeats(Keep(s, S))
<1> DEFINE P == PlacesIn(s, S)
           n == Cardinality(P)
<1>1. /\ n \in Nat /\ P \in SUBSET (1..Len(s))
      /\ \A k \in 1..n : Nth(P, k) \in P /\ UpTo(P, Nth(P, k)) = k
  BY KeepPlaces
<1>2. Keep(s, S) = [k \in 1..n |-> s[Nth(P, k)]]
  BY DEF Keep
<1>3. Len(Keep(s, S)) = n
  BY KeepSeq
<1> HIDE DEF P, n
<1> SUFFICES ASSUME NEW j \in 1..n, NEW k \in 1..n, Keep(s, S)[j] = Keep(s, S)[k]
             PROVE  j = k
  BY <1>3 DEF HasNoRepeats
<1>4. /\ Nth(P, j) \in 1..Len(s) /\ Nth(P, k) \in 1..Len(s)
      /\ s[Nth(P, j)] = s[Nth(P, k)]
  BY <1>1, <1>2
<1>5. Nth(P, j) = Nth(P, k)
  BY <1>4 DEF HasNoRepeats
<1>6. UpTo(P, Nth(P, j)) = j /\ UpTo(P, Nth(P, k)) = k
  BY <1>1
<1> QED
  BY <1>5, <1>6

\* The order is kept: two elements of what is kept have places in s in the
\* same order.
LEMMA KeepOrder ==
    ASSUME NEW T, NEW s \in Seq(T), NEW S,
           NEW j \in 1..Len(Keep(s, S)), NEW k \in 1..Len(Keep(s, S)), j < k
    PROVE  \E x, y \in 1..Len(s) : x < y /\ s[x] = Keep(s, S)[j] /\ s[y] = Keep(s, S)[k]
<1> DEFINE P == PlacesIn(s, S)
           n == Cardinality(P)
<1>1. /\ n \in Nat /\ P \in SUBSET (1..Len(s))
      /\ \A i \in 1..n : Nth(P, i) \in P /\ UpTo(P, Nth(P, i)) = i
  BY KeepPlaces
<1>2. Keep(s, S) = [i \in 1..n |-> s[Nth(P, i)]]
  BY DEF Keep
<1>3. Len(Keep(s, S)) = n
  BY KeepSeq
<1>4. IsFiniteSet(P) /\ P \in SUBSET Nat
  BY <1>1, PlacesAreFinite
<1> HIDE DEF P, n
<1>5. \A x, y \in P : x < y => UpTo(P, x) < UpTo(P, y)
  BY <1>4, RankGrows
<1>6. Nth(P, j) \in P /\ Nth(P, k) \in P /\ UpTo(P, Nth(P, j)) = j /\ UpTo(P, Nth(P, k)) = k
  BY <1>1, <1>3
<1> DEFINE x == Nth(P, j)
           y == Nth(P, k)
<1>7. x \in P /\ y \in P /\ x \in Nat /\ y \in Nat /\ UpTo(P, x) = j /\ UpTo(P, y) = k
  BY <1>4, <1>6
<1>8. s[x] = Keep(s, S)[j] /\ s[y] = Keep(s, S)[k] /\ x \in 1..Len(s) /\ y \in 1..Len(s)
  BY <1>1, <1>2, <1>3, <1>6
<1> HIDE DEF x, y
<1>9. j \in Nat /\ k \in Nat
  BY <1>1, <1>3
<1>10. ~(y < x) /\ x # y
  BY <1>5, <1>7, <1>9
<1>11. x < y
  BY <1>7, <1>10
<1> QED
  BY <1>8, <1>11

\* A sequence without repeats is as long as its set of elements is large.
LEMMA LengthWithoutRepeats ==
    ASSUME NEW T, NEW s \in Seq(T), HasNoRepeats(s)
    PROVE  IsFiniteSet(Elements(s)) /\ Cardinality(Elements(s)) = Len(s)
<1>1. Len(s) \in Nat /\ s \in [1..Len(s) -> T]
  BY LenProperties
<1>2. IsFiniteSet(1..Len(s)) /\ Cardinality(1..Len(s)) = Len(s)
  BY <1>1, FS_Interval
<1>3. s \in [1..Len(s) -> Elements(s)] /\ \A e \in Elements(s) : \E i \in 1..Len(s) : s[i] = e
  BY <1>1 DEF Elements
<1>4. s \in Surjection(1..Len(s), Elements(s))
  BY <1>3 DEF Surjection
<1>5. s \in Injection(1..Len(s), Elements(s))
  BY <1>3 DEF Injection, IsInjective, HasNoRepeats
<1> QED
  BY <1>2, <1>4, <1>5, FS_Surjection

-----------------------------------------------------------------------------
(* Sequences without repeats under the usual operators *)

LEMMA ElementsTyped ==
    ASSUME NEW T, NEW s \in Seq(T)
    PROVE  Elements(s) \in SUBSET T /\ (Elements(s) = {} <=> s = <<>>)
<1>1. Len(s) \in Nat /\ s \in [1..Len(s) -> T]
  BY LenProperties
<1>2. s = <<>> <=> Len(s) = 0
  BY <1>1, EmptySeq
<1>3. Elements(s) \in SUBSET T
  BY <1>1 DEF Elements
<1>4. ASSUME s # <<>> PROVE Elements(s) # {}
  <2>1. 1 \in 1..Len(s)
    BY <1>1, <1>2, <1>4
  <2> QED
    BY <2>1 DEF Elements
<1>5. ASSUME s = <<>> PROVE Elements(s) = {}
  <2>1. 1..Len(s) = {}
    BY <1>2, <1>5
  <2> QED
    BY <2>1 DEF Elements
<1> QED
  BY <1>3, <1>4, <1>5

\* An element is appended.
LEMMA AppendElements ==
    ASSUME NEW T, NEW s \in Seq(T), NEW e \in T
    PROVE  /\ Append(s, e) \in Seq(T)
           /\ Len(Append(s, e)) = Len(s) + 1
           /\ Elements(Append(s, e)) = Elements(s) \union {e}
           /\ HasNoRepeats(s) /\ e \notin Elements(s) => HasNoRepeats(Append(s, e))
<1> DEFINE t == Append(s, e)
<1>1. /\ t \in Seq(T) /\ Len(t) = Len(s) + 1 /\ Len(s) \in Nat
      /\ \A i \in 1..Len(s) : t[i] = s[i]
      /\ t[Len(s) + 1] = e
  BY AppendProperties, LenProperties
<1> HIDE DEF t
<1>2. Elements(t) = Elements(s) \union {e}
  <2>1. \A i \in 1..Len(t) : i \in 1..Len(s) \/ i = Len(s) + 1
    BY <1>1
  <2>2. Len(s) + 1 \in 1..Len(t) /\ \A i \in 1..Len(s) : i \in 1..Len(t)
    BY <1>1
  <2>3. \A i \in 1..Len(t) : t[i] \in Elements(s) \union {e}
    BY <1>1, <2>1 DEF Elements
  <2>4. \A i \in 1..Len(s) : s[i] \in Elements(t)
    BY <1>1, <2>2 DEF Elements
  <2>5. e \in Elements(t)
    BY <1>1, <2>2 DEF Elements
  <2> QED
    BY <2>3, <2>4, <2>5 DEF Elements
<1>3. ASSUME HasNoRepeats(s), e \notin Elements(s) PROVE HasNoRepeats(t)
  <2> SUFFICES ASSUME NEW i \in 1..Len(t), NEW j \in 1..Len(t), t[i] = t[j] PROVE i = j
    BY DEF HasNoRepeats
  <2>1. \A k \in 1..Len(t) : k \in 1..Len(s) \/ k = Len(s) + 1
    BY <1>1
  <2>2. \A k \in 1..Len(s) : s[k] # e
    BY <1>3 DEF Elements
  <2> QED
    BY <1>1, <1>3, <2>1, <2>2 DEF HasNoRepeats
<1> QED
  BY <1>1, <1>2, <1>3 DEF t

\* The first element is taken off.
LEMMA TailElements ==
    ASSUME NEW T, NEW s \in Seq(T), s # <<>>, HasNoRepeats(s)
    PROVE  /\ Head(s) \in Elements(s)
           /\ Tail(s) \in Seq(T)
           /\ Len(Tail(s)) = Len(s) - 1
           /\ \A i \in 1..Len(Tail(s)) : i + 1 \in 1..Len(s) /\ Tail(s)[i] = s[i + 1]
           /\ Elements(Tail(s)) = Elements(s) \ {Head(s)}
           /\ HasNoRepeats(Tail(s))
<1> DEFINE t == Tail(s)
<1>1. /\ Len(s) \in Nat \ {0} /\ Head(s) = s[1]
      /\ t \in Seq(T) /\ Len(t) = Len(s) - 1
      /\ \A i \in 1..Len(t) : t[i] = s[i + 1]
  BY HeadTailProperties, LenProperties, EmptySeq
<1> HIDE DEF t
<1>2. \A i \in 1..Len(t) : i + 1 \in 1..Len(s) /\ i + 1 # 1
  BY <1>1
<1>3. \A i \in 1..Len(s) : i = 1 \/ (i - 1 \in 1..Len(t) /\ (i - 1) + 1 = i)
  BY <1>1
<1>4. 1 \in 1..Len(s)
  BY <1>1
<1>5. Elements(t) \subseteq Elements(s) \ {Head(s)}
  <2> SUFFICES ASSUME NEW i \in 1..Len(t) PROVE t[i] \in Elements(s) \ {s[1]}
    BY <1>1 DEF Elements
  <2>1. t[i] = s[i + 1] /\ i + 1 \in 1..Len(s) /\ i + 1 # 1
    BY <1>1, <1>2
  <2> QED
    BY <1>4, <2>1 DEF Elements, HasNoRepeats
<1>6. Elements(s) \ {Head(s)} \subseteq Elements(t)
  <2> SUFFICES ASSUME NEW i \in 1..Len(s), s[i] # s[1] PROVE s[i] \in Elements(t)
    BY <1>1 DEF Elements
  <2>1. i - 1 \in 1..Len(t) /\ t[i - 1] = s[i]
    BY <1>1, <1>3
  <2> QED
    BY <2>1 DEF Elements
<1>7. HasNoRepeats(t)
  <2> SUFFICES ASSUME NEW i \in 1..Len(t), NEW j \in 1..Len(t), t[i] = t[j] PROVE i = j
    BY DEF HasNoRepeats
  <2>1. i + 1 = j + 1
    BY <1>1, <1>2 DEF HasNoRepeats
  <2> QED
    BY <1>1, <2>1
<1> QED
  BY <1>1, <1>2, <1>4, <1>5, <1>6, <1>7 DEF t, Elements

\* Two sequences are put one behind the other.
LEMMA ConcatElements ==
    ASSUME NEW T, NEW s \in Seq(T), NEW t \in Seq(T)
    PROVE  /\ s \o t \in Seq(T)
           /\ Len(s \o t) = Len(s) + Len(t)
           /\ \A i \in 1..Len(s \o t) :
                 \/ i \in 1..Len(s) /\ (s \o t)[i] = s[i]
                 \/ i - Len(s) \in 1..Len(t) /\ i > Len(s) /\ (s \o t)[i] = t[i - Len(s)]
           /\ Elements(s \o t) = Elements(s) \union Elements(t)
           /\ HasNoRepeats(s) /\ HasNoRepeats(t) /\ Elements(s) \intersect Elements(t) = {}
                 => HasNoRepeats(s \o t)
<1> DEFINE c == s \o t
           m == Len(s)
           n == Len(t)
<1>1. /\ c \in Seq(T) /\ Len(c) = m + n /\ m \in Nat /\ n \in Nat
      /\ \A i \in 1..Len(c) : c[i] = IF i <= m THEN s[i] ELSE t[i - m]
  BY ConcatProperties, LenProperties
<1>2. Elements(s) = {s[i] : i \in 1..m} /\ Elements(t) = {t[i] : i \in 1..n}
  BY DEF Elements
<1>3. /\ HasNoRepeats(s) <=> \A i, j \in 1..m : s[i] = s[j] => i = j
      /\ HasNoRepeats(t) <=> \A i, j \in 1..n : t[i] = t[j] => i = j
  BY DEF HasNoRepeats
<1> HIDE DEF c, m, n
<1>4. \A i \in 1..Len(c) :
         \/ i \in 1..m /\ c[i] = s[i]
         \/ i - m \in 1..n /\ i > m /\ c[i] = t[i - m]
  BY <1>1
<1>5. /\ \A i \in 1..m : i \in 1..Len(c) /\ c[i] = s[i]
      /\ \A i \in 1..n : i + m \in 1..Len(c) /\ c[i + m] = t[i]
  BY <1>1
<1>6. Elements(c) = Elements(s) \union Elements(t)
  <2>1. Elements(c) \subseteq Elements(s) \union Elements(t)
    BY <1>2, <1>4 DEF Elements
  <2>2. Elements(s) \subseteq Elements(c)
    BY <1>2, <1>5 DEF Elements
  <2>3. Elements(t) \subseteq Elements(c)
    <3> SUFFICES ASSUME NEW i \in 1..n PROVE t[i] \in Elements(c)
      BY <1>2
    <3> QED
      BY <1>5 DEF Elements
  <2> QED
    BY <2>1, <2>2, <2>3
<1>7. ASSUME HasNoRepeats(s), HasNoRepeats(t), Elements(s) \intersect Elements(t) = {}
      PROVE  HasNoRepeats(c)
  <2> SUFFICES ASSUME NEW i \in 1..Len(c), NEW j \in 1..Len(c), c[i] = c[j] PROVE i = j
    BY DEF HasNoRepeats
  <2>1. CASE i \in 1..m /\ c[i] = s[i]
    <3>1. c[j] \in Elements(s)
      BY <1>2, <2>1
    <3>2. j \in 1..m /\ c[j] = s[j]
      BY <1>2, <1>4, <1>7, <3>1
    <3> QED
      BY <1>3, <1>7, <2>1, <3>2
  <2>2. CASE i - m \in 1..n /\ c[i] = t[i - m]
    <3>1. c[j] \in Elements(t)
      BY <1>2, <2>2
    <3>2. j - m \in 1..n /\ c[j] = t[j - m]
      BY <1>2, <1>4, <1>7, <3>1
    <3>3. i - m = j - m
      BY <1>3, <1>7, <2>2, <3>2
    <3> QED
      BY <1>1, <3>3
  <2> QED
    BY <1>4, <2>1, <2>2
<1> QED
  BY <1>1, <1>4, <1>6, <1>7 DEF c, m, n

\* Everything or nothing is kept.
LEMMA KeepAll ==
    ASSUME NEW T, NEW s \in Seq(T)
    PROVE  Keep(s, T) = s
<1>1. PlacesIn(s, T) = 1..Len(s)
  BY ElementOfSeq DEF PlacesIn
<1>2. Len(s) \in Nat
  BY LenProperties
<1>3. Cardinality(1..Len(s)) = Len(s) /\ IsFiniteSet(1..Len(s))
  BY <1>2, FS_Interval
<1>4. ASSUME NEW k \in 1..Len(s)
      PROVE  UpTo(1..Len(s), k) = k
  <2>1. {j \in 1..Len(s) : j <= k} = 1..k
    BY <1>2
  <2>2. Cardinality(1..k) = k
    BY <1>2, FS_Interval
  <2> QED
    BY <2>1, <2>2 DEF UpTo
<1>5. ASSUME NEW k \in 1..Len(s)
      PROVE  Nth(1..Len(s), k) = k
  BY <1>4 DEF Nth
<1>6. Keep(s, T) = [k \in 1..Len(s) |-> s[k]]
  BY <1>1, <1>3, <1>5 DEF Keep
<1> QED
  BY <1>6, LenProperties

LEMMA KeepNone ==
    ASSUME NEW T, NEW s \in Seq(T)
    PROVE  Keep(s, T \ T) = <<>>
<1>1. PlacesIn(s, T \ T) = {}
  BY DEF PlacesIn
<1>2. Cardinality({}) = 0
  BY FS_EmptySet
<1>3. Keep(s, T \ T) = [k \in 1..0 |-> s[Nth({}, k)]]
  BY <1>1, <1>2 DEF Keep
<1> QED
  BY <1>3

\* In an irreflexive, total and transitive order each member has its own number of
\* members before it, so that the members are in order, each once.
LEMMA InOrderIs ==
    ASSUME NEW S, IsFiniteSet(S), NEW R,
           \A s \in S : <<s, s>> \notin R,
           \A s, t \in S : s = t \/ <<s, t>> \in R \/ <<t, s>> \in R,
           \A s, t, u \in S : <<s, t>> \in R /\ <<t, u>> \in R => <<s, u>> \in R
    PROVE  /\ InOrder(S, R) \in Seq(S)
           /\ Len(InOrder(S, R)) = Cardinality(S)
           /\ Elements(InOrder(S, R)) = S
           /\ \A i, j \in 1..Cardinality(S) : i < j => <<InOrder(S, R)[i], InOrder(S, R)[j]>> \in R
<1> DEFINE n == Cardinality(S)
           before(s) == {t \in S : <<t, s>> \in R}
           c(s) == Cardinality(before(s))
           rank == [s \in S |-> c(s) + 1]
           b == InOrder(S, R)
<1>1. n \in Nat
  BY FS_CardinalityType
<1>2. \A s \in S : before(s) \in SUBSET S /\ s \notin before(s) /\ IsFiniteSet(before(s))
  BY FS_Subset
<1>3. \A s \in S : c(s) \in Nat
  BY <1>2, FS_CardinalityType
<1>4. ASSUME NEW s \in S PROVE c(s) < n
  <2>1. before(s) # S /\ before(s) \in SUBSET S
    BY <1>2
  <2> HIDE DEF before
  <2>2. Cardinality(before(s)) <= Cardinality(S) /\ Cardinality(before(s)) # Cardinality(S)
    BY <2>1, FS_Subset
  <2>3. c(s) <= n /\ c(s) # n /\ c(s) \in Nat
    BY <2>2, <1>3
  <2> HIDE DEF c, n
  <2> QED
    BY <1>1, <2>3
<1>5. ASSUME NEW s \in S, NEW t \in S, <<s, t>> \in R PROVE c(s) < c(t)
  <2>1. before(s) \in SUBSET before(t) /\ before(s) # before(t) /\ IsFiniteSet(before(t))
    BY <1>2, <1>5
  <2> HIDE DEF before
  <2>2. /\ Cardinality(before(s)) <= Cardinality(before(t))
        /\ Cardinality(before(s)) # Cardinality(before(t))
    BY <2>1, FS_Subset
  <2>3. c(s) <= c(t) /\ c(s) # c(t) /\ c(s) \in Nat /\ c(t) \in Nat
    BY <2>2, <1>3
  <2> HIDE DEF c
  <2> QED
    BY <2>3
<1> HIDE DEF before
<1>6. \A s, t \in S : /\ c(s) = c(t) => s = t
                      /\ c(s) < c(t) => <<s, t>> \in R
  <2> TAKE s \in S, t \in S
  <2>1. c(s) \in Nat /\ c(t) \in Nat
    BY <1>3
  <2>2. <<s, t>> \in R => c(s) < c(t)
    BY <1>5
  <2>3. <<t, s>> \in R => c(t) < c(s)
    BY <1>5
  <2> HIDE DEF c
  <2> QED
    BY <2>1, <2>2, <2>3
<1>7. rank \in Injection(S, 1..n)
  <2> HIDE DEF c, n
  <2>1. rank \in [S -> 1..n]
    BY <1>1, <1>3, <1>4
  <2>2. ASSUME NEW s \in S, NEW t \in S, rank[s] = rank[t] PROVE s = t
    <3>1. c(s) + 1 = c(t) + 1 /\ c(s) \in Nat /\ c(t) \in Nat
      BY <1>3, <2>2
    <3>2. c(s) = c(t)
      <4> HIDE DEF rank
      <4> QED
        BY <3>1
    <3> QED
      BY <3>2, <1>6
  <2> HIDE DEF rank
  <2> QED
    BY <2>1, <2>2 DEF Injection, IsInjective
<1>8. IsFiniteSet(1..n) /\ Cardinality(1..n) = n
  <2> HIDE DEF n
  <2> QED
    BY <1>1, FS_Interval
<1>9. rank \in Surjection(S, 1..n)
  <2>1. IsFiniteSet(S) /\ Cardinality(S) = n
    OBVIOUS
  <2> HIDE DEF rank, n
  <2> QED
    BY <1>1, <1>7, <1>8, <2>1, FS_Injection
<1>10. \A k \in 1..n : \E s \in S : c(s) = k - 1
  <2> TAKE k \in 1..n
  <2>1. PICK s \in S : rank[s] = k
    <3> HIDE DEF rank, n
    <3> QED
      BY <1>9 DEF Surjection
  <2>2. c(s) + 1 = k /\ c(s) \in Nat
    BY <1>3, <2>1
  <2> HIDE DEF c, n
  <2> QED
    BY <1>1, <2>2
<1>11. b = [k \in 1..n |-> CHOOSE s \in S : c(s) = k - 1]
  BY DEF InOrder, before
<1> HIDE DEF n, b, c
<1>12. \A k \in 1..n : b[k] \in S /\ c(b[k]) = k - 1
  BY <1>10, <1>11
<1>13. b \in Seq(S) /\ Len(b) = n
  <2>1. b \in [1..n -> S]
    BY <1>11, <1>10
  <2> QED
    BY <1>1, <2>1, IsASeq, LenProperties
<1>14. Elements(b) = S
  <2>1. Elements(b) \subseteq S
    BY <1>12, <1>13 DEF Elements
  <2>2. ASSUME NEW s \in S PROVE s \in Elements(b)
    <3>1. c(s) \in Nat /\ c(s) < n
      BY <1>3, <1>4
    <3>2. c(s) + 1 \in 1..n /\ (c(s) + 1) - 1 = c(s)
      BY <3>1, <1>1
    <3>3. b[c(s) + 1] \in S /\ c(b[c(s) + 1]) = c(s)
      BY <1>12, <3>2
    <3>4. b[c(s) + 1] = s
      BY <3>3, <1>6
    <3> QED
      BY <1>13, <3>2, <3>4 DEF Elements
  <2> QED
    BY <2>1, <2>2
<1>15. ASSUME NEW i \in 1..n, NEW j \in 1..n, i < j PROVE <<b[i], b[j]>> \in R
  <2>1. b[i] \in S /\ b[j] \in S /\ c(b[i]) = i - 1 /\ c(b[j]) = j - 1
    BY <1>12
  <2>2. c(b[i]) < c(b[j])
    BY <1>1, <1>15, <2>1
  <2> QED
    BY <1>6, <2>1, <2>2
<1> QED
  BY <1>13, <1>14, <1>15 DEF b, n
\* A non-empty finite set of numbers has a first and a last member.
LEMMA FirstAndLast ==
    ASSUME NEW P \in SUBSET Nat, IsFiniteSet(P), P # {}
    PROVE  /\ \E first \in P : \A i \in P : first <= i
           /\ \E last \in P : \A i \in P : i <= last
<1> DEFINE n == Cardinality(P)
<1>1. n \in Nat /\ n # 0
  BY FS_CardinalityType, FS_EmptySet
<1>2. /\ \A k \in 1..n : Nth(P, k) \in P /\ UpTo(P, Nth(P, k)) = k
      /\ \A i \in P : UpTo(P, i) \in 1..n
      /\ \A i, j \in P : i < j => UpTo(P, i) < UpTo(P, j)
  BY NthIsPlace, RankGrows
<1>3. PICK a, b : a = Nth(P, 1) /\ b = Nth(P, n)
  OBVIOUS
<1>4. a \in P /\ UpTo(P, a) = 1 /\ b \in P /\ UpTo(P, b) = n
  BY <1>1, <1>2, <1>3
<1>5. ASSUME NEW i \in P PROVE a <= i /\ i <= b
  <2>1. i \in Nat /\ a \in Nat /\ b \in Nat /\ UpTo(P, i) \in 1..n
    BY <1>2, <1>4
  <2>2. ~(i < a)
    BY <1>1, <1>2, <1>4, <2>1
  <2>3. ~(b < i)
    BY <1>1, <1>2, <1>4, <2>1
  <2> QED
    BY <2>1, <2>2, <2>3
<1> QED
  BY <1>4, <1>5

\* Induction up to m, for the numbers that have a property.
LEMMA CountingUp ==
    ASSUME NEW m \in Nat, NEW P \in SUBSET (0..m), 0 \in P,
           \A n \in 1..m : n - 1 \in P => n \in P
    PROVE  \A n \in 0..m : n \in P
<1> SUFFICES ASSUME NEW B, B = (0..m) \ P, B # {} PROVE FALSE
  OBVIOUS
<1>1. IsFiniteSet(0..m) /\ B \in SUBSET (0..m) /\ B \in SUBSET Nat
  BY FS_Interval
<1>2. IsFiniteSet(B)
  BY <1>1, FS_Subset
<1>3. PICK b \in B : \A i \in B : b <= i
  BY <1>1, <1>2, FirstAndLast
<1>4. b \in 1..m
  BY <1>3
<1>5. b - 1 \in P
  BY <1>3, <1>4
<1> QED
  BY <1>3, <1>4, <1>5

\* What takes m steps within S has all its intermediate values.
LEMMA StepsExist ==
    ASSUME NEW S, NEW d \in S, NEW m \in Nat, NEW F \in [1..m -> [S -> S]]
    PROVE  \E g \in [0..m -> S] : g[0] = d /\ \A n \in 1..m : g[n] = F[n][g[n - 1]]
<1> DEFINE Run(g, n) == /\ g \in [0..n -> S] /\ g[0] = d
                        /\ \A k \in 1..n : g[k] = F[k][g[k - 1]]
           P == {n \in 0..m : \E h : Run(h, n)}
<1>1. 0 \in P
  <2>1. Run([k \in 0..0 |-> d], 0)
    OBVIOUS
  <2> HIDE DEF Run
  <2> QED
    BY <2>1
<1>2. ASSUME NEW n \in 1..m, n - 1 \in P PROVE n \in P
  <2>1. PICK g : Run(g, n - 1)
    BY <1>2
  <2> DEFINE h == [k \in 0..n |-> IF k = n THEN F[n][g[n - 1]] ELSE g[k]]
  <2>2. g[n - 1] \in S /\ F[n] \in [S -> S]
    BY <2>1
  <2>3. F[n][g[n - 1]] \in S
    BY <2>2
  <2>4. h \in [0..n -> S] /\ h[0] = d
    BY <2>1, <2>3
  <2>5. ASSUME NEW k \in 1..n PROVE h[k] = F[k][h[k - 1]]
    <3>1. h[k - 1] = g[k - 1]
      OBVIOUS
    <3>2. CASE k = n
      BY <3>1, <3>2
    <3>3. CASE k # n
      BY <3>1, <3>3, <2>1
    <3> QED
      BY <3>2, <3>3
  <2>6. Run(h, n)
    BY <2>4, <2>5
  <2> HIDE DEF h, Run
  <2> QED
    BY <2>6
<1> HIDE DEF Run
<1>3. \A n \in 0..m : n \in P
  BY <1>1, <1>2, CountingUp
<1>4. \E g : Run(g, m)
  BY <1>3
<1> QED
  BY <1>4 DEF Run

\* The members of a finite set, one after the other.
LEMMA SetInOrder ==
    ASSUME NEW S, IsFiniteSet(S)
    PROVE  /\ SetToSeq(S) \in Seq(S)
           /\ Len(SetToSeq(S)) = Cardinality(S) /\ Cardinality(S) \in Nat
           /\ \A x \in S : \E n \in 1..Len(SetToSeq(S)) : SetToSeq(S)[n] = x
           /\ \A m, n \in 1..Len(SetToSeq(S)) : SetToSeq(S)[m] = SetToSeq(S)[n] => m = n
<1>1. PICK c, s : c = Cardinality(S) /\ s = SetToSeq(S)
  OBVIOUS
<1>2. c \in Nat /\ ExistsBijection(1..c, S)
  BY <1>1, FS_CardinalityType
<1>3. PICK f \in Bijection(1..c, S) : TRUE
  BY <1>2 DEF ExistsBijection
<1>4. f \in [1..c -> S] /\ IsInjective(f)
  BY <1>3 DEF Bijection, Injection, Surjection, IsInjective
<1>5. s = CHOOSE g \in [1..c -> S] : IsInjective(g)
  BY <1>1 DEF SetToSeq
<1>6. s \in [1..c -> S] /\ IsInjective(s)
  BY <1>4, <1>5
<1>7. s \in Seq(S) /\ Len(s) = c
  BY <1>2, <1>6, IsASeq, LenProperties
<1>8. \A m, n \in 1..c : s[m] = s[n] => m = n
  BY <1>6 DEF IsInjective
<1>9. s \in Injection(1..c, S)
  BY <1>6, <1>8 DEF Injection, IsInjective
<1>10. IsFiniteSet(1..c) /\ Cardinality(1..c) = Cardinality(S)
  BY <1>1, <1>2, FS_Interval
<1>11. s \in Surjection(1..c, S)
  BY <1>9, <1>10, FS_Injection
<1>12. \A x \in S : \E n \in 1..c : s[n] = x
  BY <1>11 DEF Surjection
<1> QED
  BY <1>1, <1>2, <1>7, <1>8, <1>12
=============================================================================
