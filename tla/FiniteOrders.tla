----------------------------- MODULE FiniteOrders -----------------------------
(***************************************************************************)
(* Finite sets in order: their first elements, how they are put in a row, and   *)
(* how a claim is carried from none of their elements to all. Nothing here is    *)
(* about the program; the proofs about the matcher, the duplicates, the list and   *)
(* the rails rest on it.                                                   *)
(***************************************************************************)
EXTENDS Sequences, FiniteSetTheorems, TLAPS

\* No finite set can be made smaller for ever.
LEMMA PartsWellFounded ==
    ASSUME NEW S, IsFiniteSet(S)
    PROVE  IsWellFoundedOn(StrictSubsetOrdering(S), SUBSET S)
BY FS_FiniteSubsetsOfFinite, FS_StrictSubsetOrderingWellFounded

Preceding(R, S, x) == {y \in S : <<y, x>> \in R}

\* A finite set has a first element in every transitive and irreflexive order: one
\* before which there are fewest.
LEMMA FirstOfMany ==
    ASSUME NEW S, IsFiniteSet(S), S # {}, NEW R,
           \A x \in S : <<x, x>> \notin R,
           \A x, y, z \in S : <<x, y>> \in R /\ <<y, z>> \in R => <<x, z>> \in R
    PROVE  \E x \in S : \A y \in S : <<y, x>> \notin R
<1> DEFINE T == {Preceding(R, S, x) : x \in S}
           O == StrictSubsetOrdering(S)
<1>1. IsWellFoundedOn(O, SUBSET S)
  BY PartsWellFounded
<1>2. T \subseteq SUBSET S /\ T # {}
  <2>1. \A x \in S : Preceding(R, S, x) \in SUBSET S
    BY DEF Preceding
  <2> QED
    BY <2>1
<1> HIDE DEF O
<1>3. \E A \in T : \A B \in T : <<B, A>> \notin O
  BY <1>1, <1>2, WFMin
<1>4. PICK x \in S : \A B \in T : <<B, Preceding(R, S, x)>> \notin O
  BY <1>3
<1>5. ASSUME NEW y \in S, <<y, x>> \in R PROVE FALSE
  <2>1. /\ Preceding(R, S, y) \subseteq Preceding(R, S, x)
        /\ y \in Preceding(R, S, x) /\ y \notin Preceding(R, S, y)
    BY <1>5 DEF Preceding
  <2>2. <<Preceding(R, S, y), Preceding(R, S, x)>> \in O
    BY <2>1 DEF O, StrictSubsetOrdering, Preceding
  <2> QED
    BY <1>4, <2>2
<1> QED
  BY <1>5

\* The last of finitely many.
LEMMA LastOfMany ==
    ASSUME NEW S, IsFiniteSet(S), S # {}, NEW R,
           \A x \in S : <<x, x>> \notin R,
           \A x, y, z \in S : <<x, y>> \in R /\ <<y, z>> \in R => <<x, z>> \in R
    PROVE  \E x \in S : \A y \in S : <<x, y>> \notin R
<1> DEFINE Q == {p \in S \X S : <<p[2], p[1]>> \in R}
<1>1. \A x \in S : <<x, x>> \notin Q
  OBVIOUS
<1>2. \A x, y, z \in S : <<x, y>> \in Q /\ <<y, z>> \in Q => <<x, z>> \in Q
  OBVIOUS
<1>3. \A x, y \in S : <<y, x>> \in Q <=> <<x, y>> \in R
  OBVIOUS
<1> HIDE DEF Q
<1>4. \E x \in S : \A y \in S : <<y, x>> \notin Q
  BY <1>1, <1>2, FirstOfMany
<1> QED
  BY <1>3, <1>4

\* A family of parts of a finite set that can be entered with no element and left
\* only with all of them has the whole set: what induction over a finite set shows.
LEMMA GrowsToAll ==
    ASSUME NEW S, IsFiniteSet(S), NEW F, F \subseteq SUBSET S, {} \in F,
           \A A \in F : A # S => \E x \in S \ A : A \cup {x} \in F
    PROVE  S \in F
<1> DEFINE T == {S \ A : A \in F}
           O == StrictSubsetOrdering(S)
<1>1. IsWellFoundedOn(O, SUBSET S)
  BY PartsWellFounded
<1>2. T \subseteq SUBSET S /\ T # {}
  OBVIOUS
<1> HIDE DEF O
<1>3. \E A \in T : \A B \in T : <<B, A>> \notin O
  <2> HIDE DEF T
  <2> QED
    BY <1>1, <1>2, WFMin
<1>4. PICK A \in F : \A B \in F : <<S \ B, S \ A>> \notin O
  <2>1. PICK C \in T : \A D \in T : <<D, C>> \notin O
    BY <1>3
  <2>2. PICK A \in F : C = S \ A
    BY <2>1
  <2>3. ASSUME NEW B \in F PROVE <<S \ B, S \ A>> \notin O
    BY <2>1, <2>2, S \ B \in T
  <2> QED
    BY <2>3
<1>5. SUFFICES ASSUME A # S PROVE FALSE
  BY <1>4
<1>6. PICK x \in S \ A : A \cup {x} \in F
  BY <1>5
<1>7. <<S \ (A \cup {x}), S \ A>> \in O
  BY <1>6 DEF O, StrictSubsetOrdering
<1> QED
  BY <1>4, <1>6, <1>7

\* A non-empty set of natural numbers has a least one, and a bounded one a largest.
LEMMA LeastNatural ==
    ASSUME NEW S \in SUBSET Nat, S # {}
    PROVE  \E x \in S : \A y \in S : x <= y
<1>1. PICK top \in S : TRUE
  OBVIOUS
<1> DEFINE Low == {x \in S : x <= top}
           R == {p \in Low \X Low : p[1] < p[2]}
<1>2. IsFiniteSet(Low)
  <2>1. Low \in SUBSET Nat /\ top \in Nat /\ \A x \in Low : x <= top
    BY <1>1
  <2> HIDE DEF Low
  <2> QED
    BY <2>1, FS_BoundedSetOfNaturals
<1>3. \A x \in Low : <<x, x>> \notin R
  OBVIOUS
<1>4. \A x, y, z \in Low : <<x, y>> \in R /\ <<y, z>> \in R => <<x, z>> \in R
  OBVIOUS
<1>5. top \in Low
  BY <1>1
<1>6. \E x \in Low : \A y \in Low : <<y, x>> \notin R
  <2> HIDE DEF Low, R
  <2> QED
    BY <1>2, <1>3, <1>4, <1>5, FirstOfMany
<1>7. PICK x \in Low : \A y \in Low : <<y, x>> \notin R
  BY <1>6
<1>8. ASSUME NEW y \in S PROVE x <= y
  <2>1. x \in Nat /\ y \in Nat /\ top \in Nat /\ x <= top
    OBVIOUS
  <2>2. CASE y <= top
    <3>1. y \in Low /\ <<y, x>> \notin R
      BY <1>7, <2>2
    <3>2. ~(y < x)
      BY <3>1
    <3> QED
      BY <2>1, <3>2
  <2> QED
    BY <2>1, <2>2
<1> QED
  BY <1>8

LEMMA MostNatural ==
    ASSUME NEW S \in SUBSET Nat, S # {}, NEW top \in Nat, \A x \in S : x <= top
    PROVE  \E x \in S : \A y \in S : x >= y
<1> DEFINE G == {n \in Nat : top - n \in S}
<1>1. PICK s \in S : TRUE
  OBVIOUS
<1>2. top - s \in G
  <2>1. s \in Nat /\ s <= top
    BY <1>1
  <2> QED
    BY <2>1
<1>3. PICK g \in G : \A h \in G : g <= h
  <2> HIDE DEF G
  <2>1. G \in SUBSET Nat
    BY DEF G
  <2> QED
    BY <1>2, <2>1, LeastNatural
<1>4. ASSUME NEW y \in S PROVE top - g >= y
  <2>1. y \in Nat /\ y <= top
    OBVIOUS
  <2>2. top - y \in G
    BY <2>1
  <2> QED
    BY <1>3, <2>1, <2>2
<1> QED
  BY <1>3, <1>4

(* ---- rows ---- *)

\* s has the elements of A once each, none after one that R puts behind it.
InOrder(R, A, s) ==
    /\ s \in [1..Cardinality(A) -> A]
    /\ \A x \in A : \E n \in 1..Cardinality(A) : s[n] = x
    /\ \A m, n \in 1..Cardinality(A) : m < n => <<s[n], s[m]>> \notin R

\* A row goes on with what belongs behind it.
LEMMA RowGrows ==
    ASSUME NEW A, IsFiniteSet(A), NEW R, NEW s, InOrder(R, A, s), NEW x, x \notin A,
           \A y \in A : <<x, y>> \notin R
    PROVE  \E t : InOrder(R, A \cup {x}, t)
<1> DEFINE N == Cardinality(A)
           t == [n \in 1..(N + 1) |-> IF n = N + 1 THEN x ELSE s[n]]
<1>1. N \in Nat /\ Cardinality(A \cup {x}) = N + 1
  BY FS_CardinalityType, FS_AddElement
<1>2. /\ s \in [1..N -> A]
      /\ \A y \in A : \E n \in 1..N : s[n] = y
      /\ \A m, n \in 1..N : m < n => <<s[n], s[m]>> \notin R
  BY DEF InOrder
<1> HIDE DEF N
<1>3. t \in [1..(N + 1) -> A \cup {x}] /\ t[N + 1] = x /\ \A n \in 1..N : t[n] = s[n]
  BY <1>1, <1>2
<1> HIDE DEF t
<1>4. ASSUME NEW y \in A \cup {x} PROVE \E n \in 1..(N + 1) : t[n] = y
  <2>1. CASE y = x
    BY <1>1, <1>3, <2>1
  <2>2. CASE y \in A
    <3>1. PICK n \in 1..N : s[n] = y
      BY <1>2, <2>2
    <3> QED
      BY <1>1, <1>3, <3>1
  <2> QED
    BY <2>1, <2>2
<1>5. ASSUME NEW m \in 1..(N + 1), NEW n \in 1..(N + 1), m < n
      PROVE  <<t[n], t[m]>> \notin R
  <2>1. m \in 1..N /\ t[m] = s[m] /\ s[m] \in A
    BY <1>1, <1>2, <1>3, <1>5
  <2>2. CASE n = N + 1
    BY <1>3, <2>1, <2>2
  <2>3. CASE n # N + 1
    <3>1. n \in 1..N /\ t[n] = s[n]
      BY <1>1, <1>3, <2>3
    <3> QED
      BY <1>2, <1>5, <2>1, <3>1
  <2> QED
    BY <2>2, <2>3
<1> QED
  BY <1>1, <1>3, <1>4, <1>5 DEF InOrder

\* Finitely many things can be put in a row.
LEMMA RowExists ==
    ASSUME NEW S, IsFiniteSet(S), NEW R,
           \A x \in S : <<x, x>> \notin R,
           \A x, y, z \in S : <<x, y>> \in R /\ <<y, z>> \in R => <<x, z>> \in R
    PROVE  \E s : InOrder(R, S, s)
<1> DEFINE Heads == {A \in SUBSET S : /\ \A x \in S \ A, y \in A : <<x, y>> \notin R
                                      /\ \E s : InOrder(R, A, s)}
<1>1. {} \in Heads
  <2>1. Cardinality({}) = 0 /\ 1..0 = {}
    BY FS_EmptySet
  <2>2. InOrder(R, {}, [n \in {} |-> n])
    BY <2>1 DEF InOrder
  <2> QED
    BY <2>2
<1>2. ASSUME NEW A \in Heads, A # S PROVE \E x \in S \ A : A \cup {x} \in Heads
  <2>1. IsFiniteSet(A) /\ IsFiniteSet(S \ A) /\ S \ A # {}
    BY <1>2, FS_Subset, FS_Difference
  <2>2. \E x \in S \ A : \A y \in S \ A : <<y, x>> \notin R
    <3>1. \A x \in S \ A : <<x, x>> \notin R
      OBVIOUS
    <3>2. \A x, y, z \in S \ A : <<x, y>> \in R /\ <<y, z>> \in R => <<x, z>> \in R
      OBVIOUS
    <3> HIDE DEF Heads
    <3> QED
      BY <2>1, <3>1, <3>2, FirstOfMany
  <2>3. PICK x \in S \ A : \A y \in S \ A : <<y, x>> \notin R
    BY <2>2
  <2>4. PICK s : InOrder(R, A, s)
    OBVIOUS
  <2>5. \A y \in A : <<x, y>> \notin R
    OBVIOUS
  <2>6. \E t : InOrder(R, A \cup {x}, t)
    BY <2>1, <2>3, <2>4, <2>5, RowGrows
  <2>7. \A z \in S \ (A \cup {x}), y \in A \cup {x} : <<z, y>> \notin R
    BY <2>3
  <2>8. A \cup {x} \in Heads
    BY <2>6, <2>7
  <2> QED
    BY <2>8
<1>3. Heads \subseteq SUBSET S
  OBVIOUS
<1>4. S \in Heads
  <2> HIDE DEF Heads
  <2> QED
    BY <1>1, <1>2, <1>3, GrowsToAll
<1> QED
  BY <1>4

\* A row has each of its elements once.
LEMMA RowInjective ==
    ASSUME NEW S, IsFiniteSet(S), NEW R, NEW s, InOrder(R, S, s)
    PROVE  \A m, n \in 1..Cardinality(S) : s[m] = s[n] => m = n
<1> DEFINE N == Cardinality(S)
<1>1. N \in Nat /\ IsFiniteSet(1..N) /\ Cardinality(1..N) = N
  BY FS_CardinalityType, FS_Interval
<1>2. s \in [1..N -> S] /\ \A x \in S : \E n \in 1..N : s[n] = x
  BY DEF InOrder
<1>3. s \in Surjection(1..N, S)
  BY <1>2 DEF Surjection
<1>4. s \in Injection(1..N, S)
  BY <1>1, <1>3, FS_SurjSameCardinalityImpliesInj
<1>5. ASSUME NEW m \in 1..N, NEW n \in 1..N, s[m] = s[n] PROVE m = n
  BY <1>2, <1>4, <1>5 DEF Injection, IsInjective
<1> QED
  BY <1>5

\* Where R decides between any two, there is one row only.
LEMMA RowUnique ==
    ASSUME NEW S, IsFiniteSet(S), NEW R, NEW s, InOrder(R, S, s), NEW t, InOrder(R, S, t),
           \A x, y \in S : x # y => <<x, y>> \in R \/ <<y, x>> \in R
    PROVE  s = t
<1> DEFINE N == Cardinality(S)
<1>0. N \in Nat
  BY FS_CardinalityType
<1>1. /\ s \in [1..N -> S] /\ \A x \in S : \E n \in 1..N : s[n] = x
      /\ \A m, n \in 1..N : m < n => <<s[n], s[m]>> \notin R
      /\ t \in [1..N -> S] /\ \A x \in S : \E n \in 1..N : t[n] = x
      /\ \A m, n \in 1..N : m < n => <<t[n], t[m]>> \notin R
  BY DEF InOrder
<1>2. /\ \A m, n \in 1..N : s[m] = s[n] => m = n
      /\ \A m, n \in 1..N : t[m] = t[n] => m = n
  BY RowInjective
<1> HIDE DEF N
<1>3. SUFFICES ASSUME \E n \in 1..N : s[n] # t[n] PROVE FALSE
  <2>1. s = [n \in 1..N |-> s[n]] /\ t = [n \in 1..N |-> t[n]]
    BY <1>1
  <2>2. CASE \A n \in 1..N : s[n] = t[n]
    <3>1. [n \in 1..N |-> s[n]] = [n \in 1..N |-> t[n]]
      BY <2>2
    <3> QED
      BY <2>1, <3>1
  <2> QED
    BY <1>3, <2>2
<1> DEFINE D == {n \in 1..N : s[n] # t[n]}
<1>4. PICK n \in D : \A m \in D : n <= m
  <2>1. D \in SUBSET Nat /\ D # {}
    BY <1>0, <1>3
  <2> HIDE DEF D
  <2> QED
    BY <2>1, LeastNatural
<1>5. n \in 1..N /\ s[n] # t[n] /\ s[n] \in S /\ t[n] \in S
  BY <1>1
<1>6. \A m \in 1..N : m < n => s[m] = t[m]
  BY <1>0, <1>4
<1> HIDE DEF D
<1>7. PICK k \in 1..N : t[k] = s[n]
  BY <1>1, <1>5
<1>8. n < k
  BY <1>0, <1>2, <1>5, <1>6, <1>7
<1>9. PICK l \in 1..N : s[l] = t[n]
  BY <1>1, <1>5
<1>10. n < l
  BY <1>0, <1>2, <1>5, <1>6, <1>9
<1>11. <<s[n], t[n]>> \notin R
  BY <1>1, <1>5, <1>7, <1>8
<1>12. <<t[n], s[n]>> \notin R
  BY <1>1, <1>5, <1>9, <1>10
<1> QED
  BY <1>5, <1>11, <1>12

\* r has the elements of A once each, and s takes as many as there are in r's order.
TakenInOrder(A, N, r, s) ==
    /\ \A n \in 1..N : r[n] \in A
    /\ \A x \in A : \E n \in 1..N : r[n] = x
    /\ \A m, n \in 1..N : r[m] = r[n] => m = n
    /\ s \in [1..Cardinality(A) -> A]
    /\ \A m, n \in 1..Cardinality(A) :
           m < n => \E i, j \in 1..N : i < j /\ r[i] = s[m] /\ r[j] = s[n]

\* Who takes all of a row's elements in the order of the row takes the row.
LEMMA SameRow ==
    ASSUME NEW N \in Nat, NEW A, NEW r, NEW s, TakenInOrder(A, N, r, s)
    PROVE  Cardinality(A) = N /\ \A n \in 1..N : s[n] = r[n]
<1>1. /\ \A n \in 1..N : r[n] \in A
      /\ \A x \in A : \E n \in 1..N : r[n] = x
      /\ \A m, n \in 1..N : r[m] = r[n] => m = n
  BY DEF TakenInOrder
<1> DEFINE q == [n \in 1..N |-> r[n]]
           R == {p \in A \X A : \E i, j \in 1..N : i < j /\ r[i] = p[1] /\ r[j] = p[2]}
<1>2. q \in Surjection(1..N, A) /\ q \in Injection(1..N, A)
  BY <1>1 DEF Surjection, Injection, IsInjective
<1>3. IsFiniteSet(1..N) /\ Cardinality(1..N) = N
  BY FS_Interval
<1>4. IsFiniteSet(A) /\ Cardinality(A) = N
  BY <1>2, <1>3, FS_Surjection
<1> DEFINE C == Cardinality(A)
<1>5. C = N /\ s \in [1..C -> A]
      /\ \A m, n \in 1..C : m < n => \E i, j \in 1..N : i < j /\ r[i] = s[m] /\ r[j] = s[n]
  BY <1>4 DEF TakenInOrder
<1> HIDE DEF C
<1>6. \A x, y \in A : <<x, y>> \in R <=> \E i, j \in 1..N : i < j /\ r[i] = x /\ r[j] = y
  OBVIOUS
<1>7. \A i, j \in 1..N : <<r[i], r[j]>> \in R <=> i < j
  BY <1>1, <1>6
<1> HIDE DEF R
<1>8. InOrder(R, A, q)
  <2>1. q \in [1..N -> A] /\ \A x \in A : \E n \in 1..N : q[n] = x
    BY <1>1
  <2>2. \A m, n \in 1..N : m < n => <<q[n], q[m]>> \notin R
    BY <1>7
  <2> HIDE DEF q
  <2> QED
    BY <1>4, <2>1, <2>2 DEF InOrder
<1>9. \A m, n \in 1..N : m < n => <<s[m], s[n]>> \in R /\ <<s[n], s[m]>> \notin R
  <2> SUFFICES ASSUME NEW m \in 1..N, NEW n \in 1..N, m < n
               PROVE  <<s[m], s[n]>> \in R /\ <<s[n], s[m]>> \notin R
    OBVIOUS
  <2>0. m \in 1..C /\ n \in 1..C
    BY <1>5
  <2>1. PICK i \in 1..N, j \in 1..N : i < j /\ r[i] = s[m] /\ r[j] = s[n]
    BY <1>5, <2>0, Zenon
  <2>2. <<r[i], r[j]>> \in R /\ <<r[j], r[i]>> \notin R
    BY <1>7, <2>1
  <2> QED
    BY <2>1, <2>2
<1>10. s \in Injection(1..N, A)
  <2>1. \A x \in A : <<x, x>> \notin R
    <3> SUFFICES ASSUME NEW x \in A PROVE <<x, x>> \notin R
      OBVIOUS
    <3>1. PICK i \in 1..N : r[i] = x
      BY <1>1
    <3> QED
      BY <1>7, <3>1
  <2>2. \A m, n \in 1..N : s[m] = s[n] => m = n
    <3> SUFFICES ASSUME NEW m \in 1..N, NEW n \in 1..N, s[m] = s[n], m < n PROVE FALSE
      OBVIOUS
    <3> QED
      BY <1>9, <2>1, <1>5
  <2> QED
    BY <1>5, <1>4, <2>2 DEF Injection, IsInjective
<1>11. s \in Surjection(1..N, A)
  BY <1>3, <1>4, <1>10, FS_Injection
<1>12. InOrder(R, A, s)
  BY <1>5, <1>4, <1>9, <1>11 DEF InOrder, Surjection
<1>13. \A x, y \in A : x # y => <<x, y>> \in R \/ <<y, x>> \in R
  <2> SUFFICES ASSUME NEW x \in A, NEW y \in A, x # y
               PROVE  <<x, y>> \in R \/ <<y, x>> \in R
    OBVIOUS
  <2>1. PICK i \in 1..N, j \in 1..N : r[i] = x /\ r[j] = y
    BY <1>1
  <2>2. i < j \/ j < i
    BY <2>1
  <2> QED
    BY <1>7, <2>1, <2>2
<1> HIDE DEF q
<1>14. s = q
  <2> HIDE DEF q
  <2> QED
    BY ONLY <1>4, <1>8, <1>12, <1>13, RowUnique
<1> QED
  BY <1>4, <1>14 DEF q

\* A row is a sequence.
LEMMA RowIsSeq ==
    ASSUME NEW S, NEW N \in Nat, NEW s \in [1..N -> S]
    PROVE  s \in Seq(S) /\ Len(s) = N
<1>1. s \in Seq(S)
  OBVIOUS
<1>2. DOMAIN s = 1..Len(s) /\ Len(s) \in Nat /\ DOMAIN s = 1..N
  BY <1>1
<1> QED
  BY <1>1, <1>2

=============================================================================
