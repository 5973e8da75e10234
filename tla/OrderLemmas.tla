----------------------------- MODULE OrderLemmas -----------------------------
(* The extreme elements that a sort by createdAt or a findIndex picks exist, *)
(* and what splice and push make of the elements of a list.                  *)
EXTENDS Integers, Lists, WellFoundedInduction, TLAPS

\* A set of natural numbers that is not empty has a least element.
LEMMA LeastElement ==
    ASSUME NEW S, S \subseteq Nat, S # {}
    PROVE  \E m \in S : \A n \in S : m <= n
<1>1. IsWellFoundedOn(OpToRel(<, Nat), Nat)
  BY NatLessThanWellFounded
<1>2. PICK m \in S : \A n \in S : ~ (<< n, m >> \in OpToRel(<, Nat))
  BY <1>1, WFMin, Zenon
<1>3. \A n \in S : ~ (n < m)
  BY <1>2 DEF OpToRel
<1> QED
  BY <1>3

\* A set of numbers up to N that is not empty has a greatest element.
LEMMA GreatestElement ==
    ASSUME NEW N \in Nat, NEW S, S \subseteq 1 .. N, S # {}
    PROVE  \E m \in S : \A n \in S : n <= m
<1> DEFINE T == { N - n : n \in S }
<1>1. T \subseteq Nat
  OBVIOUS
<1>2. T # {}
  <2>1. PICK s \in S : TRUE
    OBVIOUS
  <2>2. N - s \in T
    BY <2>1
  <2> QED
    BY <2>2
<1>3. PICK t \in T : \A u \in T : t <= u
  <2> HIDE DEF T
  <2> QED
    BY <1>1, <1>2, LeastElement
<1>4. PICK m \in S : t = N - m
  BY <1>3
<1>5. ASSUME NEW n \in S PROVE n <= m
  <2>1. N - n \in T
    OBVIOUS
  <2>2. t <= N - n
    BY <1>3, <2>1
  <2> QED
    BY <1>4, <2>2
<1> QED
  BY <1>5

-----------------------------------------------------------------------------
(* Lists *)

\* No element is in the list twice.
Distinct(s) == \A i, j \in DOMAIN s : s[i] = s[j] => i = j

\* findIndex gives a place of an element that is in the list.
LEMMA IndexOfElement ==
    ASSUME NEW T, NEW s \in Seq(T), NEW did \in Elements(s)
    PROVE  IndexOf(s, did) \in 1 .. Len(s) /\ s[IndexOf(s, did)] = did
<1> DEFINE P == { i \in DOMAIN s : s[i] = did }
<1>1. P \subseteq Nat /\ P # {}
  BY DEF Elements
<1>2. PICK m \in P : \A n \in P : m <= n
  <2> HIDE DEF P
  <2> QED
    BY <1>1, LeastElement
<1>3. \E i \in DOMAIN s : s[i] = did /\ \A j \in DOMAIN s : s[j] = did => i <= j
  BY <1>2
<1>4. IndexOf(s, did) \in DOMAIN s /\ s[IndexOf(s, did)] = did
  BY <1>3 DEF IndexOf
<1> QED
  BY <1>4

\* splice gives a list of the same type, with the same elements but for the
\* one it has removed.
LEMMA WithoutList ==
    ASSUME NEW T, NEW s \in Seq(T), NEW index \in 1 .. Len(s)
    PROVE  /\ Without(s, index) \in Seq(T)
           /\ Elements(Without(s, index)) \subseteq Elements(s)
           /\ Elements(s) \subseteq Elements(Without(s, index)) \cup {s[index]}
<1> DEFINE w == Without(s, index)
<1>1. Len(s) - 1 \in Nat /\ DOMAIN w = 1 .. Len(s) - 1
  BY DEF Without
<1>2. \A i \in 1 .. Len(s) - 1 : w[i] = IF i < index THEN s[i] ELSE s[i + 1]
  BY DEF Without
<1>3. \A i \in 1 .. Len(s) : s[i] \in T
  OBVIOUS
<1>4. \A i \in 1 .. Len(s) - 1 : w[i] \in T
  BY <1>2, <1>3
<1>5. w \in [1 .. Len(s) - 1 -> T]
  <2>1. w = [i \in 1 .. Len(s) - 1 |-> IF i < index THEN s[i] ELSE s[i + 1]]
    BY DEF Without
  <2>2. \A i \in 1 .. Len(s) - 1 : (IF i < index THEN s[i] ELSE s[i + 1]) \in T
    BY <1>3
  <2> QED
    BY <2>1, <2>2
<1>6. w \in Seq(T)
  BY <1>1, <1>5
<1>7. Elements(w) \subseteq Elements(s)
  <2> SUFFICES ASSUME NEW i \in 1 .. Len(s) - 1 PROVE w[i] \in Elements(s)
    BY <1>1 DEF Elements
  <2> QED
    BY <1>2 DEF Elements
<1>8. Elements(s) \subseteq Elements(w) \cup {s[index]}
  <2> SUFFICES ASSUME NEW i \in 1 .. Len(s), i # index PROVE s[i] \in Elements(w)
    BY DEF Elements
  <2>1. CASE i < index
    <3>1. i \in 1 .. Len(s) - 1 /\ w[i] = s[i]
      BY <2>1, <1>2
    <3> QED
      BY <3>1, <1>1 DEF Elements
  <2>2. CASE i > index
    <3>1. i - 1 \in 1 .. Len(s) - 1 /\ w[i - 1] = s[i]
      BY <2>2, <1>2
    <3> QED
      BY <3>1, <1>1 DEF Elements
  <2> QED
    BY <2>1, <2>2
<1> QED
  BY <1>6, <1>7, <1>8

\* From a list without repetition splice removes exactly one element.
LEMMA WithoutDistinct ==
    ASSUME NEW T, NEW s \in Seq(T), NEW index \in 1 .. Len(s), Distinct(s)
    PROVE  /\ Distinct(Without(s, index))
           /\ Elements(Without(s, index)) = Elements(s) \ {s[index]}
<1> DEFINE w == Without(s, index)
<1>1. DOMAIN w = 1 .. Len(s) - 1
  BY DEF Without
<1>2. \A i \in 1 .. Len(s) - 1 : w[i] = IF i < index THEN s[i] ELSE s[i + 1]
  BY DEF Without
<1>3. \A i, j \in 1 .. Len(s) : s[i] = s[j] => i = j
  BY DEF Distinct
<1>4. Distinct(w)
  <2> SUFFICES ASSUME NEW i \in 1 .. Len(s) - 1, NEW j \in 1 .. Len(s) - 1, w[i] = w[j]
               PROVE  i = j
    BY <1>1 DEF Distinct
  <2>1. w[i] = IF i < index THEN s[i] ELSE s[i + 1]
    BY <1>2
  <2>2. w[j] = IF j < index THEN s[j] ELSE s[j + 1]
    BY <1>2
  <2> DEFINE k == IF i < index THEN i ELSE i + 1
             l == IF j < index THEN j ELSE j + 1
  <2>3. k \in 1 .. Len(s) /\ w[i] = s[k]
    BY <2>1
  <2>4. l \in 1 .. Len(s) /\ w[j] = s[l]
    BY <2>2
  <2>5. k = l
    <3> HIDE DEF k, l, w
    <3> QED
      BY <1>3, <2>3, <2>4
  <2> QED
    BY <2>5
<1>5. s[index] \notin Elements(w)
  <2> SUFFICES ASSUME NEW i \in 1 .. Len(s) - 1, w[i] = s[index] PROVE FALSE
    BY <1>1 DEF Elements
  <2> DEFINE k == IF i < index THEN i ELSE i + 1
  <2>1. w[i] = IF i < index THEN s[i] ELSE s[i + 1]
    BY <1>2
  <2>2. k \in 1 .. Len(s) /\ k # index /\ s[k] = s[index]
    BY <2>1
  <2> HIDE DEF k
  <2> QED
    BY <1>3, <2>2
<1> QED
  BY <1>4, <1>5, WithoutList

\* push adds one element.
LEMMA AppendElements ==
    ASSUME NEW T, NEW s \in Seq(T), NEW e \in T
    PROVE  /\ Append(s, e) \in Seq(T)
           /\ Elements(Append(s, e)) = Elements(s) \cup {e}
           /\ Distinct(s) /\ e \notin Elements(s) => Distinct(Append(s, e))
<1> DEFINE a == Append(s, e)
<1>1. a \in Seq(T) /\ Len(a) = Len(s) + 1 /\ DOMAIN a = 1 .. Len(s) + 1
  OBVIOUS
<1>2. \A i \in 1 .. Len(s) : a[i] = s[i]
  OBVIOUS
<1>3. a[Len(s) + 1] = e
  OBVIOUS
<1> HIDE DEF a
<1>4. Elements(a) \subseteq Elements(s) \cup {e}
  <2> SUFFICES ASSUME NEW i \in 1 .. Len(s) + 1 PROVE a[i] \in Elements(s) \cup {e}
    BY <1>1 DEF Elements
  <2>1. i \in 1 .. Len(s) \/ i = Len(s) + 1
    OBVIOUS
  <2> QED
    BY <2>1, <1>2, <1>3 DEF Elements
<1>5. Elements(s) \cup {e} \subseteq Elements(a)
  <2>1. \A i \in 1 .. Len(s) : s[i] \in Elements(a)
    BY <1>1, <1>2 DEF Elements
  <2>2. e \in Elements(a)
    BY <1>1, <1>3 DEF Elements
  <2> QED
    BY <2>1, <2>2 DEF Elements
<1>6. ASSUME Distinct(s), e \notin Elements(s) PROVE Distinct(a)
  <2> SUFFICES ASSUME NEW i \in 1 .. Len(s) + 1, NEW j \in 1 .. Len(s) + 1, a[i] = a[j]
               PROVE  i = j
    BY <1>1 DEF Distinct
  <2>1. \A k \in 1 .. Len(s) : s[k] # e
    BY <1>6 DEF Elements
  <2>2. \A k, l \in 1 .. Len(s) : s[k] = s[l] => k = l
    BY <1>6 DEF Distinct
  <2> QED
    BY <1>2, <1>3, <2>1, <2>2
<1> QED
  BY <1>1, <1>4, <1>5, <1>6 DEF a

\* The numbers of the list grow; those of the first are below the second's.
Increasing(s) == \A i, j \in DOMAIN s : i < j => s[i] < s[j]
Below(s, t) == \A x \in Elements(s), y \in Elements(t) : x < y

\* A concatenation has the elements of both parts.
LEMMA ConcatElements ==
    ASSUME NEW T, NEW s \in Seq(T), NEW t \in Seq(T)
    PROVE  s \o t \in Seq(T) /\ Elements(s \o t) = Elements(s) \cup Elements(t)
<1> DEFINE c == s \o t
<1>1. c \in Seq(T) /\ DOMAIN c = 1 .. Len(s) + Len(t)
  OBVIOUS
<1>0. /\ DOMAIN s = 1 .. Len(s) /\ DOMAIN t = 1 .. Len(t)
      /\ Len(s) \in Nat /\ Len(t) \in Nat
  OBVIOUS
<1>2. \A i \in 1 .. Len(s) : c[i] = s[i]
  OBVIOUS
<1>3. \A i \in 1 .. Len(t) : c[Len(s) + i] = t[i]
  OBVIOUS
<1> HIDE DEF c
<1>4. Elements(c) \subseteq Elements(s) \cup Elements(t)
  <2> SUFFICES ASSUME NEW i \in 1 .. Len(s) + Len(t) PROVE c[i] \in Elements(s) \cup Elements(t)
    BY <1>0, <1>1 DEF Elements
  <2>1. CASE i <= Len(s)
    BY <2>1, <1>2, <1>0 DEF Elements
  <2>2. CASE i > Len(s)
    <3>1. i - Len(s) \in 1 .. Len(t) /\ c[i] = t[i - Len(s)]
      BY <2>2, <1>3
    <3> QED
      BY <3>1, <1>0 DEF Elements
  <2> QED
    BY <2>1, <2>2
<1>5. \A i \in 1 .. Len(s) : s[i] \in Elements(c)
  BY <1>0, <1>1, <1>2 DEF Elements
<1>6. \A i \in 1 .. Len(t) : t[i] \in Elements(c)
  <2> SUFFICES ASSUME NEW i \in 1 .. Len(t) PROVE t[i] \in Elements(c)
    OBVIOUS
  <2>1. Len(s) + i \in 1 .. Len(s) + Len(t)
    BY <1>0, <1>1
  <2> QED
    BY <1>0, <1>1, <1>3, <2>1 DEF Elements
<1>7. Elements(c) = Elements(s) \cup Elements(t)
  BY <1>4, <1>5, <1>6, <1>0 DEF Elements
<1> QED
  BY <1>1, <1>7 DEF c

\* Where the positions of two lists fall in their concatenation.
LEMMA Positions ==
    ASSUME NEW a \in Nat, NEW b \in Nat, NEW j \in 1 .. b
    PROVE  a + j \in 1 .. a + b /\ \A i \in 1 .. a : i \in 1 .. a + b /\ i < a + j
  OBVIOUS

\* A concatenation grows when both parts do, the first below the second.
LEMMA ConcatIncreasing ==
    ASSUME NEW s \in Seq(Nat), NEW t \in Seq(Nat)
    PROVE  Increasing(s \o t) <=> Increasing(s) /\ Increasing(t) /\ Below(s, t)
<1> DEFINE c == s \o t
<1>1. c \in Seq(Nat) /\ DOMAIN c = 1 .. Len(s) + Len(t)
  OBVIOUS
<1>0. /\ DOMAIN s = 1 .. Len(s) /\ DOMAIN t = 1 .. Len(t)
      /\ Len(s) \in Nat /\ Len(t) \in Nat
  OBVIOUS
<1>2. \A i \in 1 .. Len(s) : c[i] = s[i]
  OBVIOUS
<1>3. \A i \in 1 .. Len(t) : c[Len(s) + i] = t[i]
  OBVIOUS
<1> HIDE DEF c
<1>4. ASSUME Increasing(c) PROVE Increasing(s)
  BY <1>0, <1>1, <1>2, <1>4 DEF Increasing
<1>5. ASSUME Increasing(c) PROVE Increasing(t)
  <2> SUFFICES ASSUME NEW i \in 1 .. Len(t), NEW j \in 1 .. Len(t), i < j PROVE t[i] < t[j]
    BY <1>0 DEF Increasing
  <2>1. Len(s) + i \in 1 .. Len(s) + Len(t) /\ Len(s) + j \in 1 .. Len(s) + Len(t)
    BY <1>0, Positions
  <2>2. Len(s) + i < Len(s) + j
    BY <1>0
  <2> QED
    BY <1>1, <1>3, <1>5, <2>1, <2>2 DEF Increasing
<1>6. ASSUME Increasing(c) PROVE Below(s, t)
  <2> SUFFICES ASSUME NEW i \in 1 .. Len(s), NEW j \in 1 .. Len(t) PROVE s[i] < t[j]
    BY <1>0 DEF Below, Elements
  <2>1. i \in 1 .. Len(s) + Len(t) /\ Len(s) + j \in 1 .. Len(s) + Len(t) /\ i < Len(s) + j
    BY <1>0, Positions
  <2> QED
    BY <1>1, <1>2, <1>3, <1>6, <2>1 DEF Increasing
<1>7. ASSUME Increasing(s), Increasing(t), Below(s, t) PROVE Increasing(c)
  <2> SUFFICES ASSUME NEW i \in 1 .. Len(s) + Len(t), NEW j \in 1 .. Len(s) + Len(t), i < j PROVE c[i] < c[j]
    BY <1>0, <1>1 DEF Increasing
  <2>0. i \in Nat /\ j \in Nat /\ i < j /\ 1 <= i /\ 1 <= j /\ i <= Len(s) + Len(t) /\ j <= Len(s) + Len(t)
    BY <1>0
  <2>1. CASE j <= Len(s)
    <3>1. i \in 1 .. Len(s) /\ j \in 1 .. Len(s)
      BY <2>0, <2>1, <1>0
    <3>2. s[i] < s[j]
      BY <3>1, <1>0, <1>7, <2>0 DEF Increasing
    <3> QED
      BY <3>1, <3>2, <1>2
  <2>2. CASE i <= Len(s) /\ j > Len(s)
    <3>0. j - Len(s) \in 1 .. Len(t) /\ Len(s) + (j - Len(s)) = j
      BY <2>2, <2>0, <1>0
    <3>1. j - Len(s) \in 1 .. Len(t) /\ c[j] = t[j - Len(s)]
      BY <3>0, <1>3
    <3> QED
      <4>1. i \in 1 .. Len(s)
        BY <2>0, <2>2, <1>0
      <4>2. s[i] < t[j - Len(s)]
        BY <4>1, <3>1, <1>0, <1>7 DEF Below, Elements
      <4> QED
        BY <4>1, <4>2, <3>1, <1>2
  <2>3. CASE i > Len(s)
    <3>1. i - Len(s) \in 1 .. Len(t) /\ c[i] = t[i - Len(s)]
      BY <2>3, <1>0, <1>1, <1>3
    <3>0. j - Len(s) \in 1 .. Len(t) /\ Len(s) + (j - Len(s)) = j
      BY <2>3, <2>0, <1>0
    <3>2. j - Len(s) \in 1 .. Len(t) /\ c[j] = t[j - Len(s)]
      BY <3>0, <1>3
    <3>3. i - Len(s) < j - Len(s)
      BY <2>0, <1>0
    <3> QED
      BY <3>1, <3>2, <3>3, <1>0, <1>7 DEF Increasing
  <2> QED
    BY <2>1, <2>2, <2>3
<1> QED
  BY <1>4, <1>5, <1>6, <1>7 DEF c

=============================================================================
