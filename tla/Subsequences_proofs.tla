---------------------------- MODULE Subsequences_proofs ----------------------------
(***************************************************************************)
(* What Picked does: its elements are those at the positions, in their     *)
(* order, and it is the only sequence of which that is true.  And the      *)
(* least element of a set of numbers, for inductions.                      *)
(***************************************************************************)
EXTENDS Subsequences, Integers, FiniteSetTheorems, FunctionTheorems,
        SequenceTheorems, WellFoundedInduction, TLAPS

\* A set of numbers has a least element.
LEMMA LeastNumber ==
    ASSUME NEW S \in SUBSET Nat, S # {}
    PROVE  \E n \in S : \A m \in S : n <= m
<1> DEFINE R == OpToRel(<, Nat)
<1>1. IsWellFoundedOn(R, Nat)
  BY NatLessThanWellFounded
<1>2. R = {p \in Nat \X Nat : p[1] < p[2]}
  BY DEF OpToRel
<1> HIDE DEF R
<1>3. PICK n \in S : \A m \in S : ~(<<m, n>> \in R)
  BY <1>1, WFMin
<1>4. \A m \in S : <<m, n>> \in R <=> m < n
  BY <1>2
<1>5. ASSUME NEW m \in S PROVE n <= m
  <2>1. m \in Nat /\ n \in Nat /\ ~(m < n)
    BY <1>3, <1>4
  <2> QED BY <2>1
<1> QED BY <1>5

\* Induction, for a set of numbers.
LEMMA AllNumbers ==
    ASSUME NEW S, 0 \in S, \A n \in Nat : n \in S => n + 1 \in S
    PROVE  \A n \in Nat : n \in S
<1>1. SUFFICES ASSUME Nat \ S # {} PROVE FALSE
  OBVIOUS
<1>2. PICK n \in Nat \ S : \A m \in Nat \ S : n <= m
  <2>1. Nat \ S \in SUBSET Nat
    OBVIOUS
  <2> QED BY <1>1, <2>1, LeastNumber
<1>3. n # 0 /\ n - 1 \in Nat /\ n = (n - 1) + 1
  BY <1>2
<1>4. n - 1 \in S
  BY <1>2, <1>3
<1> QED BY <1>2, <1>3, <1>4

\* Positions have the places from the first to the last.
LEMMA Places ==
    ASSUME NEW n \in Nat, NEW A \in SUBSET (1 .. n)
    PROVE  /\ IsFiniteSet(A) /\ Cardinality(A) \in Nat /\ Cardinality(A) <= n
           /\ \A i \in A : Place(A, i) \in 1 .. Cardinality(A)
           /\ \A i, j \in A : i < j => Place(A, i) < Place(A, j)
           /\ \A k \in 1 .. Cardinality(A) : \E i \in A : Place(A, i) = k
<1>1. IsFiniteSet(1 .. n) /\ Cardinality(1 .. n) = n
  BY FS_Interval
<1>2. IsFiniteSet(A) /\ Cardinality(A) \in Nat /\ Cardinality(A) <= n
  BY <1>1, FS_Subset, FS_CardinalityType
<1> DEFINE Upto(i) == {j \in A : j <= i}
<1>3. \A i : /\ Upto(i) \in SUBSET A /\ IsFiniteSet(Upto(i))
             /\ Place(A, i) \in Nat /\ Place(A, i) = Cardinality(Upto(i))
             /\ Place(A, i) <= Cardinality(A)
  BY <1>2, FS_Subset, FS_CardinalityType DEF Place
<1>4. \A i \in A : Place(A, i) \in 1 .. Cardinality(A)
  <2>1. ASSUME NEW i \in A PROVE Place(A, i) # 0
    <3>1. i \in Upto(i)
      OBVIOUS
    <3> QED BY <1>3, <3>1, FS_EmptySet
  <2> HIDE DEF Upto
  <2>2. ASSUME NEW i \in A PROVE Place(A, i) \in 1 .. Cardinality(A)
    <3>1. /\ Place(A, i) \in Nat /\ Place(A, i) <= Cardinality(A)
          /\ Place(A, i) # 0 /\ Cardinality(A) \in Nat
      BY <1>2, <1>3, <2>1
    <3> QED BY <3>1
  <2> QED BY <2>2
<1>5. ASSUME NEW i \in A, NEW j \in A, i < j
      PROVE  Place(A, i) < Place(A, j)
  <2>1. Upto(i) \in SUBSET Upto(j) /\ j \in Upto(j) /\ j \notin Upto(i)
    <3>1. /\ i \in Int /\ j \in Int /\ j <= j /\ ~(j <= i)
          /\ \A l \in A : l <= i => l <= j
      BY <1>5
    <3> QED BY <3>1
  <2>2. Cardinality(Upto(i)) <= Cardinality(Upto(j))
        /\ Cardinality(Upto(i)) # Cardinality(Upto(j))
    BY <1>3, <2>1, FS_Subset
  <2> QED BY <1>3, <2>2
<1>6. \A k \in 1 .. Cardinality(A) : \E i \in A : Place(A, i) = k
  <2> DEFINE c == Cardinality(A)
             f == [i \in A |-> Place(A, i)]
  <2>1. f \in [A -> 1 .. c]
    BY <1>4
  <2>2. \A i, j \in A : f[i] = f[j] => i = j
    <3>1. ASSUME NEW i \in A, NEW j \in A, i # j PROVE f[i] # f[j]
      <4>1. i \in Nat /\ j \in Nat
        OBVIOUS
      <4>2. i < j \/ j < i
        BY <3>1, <4>1
      <4>3. Place(A, i) < Place(A, j) \/ Place(A, j) < Place(A, i)
        BY <1>5, <4>2
      <4>4. Place(A, i) \in Nat /\ Place(A, j) \in Nat
        BY <1>3
      <4>5. Place(A, i) # Place(A, j)
        BY <4>3, <4>4
      <4> QED BY <4>5
    <3> QED BY <3>1
  <2>3. IsFiniteSet(1 .. c) /\ Cardinality(1 .. c) = c
    BY <1>2, FS_Interval
  <2>4. f \in Injection(A, 1 .. c)
    BY <2>1, <2>2 DEF Injection, IsInjective
  <2>5. f \in Surjection(A, 1 .. c)
    BY <1>2, <2>3, <2>4, FS_Surjection, FS_Injection
  <2> QED BY <2>5 DEF Surjection
<1> QED BY <1>2, <1>4, <1>5, <1>6

-----------------------------------------------------------------------------
\* f goes through the positions in their order.
Enumerates(f, A, n) ==
    /\ f \in [1 .. n -> A]
    /\ \A k, l \in 1 .. n : k < l => f[k] < f[l]
    /\ \A i \in A : \E k \in 1 .. n : f[k] = i

\* t has the elements of s to which f goes.
Follows(t, s, f, n) == DOMAIN t = 1 .. n /\ \A k \in 1 .. n : t[k] = s[f[k]]

\* The picked elements are those at the positions, in their order.
LEMMA PickedAre ==
    ASSUME NEW n \in Nat, NEW A \in SUBSET (1 .. n), NEW s
    PROVE  \E f : /\ Enumerates(f, A, Cardinality(A))
                  /\ Follows(Picked(s, A), s, f, Cardinality(A))
<1> DEFINE c == Cardinality(A)
           f == [k \in 1 .. c |-> CHOOSE i \in A : Place(A, i) = k]
<1>1. /\ \A i \in A : Place(A, i) \in 1 .. c
      /\ \A i, j \in A : i < j => Place(A, i) < Place(A, j)
      /\ \A k \in 1 .. c : \E i \in A : Place(A, i) = k
      /\ c \in Nat
  BY Places
<1>0. \A i \in A : i \in Nat
  OBVIOUS
<1>2. DOMAIN Picked(s, A) = 1 .. c
      /\ \A k \in 1 .. c : Picked(s, A)[k] = s[f[k]]
  BY DEF Picked
<1>3. \A k \in 1 .. c : f[k] \in A /\ Place(A, f[k]) = k
  BY <1>1
<1>4. f \in [1 .. c -> A]
  BY <1>1
<1> HIDE DEF f
<1>5. ASSUME NEW k \in 1 .. c, NEW l \in 1 .. c, k < l
      PROVE  f[k] < f[l]
  <2>1. f[k] \in A /\ f[l] \in A /\ k \in Nat /\ l \in Nat
    BY <1>1, <1>3
  <2>4. f[k] \in Nat /\ f[l] \in Nat
    BY <1>0, <2>1
  <2>2. ~(f[l] < f[k])
    <3>1. ASSUME f[l] < f[k] PROVE FALSE
      <4>1. l < k
        BY <1>1, <1>3, <2>1, <3>1
      <4> QED BY <1>5, <2>1, <4>1
    <3> QED BY <3>1
  <2>3. f[l] # f[k]
    BY <1>3, <1>5, <2>1
  <2> QED BY <2>2, <2>3, <2>4
<1>6. ASSUME NEW i \in A
      PROVE  \E k \in 1 .. c : f[k] = i
  <2>1. PICK k \in 1 .. c : k = Place(A, i)
    BY <1>1
  <2>2. f[k] \in A /\ Place(A, f[k]) = Place(A, i) /\ f[k] \in Nat /\ i \in Nat
    BY <1>0, <1>3, <2>1
  <2>3. ~(f[k] < i) /\ ~(i < f[k])
    <3>1. Place(A, i) \in Nat
      BY <2>1
    <3>2. f[k] < i => Place(A, f[k]) < Place(A, i)
      BY <1>1, <2>2
    <3>3. i < f[k] => Place(A, i) < Place(A, f[k])
      BY <1>1, <2>2
    <3> QED BY <2>2, <3>1, <3>2, <3>3
  <2>4. f[k] = i
    BY <2>2, <2>3
  <2> QED BY <2>4
<1>7. Enumerates(f, A, c)
  BY <1>4, <1>5, <1>6 DEF Enumerates
<1>8. Follows(Picked(s, A), s, f, c)
  BY <1>2 DEF Follows, f
<1> QED BY <1>7, <1>8

\* Whatever lists the positions in order says what the picked elements are.
LEMMA PickedOnly ==
    ASSUME NEW n \in Nat, NEW A \in SUBSET (1 .. n), NEW m \in Nat, NEW f,
           Enumerates(f, A, m), NEW s
    PROVE  Cardinality(A) = m /\ Follows(Picked(s, A), s, f, m)
<1>1. /\ f \in [1 .. m -> A]
      /\ \A k, l \in 1 .. m : k < l => f[k] < f[l]
      /\ \A i \in A : \E k \in 1 .. m : f[k] = i
  BY DEF Enumerates
<1>0. \A i \in A : i \in Nat
  OBVIOUS
<1>2. \A k \in 1 .. m : f[k] \in A /\ f[k] \in Nat
  BY <1>0, <1>1
<1>3. ASSUME NEW k \in 1 .. m, NEW l \in 1 .. m
      PROVE  /\ f[k] = f[l] => k = l
             /\ f[k] <= f[l] <=> k <= l
  <2>1. f[k] \in Nat /\ f[l] \in Nat /\ k \in Nat /\ l \in Nat
    BY <1>2
  <2>2. /\ k < l => f[k] < f[l]
        /\ l < k => f[l] < f[k]
    BY <1>1
  <2> QED BY <2>1, <2>2
<1>4. \A k \in Nat : IsFiniteSet(1 .. k) /\ Cardinality(1 .. k) = k
  BY FS_Interval
<1>5. Cardinality(A) = m
  <2>1. f \in Bijection(1 .. m, A)
    BY <1>1, <1>3 DEF Bijection, Injection, IsInjective, Surjection
  <2>2. ExistsBijection(1 .. m, A)
    BY <2>1 DEF ExistsBijection
  <2> QED BY <1>4, <2>2, FS_Bijection
<1>6. ASSUME NEW k \in 1 .. m
      PROVE  Place(A, f[k]) = k
  <2> DEFINE U == {j \in A : j <= f[k]}
             g == [l \in 1 .. k |-> f[l]]
  <2>1. k \in Nat /\ \A l \in 1 .. k : l \in 1 .. m /\ l <= k
    OBVIOUS
  <2>2. \A l \in 1 .. k : f[l] \in U
    BY <1>2, <1>3, <2>1
  <2>3. g \in [1 .. k -> U]
    BY <2>2
  <2>4. \A l, o \in 1 .. k : g[l] = g[o] => l = o
    BY <1>3, <2>1
  <2>5. ASSUME NEW j \in U PROVE \E l \in 1 .. k : g[l] = j
    <3>1. j \in A /\ j <= f[k]
      OBVIOUS
    <3>2. PICK l \in 1 .. m : f[l] = j
      BY <1>1, <3>1
    <3>3. l <= k
      BY <1>3, <3>1, <3>2
    <3>4. l \in 1 .. k
      BY <2>1, <3>3
    <3> QED BY <3>2, <3>4
  <2>6. g \in Bijection(1 .. k, U)
    BY <2>3, <2>4, <2>5 DEF Bijection, Injection, IsInjective, Surjection
  <2>7. ExistsBijection(1 .. k, U)
    BY <2>6 DEF ExistsBijection
  <2> HIDE DEF U, g
  <2>8. Cardinality(U) = k
    BY <1>4, <2>1, <2>7, FS_Bijection
  <2> QED BY <2>8 DEF U, Place
<1>7. ASSUME NEW k \in 1 .. m
      PROVE  (CHOOSE i \in A : Place(A, i) = k) = f[k]
  <2>1. f[k] \in A /\ Place(A, f[k]) = k
    BY <1>2, <1>6
  <2>2. \A i \in A : Place(A, i) = k => i = f[k]
    <3>1. ASSUME NEW i \in A, Place(A, i) = k PROVE i = f[k]
      <4>1. PICK l \in 1 .. m : f[l] = i
        BY <1>1
      <4>2. l = k
        BY <1>6, <3>1, <4>1
      <4> QED BY <4>1, <4>2
    <3> QED BY <3>1
  <2> QED BY <2>1, <2>2
<1>8. Picked(s, A) = [k \in 1 .. m |-> s[CHOOSE i \in A : Place(A, i) = k]]
  BY <1>5 DEF Picked
<1>9. \A k \in 1 .. m : Picked(s, A)[k] = s[f[k]]
  BY <1>7, <1>8
<1> QED BY <1>5, <1>8, <1>9 DEF Follows

\* Picking from what was picked is picking once.
LEMMA EnumeratesTwice ==
    ASSUME NEW c \in Nat, NEW A \in SUBSET Nat, NEW f, Enumerates(f, A, c),
           NEW B \in SUBSET (1 .. c), NEW m \in Nat, NEW h, Enumerates(h, B, m),
           NEW C, C = {f[k] : k \in B}
    PROVE  Enumerates([k \in 1 .. m |-> f[h[k]]], C, m)
<1>1. \A k \in 1 .. m : h[k] \in B /\ h[k] \in 1 .. c /\ f[h[k]] \in C
  BY DEF Enumerates
<1>2. \A k, l \in 1 .. m : k < l => f[h[k]] < f[h[l]]
  BY <1>1 DEF Enumerates
<1>3. \A i \in C : \E k \in 1 .. m : f[h[k]] = i
  BY DEF Enumerates
<1> QED BY <1>1, <1>2, <1>3 DEF Enumerates

\* Type and length of what is picked, which is of the list and all of it
\* that was asked for.
LEMMA PickedSeq ==
    ASSUME NEW T, NEW s \in Seq(T), NEW A \in SUBSET (DOMAIN s)
    PROVE  /\ Picked(s, A) \in Seq(T) /\ Len(Picked(s, A)) = Cardinality(A)
           /\ Cardinality(A) \in Nat /\ Cardinality(A) <= Len(s)
           /\ \A k \in DOMAIN Picked(s, A) : \E i \in A : Picked(s, A)[k] = s[i]
           /\ \A i \in A : \E k \in DOMAIN Picked(s, A) : Picked(s, A)[k] = s[i]
<1>1. Len(s) \in Nat /\ A \in SUBSET (1 .. Len(s)) /\ \A i \in A : s[i] \in T
  BY ElementOfSeq, LenProperties
<1>0. PICK n \in Nat : n = Len(s) /\ A \in SUBSET (1 .. n)
  BY <1>1
<1>2. Cardinality(A) \in Nat /\ Cardinality(A) <= Len(s)
  BY <1>0, Places
<1>3. PICK f : /\ Enumerates(f, A, Cardinality(A))
               /\ Follows(Picked(s, A), s, f, Cardinality(A))
  BY <1>0, PickedAre
<1>4. /\ DOMAIN Picked(s, A) = 1 .. Cardinality(A)
      /\ \A k \in 1 .. Cardinality(A) : Picked(s, A)[k] = s[f[k]]
  BY <1>3 DEF Follows
<1>5. \A k \in 1 .. Cardinality(A) : f[k] \in A /\ Picked(s, A)[k] \in T
  BY <1>1, <1>3, <1>4 DEF Enumerates
<1>6. Picked(s, A) \in [1 .. Cardinality(A) -> T]
  BY <1>4, <1>5 DEF Picked
<1>7. Picked(s, A) \in Seq(T) /\ Len(Picked(s, A)) = Cardinality(A)
  BY <1>2, <1>4, <1>6, SeqDef, LenProperties
<1>8. ASSUME NEW i \in A
      PROVE  \E k \in DOMAIN Picked(s, A) : Picked(s, A)[k] = s[i]
  BY <1>3, <1>4 DEF Enumerates
<1>9. \A k \in DOMAIN Picked(s, A) : \E i \in A : Picked(s, A)[k] = s[i]
  BY <1>4, <1>5
<1> QED BY <1>2, <1>7, <1>8, <1>9

\* Who picks everything has the list.
LEMMA PickedAll ==
    ASSUME NEW T, NEW s \in Seq(T)
    PROVE  Picked(s, DOMAIN s) = s
<1>1. Len(s) \in Nat /\ DOMAIN s = 1 .. Len(s) /\ s = [k \in 1 .. Len(s) |-> s[k]]
  BY LenProperties, SeqDef
<1>2. PICK n \in Nat : n = Len(s) /\ DOMAIN s = 1 .. n /\ s = [k \in 1 .. n |-> s[k]]
  BY <1>1
<1>3. PICK f : f = [k \in 1 .. n |-> k]
  OBVIOUS
<1>4. Enumerates(f, 1 .. n, n)
  BY <1>3 DEF Enumerates
<1>5. Follows(Picked(s, 1 .. n), s, f, n)
  BY <1>4, PickedOnly
<1>6. Picked(s, 1 .. n) = [k \in 1 .. n |-> s[k]]
  BY <1>3, <1>5 DEF Follows, Picked
<1> QED BY <1>2, <1>6

\* A new last element that is picked comes last.
LEMMA PickedAppend ==
    ASSUME NEW T, NEW s \in Seq(T), NEW x \in T, NEW A \in SUBSET (DOMAIN s)
    PROVE  Picked(Append(s, x), A \cup {Len(s) + 1}) = Append(Picked(s, A), x)
<1>1. PICK n \in Nat : n = Len(s) /\ DOMAIN s = 1 .. n
  BY LenProperties
<1>2. PICK c, t, B : c = Cardinality(A) /\ t = Picked(s, A) /\ B = A \cup {n + 1}
  OBVIOUS
<1>3. c \in Nat /\ c <= n /\ t \in Seq(T) /\ Len(t) = c
  BY <1>1, <1>2, PickedSeq
<1>4. PICK f : Enumerates(f, A, c) /\ Follows(t, s, f, c)
  BY <1>1, <1>2, PickedAre
<1>5. PICK g : g = [k \in 1 .. c + 1 |-> IF k = c + 1 THEN n + 1 ELSE f[k]]
  OBVIOUS
<1>6. \A k \in 1 .. c : k # c + 1 /\ k \in 1 .. c + 1 /\ k <= c
  BY <1>3
<1>7. \A k \in 1 .. c : f[k] \in A /\ f[k] \in 1 .. n /\ g[k] = f[k]
  BY <1>1, <1>4, <1>5, <1>6 DEF Enumerates
<1>8. /\ c + 1 \in 1 .. c + 1 /\ g[c + 1] = n + 1
      /\ \A k \in 1 .. c + 1 : k = c + 1 \/ k \in 1 .. c
  BY <1>3, <1>5
<1>9. Enumerates(g, B, c + 1)
  <2>1. g \in [1 .. c + 1 -> B]
    BY <1>2, <1>5, <1>7, <1>8
  <2>2. ASSUME NEW k \in 1 .. c + 1, NEW l \in 1 .. c + 1, k < l
        PROVE  g[k] < g[l]
    <3>1. k \in 1 .. c
      BY <1>3, <2>2
    <3>2. CASE l \in 1 .. c
      <4>1. f[k] < f[l]
        BY <1>4, <2>2, <3>1, <3>2 DEF Enumerates
      <4> QED BY <1>7, <3>1, <3>2, <4>1
    <3>3. CASE l = c + 1
      <4>1. g[k] \in 1 .. n /\ g[l] = n + 1
        BY <1>7, <1>8, <3>1, <3>3
      <4> QED BY <4>1
    <3> QED BY <1>8, <3>2, <3>3
  <2>3. ASSUME NEW i \in B PROVE \E k \in 1 .. c + 1 : g[k] = i
    <3>1. CASE i \in A
      <4>1. PICK k \in 1 .. c : f[k] = i
        BY <1>4, <3>1 DEF Enumerates
      <4> QED BY <1>6, <1>7, <4>1
    <3>2. CASE i = n + 1
      BY <1>8, <3>2
    <3> QED BY <1>2, <3>1, <3>2
  <2> QED BY <2>1, <2>2, <2>3 DEF Enumerates
<1>10. n + 1 \in Nat /\ c + 1 \in Nat /\ B \in SUBSET (1 .. n + 1)
  <2>1. \A i \in 1 .. n : i \in 1 .. n + 1
    OBVIOUS
  <2> QED BY <1>1, <1>2, <1>3, <2>1
<1>11. PICK u : u = Append(s, x)
  OBVIOUS
<1>12. Follows(Picked(u, B), u, g, c + 1)
  BY <1>9, <1>10, PickedOnly
<1>13. u[n + 1] = x /\ \A i \in 1 .. n : u[i] = s[i]
  BY <1>1, <1>11, AppendProperties
<1>14. PICK v : v = Append(t, x)
  OBVIOUS
<1>15. v \in Seq(T) /\ Len(v) = c + 1 /\ v[c + 1] = x /\ \A k \in 1 .. c : v[k] = t[k]
  BY <1>3, <1>14, AppendProperties
<1>16. v = [k \in 1 .. c + 1 |-> v[k]]
  BY <1>15, SeqDef, LenProperties
<1>17. \A k \in 1 .. c + 1 : v[k] = u[g[k]]
  <2>1. ASSUME NEW k \in 1 .. c PROVE v[k] = u[g[k]]
    BY <1>4, <1>7, <1>13, <1>15 DEF Follows
  <2> QED BY <1>8, <1>13, <1>15, <2>1
<1>18. Picked(u, B) = v
  BY <1>12, <1>16, <1>17 DEF Follows, Picked
<1> QED BY <1>1, <1>2, <1>11, <1>14, <1>18

\* A new last element that is not picked changes nothing.
LEMMA PickedOfLonger ==
    ASSUME NEW T, NEW s \in Seq(T), NEW x \in T, NEW A \in SUBSET (DOMAIN s)
    PROVE  Picked(Append(s, x), A) = Picked(s, A)
<1>1. PICK n \in Nat : n = Len(s) /\ DOMAIN s = 1 .. n
  BY LenProperties
<1>2. PICK c, u : c = Cardinality(A) /\ u = Append(s, x)
  OBVIOUS
<1>3. PICK f : Enumerates(f, A, c)
  BY <1>1, <1>2, PickedAre
<1>4. c \in Nat
  BY <1>2, PickedSeq
<1>5. \A k \in 1 .. c : f[k] \in 1 .. n
  BY <1>1, <1>3 DEF Enumerates
<1>6. \A k \in 1 .. c : u[f[k]] = s[f[k]]
  BY <1>1, <1>2, <1>5, AppendProperties
<1>7. Follows(Picked(u, A), u, f, c) /\ Follows(Picked(s, A), s, f, c)
  BY <1>1, <1>3, <1>4, PickedOnly
<1>8. \A k \in 1 .. c : Picked(u, A)[k] = Picked(s, A)[k]
  BY <1>6, <1>7 DEF Follows
<1>9. /\ Picked(u, A) = [k \in 1 .. c |-> Picked(u, A)[k]]
      /\ Picked(s, A) = [k \in 1 .. c |-> Picked(s, A)[k]]
  BY <1>2 DEF Picked
<1>10. Picked(u, A) = Picked(s, A)
  BY <1>8, <1>9
<1> QED BY <1>2, <1>10

\* Elements that are left come from different positions, in their order.
LEMMA PickedOrder ==
    ASSUME NEW T, NEW s \in Seq(T), NEW A \in SUBSET (DOMAIN s),
           NEW k \in DOMAIN Picked(s, A), NEW l \in DOMAIN Picked(s, A)
    PROVE  \E i, j \in A : /\ Picked(s, A)[k] = s[i] /\ Picked(s, A)[l] = s[j]
                           /\ k = l => i = j
                           /\ k < l => i < j
                           /\ l < k => j < i
<1>1. PICK n \in Nat : n = Len(s) /\ DOMAIN s = 1 .. n
  BY LenProperties
<1>2. PICK c, t : c = Cardinality(A) /\ t = Picked(s, A)
  OBVIOUS
<1>3. PICK f : Enumerates(f, A, c) /\ Follows(t, s, f, c)
  BY <1>1, <1>2, PickedAre
<1>4. /\ DOMAIN t = 1 .. c /\ t[k] = s[f[k]] /\ t[l] = s[f[l]]
      /\ k \in 1 .. c /\ l \in 1 .. c
  BY <1>2, <1>3 DEF Follows
<1>5. /\ f[k] \in A /\ f[l] \in A
      /\ k < l => f[k] < f[l]
      /\ l < k => f[l] < f[k]
  BY <1>3, <1>4 DEF Enumerates
<1> QED BY <1>2, <1>4, <1>5

=============================================================================
