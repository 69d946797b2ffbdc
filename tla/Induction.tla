------------------------------ MODULE Induction ------------------------------
(***************************************************************************)
(* Induction over the natural numbers for the proofs of the other modules, *)
(* and what the loops of Lists compute.                                    *)
(*                                                                         *)
(* The library states its principles for a predicate, an operator          *)
(* parameter that the installed provers cannot instantiate.  Here the same *)
(* principles are about a set of numbers, { n \in Nat : P(n) } where they  *)
(* are used, which needs first-order reasoning only.  They rest on the     *)
(* library's theorem that < is well-founded on Nat.                        *)
(***************************************************************************)
EXTENDS Integers, FiniteSetsExt, Lists, WellFoundedInduction, SequenceTheorems, TLAPS

(* A set of naturals that is not empty has a least element.                *)
LEMMA Least ==
  ASSUME NEW T \in SUBSET Nat, T # {}
  PROVE  \E n \in T : \A m \in T : n <= m
<1>1. PICK x \in T : \A y \in T : ~ (<<y, x>> \in OpToRel(<, Nat))
  <2>1. IsWellFoundedOn(OpToRel(<, Nat), Nat)
    BY NatLessThanWellFounded
  <2> HIDE DEF IsWellFoundedOn
  <2> QED BY <2>1, WFMin
<1>2. \A y \in T : ~ (y < x)
  <2> TAKE y \in T
  <2>1. y < x => <<y, x>> \in OpToRel(<, Nat)
    BY DEF OpToRel
  <2> QED BY <1>1, <2>1
<1> QED BY <1>2

(* A set that holds 0, and with each number the next, holds every number.  *)
LEMMA Naturals ==
  ASSUME NEW S, 0 \in S, \A n \in Nat : n \in S => n + 1 \in S
  PROVE  Nat \subseteq S
<1> SUFFICES ASSUME Nat \ S # {} PROVE FALSE
  OBVIOUS
<1>1. PICK n \in Nat \ S : \A m \in Nat \ S : n <= m
  BY Least
<1>2. n # 0 /\ n - 1 \in Nat /\ n - 1 \notin Nat \ S
  BY <1>1
<1> QED BY <1>1, <1>2

(* The least and the greatest element of a set of bounded naturals.        *)
LEMMA MinOfNaturals ==
  ASSUME NEW T \in SUBSET Nat, T # {}
  PROVE  Min(T) \in T /\ \A m \in T : Min(T) <= m
<1>1. \E n \in T : \A m \in T : n <= m
  BY Least
<1> QED BY <1>1 DEF Min

LEMMA MaxOfNaturals ==
  ASSUME NEW b \in Nat, NEW T \in SUBSET (0..b), T # {}
  PROVE  Max(T) \in T /\ \A m \in T : m <= Max(T)
<1> DEFINE D == {n \in Nat : \E t \in T : n = b - t}
<1>1. D # {}
  <2>1. PICK t \in T : TRUE
    OBVIOUS
  <2>2. b - t \in Nat
    BY <2>1
  <2> QED BY <2>1, <2>2
<1>2. PICK d \in D : \A n \in D : d <= n
  BY <1>1, Least
<1>3. PICK t \in T : d = b - t
  BY <1>2
<1>4. \A m \in T : m <= t
  <2> TAKE m \in T
  <2>1. b - m \in D
    OBVIOUS
  <2> QED BY <1>2, <1>3, <2>1
<1>5. \A m \in T : t >= m
  BY <1>4
<1> QED BY <1>5 DEF Max
-----------------------------------------------------------------------------
(* The loops of Lists.                                                     *)

(* Only, as the recursion it is: what is kept of the first n elements.     *)
Keep(s, S) ==
  CHOOSE f : f = [n \in 0..Len(s) |-> IF n = 0 THEN <<>>
                                      ELSE IF s[n] \in S THEN Append(f[n - 1], s[n])
                                      ELSE f[n - 1]]

LEMMA KeepRecursion ==
  ASSUME NEW T, NEW s \in Seq(T), NEW S
  PROVE  /\ Only(s, S) = Keep(s, S)[Len(s)]
         /\ Keep(s, S)[0] = <<>>
         /\ \A n \in 1..Len(s) :
              Keep(s, S)[n] = IF s[n] \in S THEN Append(Keep(s, S)[n - 1], s[n])
                              ELSE Keep(s, S)[n - 1]
<1> DEFINE Body(f, n) == IF n = 0 THEN <<>>
                         ELSE IF s[n] \in S THEN Append(f[n - 1], s[n]) ELSE f[n - 1]
           N == {n \in Nat : \E f : f = [k \in 0..n |-> Body(f, k)]}
<1>1. 0 \in N
  <2> DEFINE f == [k \in 0..0 |-> <<>>]
  <2>1. f = [k \in 0..0 |-> Body(f, k)]
    OBVIOUS
  <2> HIDE DEF Body, f
  <2> QED BY <2>1
<1>2. \A n \in Nat : n \in N => n + 1 \in N
  <2> SUFFICES ASSUME NEW n \in Nat, NEW f, f = [k \in 0..n |-> Body(f, k)]
               PROVE  n + 1 \in N
    OBVIOUS
  <2> DEFINE g == [k \in 0..(n + 1) |-> IF k <= n THEN f[k] ELSE Body(f, k)]
  <2>1. \A k \in 0..n : g[k] = f[k]
    OBVIOUS
  <2>2. \A k \in 0..(n + 1) : Body(g, k) = Body(f, k)
    <3> TAKE k \in 0..(n + 1)
    <3>1. CASE k = 0
      BY <3>1
    <3>2. CASE k # 0
      <4>1. k - 1 \in 0..n
        BY <3>2
      <4> QED BY <2>1, <3>2, <4>1
    <3> QED BY <3>1, <3>2
  <2>3. \A k \in 0..(n + 1) : g[k] = Body(f, k)
    <3> HIDE DEF Body
    <3> TAKE k \in 0..(n + 1)
    <3>1. CASE k <= n
      <4>1. f[k] = Body(f, k)
        BY <3>1
      <4> QED BY <3>1, <4>1
    <3> QED BY <3>1
  <2> HIDE DEF Body
  <2>4. g = [k \in 0..(n + 1) |-> Body(g, k)]
    BY <2>2, <2>3
  <2> HIDE DEF g
  <2> QED BY <2>4
<1>3. Len(s) \in N
  <2> HIDE DEF N
  <2> QED BY <1>1, <1>2, Naturals, LenProperties
<1>4. Keep(s, S) = [n \in 0..Len(s) |-> Body(Keep(s, S), n)]
  BY <1>3 DEF Keep
<1>5. Len(s) \in Nat
  BY LenProperties
<1>6. Only(s, S) = Keep(s, S)[Len(s)]
  BY DEF Only, Keep
<1>7. Keep(s, S)[0] = <<>>
  <2>1. Keep(s, S)[0] = Body(Keep(s, S), 0)
    BY <1>4, <1>5
  <2> QED BY <2>1
<1>8. \A n \in 1..Len(s) : Keep(s, S)[n] = Body(Keep(s, S), n)
  <2> HIDE DEF Body
  <2> QED BY <1>4, <1>5
<1>9. \A n \in 1..Len(s) :
        Keep(s, S)[n] = IF s[n] \in S THEN Append(Keep(s, S)[n - 1], s[n])
                        ELSE Keep(s, S)[n - 1]
  BY <1>5, <1>8
<1> QED BY <1>6, <1>7, <1>9

(* Where the elements that are kept come from: places of s, in order, and  *)
(* all that there are.                                                     *)
Places(s, S, n, r, g) ==
  /\ g \in [1..Len(r) -> 1..n]
  /\ \A i \in 1..Len(r) : r[i] = s[g[i]] /\ s[g[i]] \in S
  /\ \A i, j \in 1..Len(r) : i < j => g[i] < g[j]
  /\ \A k \in 1..n : s[k] \in S => \E i \in 1..Len(r) : g[i] = k

KeptWell(T, s, S, n) ==
  /\ Keep(s, S)[n] \in Seq(T \cap S)
  /\ \E g : Places(s, S, n, Keep(s, S)[n], g)

LEMMA OnlyPlaced ==
  ASSUME NEW T, NEW s \in Seq(T), NEW S
  PROVE  /\ Only(s, S) \in Seq(T \cap S)
         /\ \E g : Places(s, S, Len(s), Only(s, S), g)
<1> DEFINE N == {n \in Nat : n <= Len(s) => KeptWell(T, s, S, n)}
<1>1. 0 \in N
  <2>1. Keep(s, S)[0] = <<>>
    BY KeepRecursion
  <2> DEFINE g == [i \in 1..0 |-> i]
  <2>2. Places(s, S, 0, <<>>, g)
    BY DEF Places
  <2> HIDE DEF g
  <2>3. Keep(s, S)[0] \in Seq(T \cap S) /\ Places(s, S, 0, Keep(s, S)[0], g)
    BY <2>1, <2>2
  <2>4. KeptWell(T, s, S, 0)
    BY <2>3 DEF KeptWell
  <2> QED BY <2>4
<1>2. \A n \in Nat : n \in N => n + 1 \in N
  <2> SUFFICES ASSUME NEW n \in Nat, n \in N, n + 1 <= Len(s)
               PROVE  KeptWell(T, s, S, n + 1)
    OBVIOUS
  <2>1. Len(s) \in Nat /\ n <= Len(s) /\ n + 1 \in 1..Len(s) /\ (n + 1) - 1 = n
    BY LenProperties
  <2>2. KeptWell(T, s, S, n)
    BY <2>1
  <2>20. PICK q \in Seq(T \cap S) : q = Keep(s, S)[n]
    BY <2>2 DEF KeptWell
  <2>3. PICK g : Places(s, S, n, q, g)
    BY <2>2, <2>20 DEF KeptWell
  <2>4. Keep(s, S)[n + 1] = IF s[n + 1] \in S THEN Append(q, s[n + 1]) ELSE q
    BY <2>1, <2>20, KeepRecursion
  <2>5. CASE s[n + 1] \notin S
    <3>1. Places(s, S, n + 1, q, g)
      <4>1. \A k \in 1..(n + 1) : k = n + 1 \/ k \in 1..n
        OBVIOUS
      <4>2. 1..n \subseteq 1..(n + 1)
        OBVIOUS
      <4>3. g \in [1..Len(q) -> 1..(n + 1)]
        BY <2>3, <4>2 DEF Places
      <4> QED BY <2>3, <2>5, <4>1, <4>3 DEF Places
    <3> QED BY <2>4, <2>5, <2>20, <3>1 DEF KeptWell
  <2>6. CASE s[n + 1] \in S
    <3> DEFINE x == s[n + 1]
               r == Append(q, x)
               h == [i \in 1..(Len(q) + 1) |-> IF i = Len(q) + 1 THEN n + 1 ELSE g[i]]
    <3>1. x \in T \cap S
      BY <2>1, <2>6, ElementOfSeq
    <3> HIDE DEF x
    <3>2. /\ Len(q) \in Nat /\ r \in Seq(T \cap S) /\ Len(r) = Len(q) + 1
          /\ \A i \in 1..Len(q) : r[i] = q[i]
          /\ r[Len(q) + 1] = x
      BY <3>1
    <3> HIDE DEF r
    <3>3. /\ \A i \in 1..Len(q) : i \in 1..(Len(q) + 1) /\ h[i] = g[i] /\ g[i] \in 1..n
          /\ Len(q) + 1 \in 1..(Len(q) + 1) /\ h[Len(q) + 1] = n + 1
          /\ \A i \in 1..(Len(q) + 1) : i = Len(q) + 1 \/ i \in 1..Len(q)
      <4>1. g \in [1..Len(q) -> 1..n]
        BY <2>3 DEF Places
      <4> QED BY <3>2, <4>1
    <3>4. h \in [1..(Len(q) + 1) -> 1..(n + 1)]
      <4>1. \A i \in 1..(Len(q) + 1) : h[i] \in 1..(n + 1)
        <5>1. 1..n \subseteq 1..(n + 1) /\ n + 1 \in 1..(n + 1)
          OBVIOUS
        <5> QED BY <3>3, <5>1
      <4> QED BY <4>1
    <3> HIDE DEF h
    <3>5. \A i \in 1..(Len(q) + 1) : r[i] = s[h[i]] /\ s[h[i]] \in S
      BY <2>3, <2>6, <3>2, <3>3 DEF Places, x
    <3>6. ASSUME NEW i \in 1..(Len(q) + 1), NEW j \in 1..(Len(q) + 1), i < j
          PROVE  h[i] < h[j]
      <4>1. i \in 1..Len(q)
        BY <3>2, <3>6
      <4>2. CASE j \in 1..Len(q)
        BY <2>3, <3>3, <3>6, <4>1, <4>2 DEF Places
      <4>3. CASE j = Len(q) + 1
        BY <3>3, <4>1, <4>3
      <4> QED BY <3>3, <4>2, <4>3
    <3>7. ASSUME NEW k \in 1..(n + 1), s[k] \in S
          PROVE  \E i \in 1..(Len(q) + 1) : h[i] = k
      <4>1. CASE k = n + 1
        BY <3>3, <4>1
      <4>2. CASE k \in 1..n
        <5>1. PICK i \in 1..Len(q) : g[i] = k
          BY <2>3, <3>7, <4>2 DEF Places
        <5> QED BY <3>3, <5>1
      <4> QED BY <4>1, <4>2
    <3>8. Places(s, S, n + 1, r, h)
      BY <3>2, <3>4, <3>5, <3>6, <3>7 DEF Places
    <3>9. Keep(s, S)[n + 1] = r
      BY <2>4, <2>6 DEF r, x
    <3> QED BY <3>2, <3>8, <3>9 DEF KeptWell
  <2> QED BY <2>5, <2>6
<1>3. Len(s) \in N
  <2> HIDE DEF N
  <2> QED BY <1>1, <1>2, Naturals, LenProperties
<1> QED BY <1>3, KeepRecursion, LenProperties DEF KeptWell

(* Total, as the recursion it is: the sums of the first n numbers.         *)
Sums(s) ==
  CHOOSE f : f = [n \in 0..Len(s) |-> IF n = 0 THEN 0 ELSE f[n - 1] + s[n]]

LEMMA TotalRecursion ==
  ASSUME NEW T, NEW s \in Seq(T)
  PROVE  /\ Total(s) = Sums(s)[Len(s)]
         /\ Sums(s)[0] = 0
         /\ \A n \in 1..Len(s) : Sums(s)[n] = Sums(s)[n - 1] + s[n]
<1> DEFINE Body(f, n) == IF n = 0 THEN 0 ELSE f[n - 1] + s[n]
           N == {n \in Nat : \E f : f = [k \in 0..n |-> Body(f, k)]}
<1>1. 0 \in N
  <2> DEFINE f == [k \in 0..0 |-> 0]
  <2>1. f = [k \in 0..0 |-> Body(f, k)]
    OBVIOUS
  <2> HIDE DEF Body, f
  <2> QED BY <2>1
<1>2. \A n \in Nat : n \in N => n + 1 \in N
  <2> SUFFICES ASSUME NEW n \in Nat, NEW f, f = [k \in 0..n |-> Body(f, k)]
               PROVE  n + 1 \in N
    OBVIOUS
  <2> DEFINE g == [k \in 0..(n + 1) |-> IF k <= n THEN f[k] ELSE Body(f, k)]
  <2>1. \A k \in 0..n : g[k] = f[k]
    OBVIOUS
  <2>2. \A k \in 0..(n + 1) : Body(g, k) = Body(f, k)
    <3> TAKE k \in 0..(n + 1)
    <3>1. CASE k = 0
      BY <3>1
    <3>2. CASE k # 0
      <4>1. k - 1 \in 0..n
        BY <3>2
      <4> QED BY <2>1, <3>2, <4>1
    <3> QED BY <3>1, <3>2
  <2>3. \A k \in 0..(n + 1) : g[k] = Body(f, k)
    <3> HIDE DEF Body
    <3> TAKE k \in 0..(n + 1)
    <3>1. CASE k <= n
      <4>1. f[k] = Body(f, k)
        BY <3>1
      <4> QED BY <3>1, <4>1
    <3> QED BY <3>1
  <2> HIDE DEF Body
  <2>4. g = [k \in 0..(n + 1) |-> Body(g, k)]
    BY <2>2, <2>3
  <2> HIDE DEF g
  <2> QED BY <2>4
<1>3. Len(s) \in N
  <2> HIDE DEF N
  <2> QED BY <1>1, <1>2, Naturals, LenProperties
<1>4. Sums(s) = [n \in 0..Len(s) |-> Body(Sums(s), n)]
  BY <1>3 DEF Sums
<1>5. Len(s) \in Nat
  BY LenProperties
<1>6. Total(s) = Sums(s)[Len(s)]
  BY DEF Total, Sums
<1>7. Sums(s)[0] = 0
  <2>1. Sums(s)[0] = Body(Sums(s), 0)
    BY <1>4, <1>5
  <2> QED BY <2>1
<1>8. \A n \in 1..Len(s) : Sums(s)[n] = Body(Sums(s), n)
  <2> HIDE DEF Body
  <2> QED BY <1>4, <1>5
<1>9. \A n \in 1..Len(s) : Sums(s)[n] = Sums(s)[n - 1] + s[n]
  BY <1>5, <1>8
<1> QED BY <1>6, <1>7, <1>9

(* Joined, as the recursion it is: what the first n lists make.            *)
Joins(s) ==
  CHOOSE f : f = [n \in 0..Len(s) |-> IF n = 0 THEN <<>> ELSE f[n - 1] \o s[n]]

LEMMA JoinedRecursion ==
  ASSUME NEW T, NEW s \in Seq(T)
  PROVE  /\ Joined(s) = Joins(s)[Len(s)]
         /\ Joins(s)[0] = <<>>
         /\ \A n \in 1..Len(s) : Joins(s)[n] = Joins(s)[n - 1] \o s[n]
<1> DEFINE Body(f, n) == IF n = 0 THEN <<>> ELSE f[n - 1] \o s[n]
           N == {n \in Nat : \E f : f = [k \in 0..n |-> Body(f, k)]}
<1>1. 0 \in N
  <2> DEFINE f == [k \in 0..0 |-> <<>>]
  <2>1. f = [k \in 0..0 |-> Body(f, k)]
    OBVIOUS
  <2> HIDE DEF Body, f
  <2> QED BY <2>1
<1>2. \A n \in Nat : n \in N => n + 1 \in N
  <2> SUFFICES ASSUME NEW n \in Nat, NEW f, f = [k \in 0..n |-> Body(f, k)]
               PROVE  n + 1 \in N
    OBVIOUS
  <2> DEFINE g == [k \in 0..(n + 1) |-> IF k <= n THEN f[k] ELSE Body(f, k)]
  <2>1. \A k \in 0..n : g[k] = f[k]
    OBVIOUS
  <2>2. \A k \in 0..(n + 1) : Body(g, k) = Body(f, k)
    <3> TAKE k \in 0..(n + 1)
    <3>1. CASE k = 0
      BY <3>1
    <3>2. CASE k # 0
      <4>1. k - 1 \in 0..n
        BY <3>2
      <4> QED BY <2>1, <3>2, <4>1
    <3> QED BY <3>1, <3>2
  <2>3. \A k \in 0..(n + 1) : g[k] = Body(f, k)
    <3> HIDE DEF Body
    <3> TAKE k \in 0..(n + 1)
    <3>1. CASE k <= n
      <4>1. f[k] = Body(f, k)
        BY <3>1
      <4> QED BY <3>1, <4>1
    <3> QED BY <3>1
  <2> HIDE DEF Body
  <2>4. g = [k \in 0..(n + 1) |-> Body(g, k)]
    BY <2>2, <2>3
  <2> HIDE DEF g
  <2> QED BY <2>4
<1>3. Len(s) \in N
  <2> HIDE DEF N
  <2> QED BY <1>1, <1>2, Naturals, LenProperties
<1>4. Joins(s) = [n \in 0..Len(s) |-> Body(Joins(s), n)]
  BY <1>3 DEF Joins
<1>5. Len(s) \in Nat
  BY LenProperties
<1>6. Joined(s) = Joins(s)[Len(s)]
  BY DEF Joined, Joins
<1>7. Joins(s)[0] = <<>>
  <2>1. Joins(s)[0] = Body(Joins(s), 0)
    BY <1>4, <1>5
  <2> QED BY <2>1
<1>8. \A n \in 1..Len(s) : Joins(s)[n] = Body(Joins(s), n)
  <2> HIDE DEF Body
  <2> QED BY <1>4, <1>5
<1>9. \A n \in 1..Len(s) : Joins(s)[n] = Joins(s)[n - 1] \o s[n]
  <2> TAKE n \in 1..Len(s)
  <2>1. n # 0
    BY <1>5
  <2>2. Joins(s)[n] = Body(Joins(s), n)
    BY <1>8
  <2> QED BY <2>1, <2>2
<1> QED BY <1>6, <1>7, <1>9

LEMMA TotalTyped ==
  ASSUME NEW ns \in Seq(Nat)
  PROVE  Total(ns) \in Nat /\ \A n \in 0..Len(ns) : Sums(ns)[n] \in Nat
<1> DEFINE N == {n \in Nat : n <= Len(ns) => Sums(ns)[n] \in Nat}
<1>0. Len(ns) \in Nat /\ \A n \in 1..Len(ns) : ns[n] \in Nat
  BY LenProperties
<1>1. 0 \in N
  BY TotalRecursion
<1>2. \A n \in Nat : n \in N => n + 1 \in N
  <2> SUFFICES ASSUME NEW n \in Nat, n \in N, n + 1 <= Len(ns)
               PROVE  Sums(ns)[n + 1] \in Nat
    OBVIOUS
  <2>1. n + 1 \in 1..Len(ns) /\ (n + 1) - 1 = n /\ Sums(ns)[n] \in Nat
    BY <1>0
  <2>2. Sums(ns)[n + 1] = Sums(ns)[(n + 1) - 1] + ns[n + 1]
    BY <2>1, TotalRecursion
  <2> QED BY <1>0, <2>1, <2>2
<1>3. Nat \subseteq N
  <2> HIDE DEF N
  <2> QED BY <1>1, <1>2, Naturals
<1>4. \A n \in 0..Len(ns) : Sums(ns)[n] \in Nat
  BY <1>0, <1>3
<1> QED BY <1>0, <1>4, TotalRecursion

(* Sums add up, number by number; and a sum of zeros is zero.              *)
LEMMA TotalAdds ==
  ASSUME NEW a \in Seq(Nat), NEW b \in Seq(Nat), NEW c \in Seq(Nat),
         Len(a) = Len(c), Len(b) = Len(c),
         \A n \in 1..Len(c) : c[n] = a[n] + b[n]
  PROVE  Total(c) = Total(a) + Total(b)
<1> DEFINE N == {n \in Nat : n <= Len(c) => Sums(c)[n] = Sums(a)[n] + Sums(b)[n]}
<1>0. /\ Len(c) \in Nat
      /\ \A n \in 1..Len(c) : a[n] \in Nat /\ b[n] \in Nat
  BY LenProperties
<1>1. 0 \in N
  BY TotalRecursion
<1>2. \A n \in Nat : n \in N => n + 1 \in N
  <2> SUFFICES ASSUME NEW n \in Nat, n \in N, n + 1 <= Len(c)
               PROVE  Sums(c)[n + 1] = Sums(a)[n + 1] + Sums(b)[n + 1]
    OBVIOUS
  <2>1. n + 1 \in 1..Len(c) /\ n \in 0..Len(c) /\ (n + 1) - 1 = n
    BY <1>0
  <2>2. Sums(c)[n] = Sums(a)[n] + Sums(b)[n]
    BY <2>1
  <2>3. /\ Sums(c)[n + 1] = Sums(c)[n] + c[n + 1]
        /\ Sums(a)[n + 1] = Sums(a)[n] + a[n + 1]
        /\ Sums(b)[n + 1] = Sums(b)[n] + b[n + 1]
    BY <2>1, TotalRecursion
  <2>4. PICK p \in Nat : p = Sums(a)[n]
    BY <2>1, TotalTyped
  <2>5. PICK q \in Nat : q = Sums(b)[n]
    BY <2>1, TotalTyped
  <2>6. PICK x \in Nat : x = a[n + 1]
    BY <1>0, <2>1
  <2>7. PICK y \in Nat : y = b[n + 1]
    BY <1>0, <2>1
  <2>8. c[n + 1] = x + y
    BY <2>1, <2>6, <2>7
  <2>9. /\ Sums(c)[n + 1] = (p + q) + (x + y)
        /\ Sums(a)[n + 1] = p + x /\ Sums(b)[n + 1] = q + y
    BY <2>2, <2>3, <2>4, <2>5, <2>6, <2>7, <2>8
  <2> QED BY <2>9
<1>3. Len(c) \in N
  <2> HIDE DEF N
  <2> QED BY <1>0, <1>1, <1>2, Naturals
<1> QED BY <1>0, <1>3, TotalRecursion

LEMMA TotalZero ==
  ASSUME NEW ns \in Seq(Nat), \A n \in 1..Len(ns) : ns[n] = 0
  PROVE  Total(ns) = 0
<1>1. Total(ns) = Total(ns) + Total(ns) /\ Total(ns) \in Nat
  BY TotalAdds, TotalTyped
<1> QED BY <1>1

(* The length of what lists make together is the sum of their lengths.     *)
LEMMA LenJoined ==
  ASSUME NEW T, NEW ss \in Seq(Seq(T)), NEW ns \in Seq(Nat), Len(ns) = Len(ss),
         \A n \in 1..Len(ss) : ns[n] = Len(ss[n])
  PROVE  Joined(ss) \in Seq(T) /\ Len(Joined(ss)) = Total(ns)
<1> DEFINE N == {n \in Nat : n <= Len(ss) =>
                   Joins(ss)[n] \in Seq(T) /\ Len(Joins(ss)[n]) = Sums(ns)[n]}
<1>0. Len(ss) \in Nat /\ \A n \in 1..Len(ss) : ss[n] \in Seq(T)
  BY LenProperties
<1>1. 0 \in N
  <2>1. Joins(ss)[0] = <<>> /\ Sums(ns)[0] = 0
    BY JoinedRecursion, TotalRecursion
  <2>2. Joins(ss)[0] \in Seq(T) /\ Len(Joins(ss)[0]) = 0
    BY <2>1, EmptySeq
  <2> QED BY <2>1, <2>2
<1>2. \A n \in Nat : n \in N => n + 1 \in N
  <2> SUFFICES ASSUME NEW n \in Nat, n \in N, n + 1 <= Len(ss)
               PROVE  Joins(ss)[n + 1] \in Seq(T) /\ Len(Joins(ss)[n + 1]) = Sums(ns)[n + 1]
    OBVIOUS
  <2>1. n + 1 \in 1..Len(ss) /\ (n + 1) - 1 = n
    BY <1>0
  <2>2. Joins(ss)[n] \in Seq(T) /\ Len(Joins(ss)[n]) = Sums(ns)[n]
    BY <2>1
  <2>3. Joins(ss)[n + 1] = Joins(ss)[n] \o ss[n + 1]
    BY <2>1, JoinedRecursion
  <2>4. Sums(ns)[n + 1] = Sums(ns)[n] + ns[n + 1]
    BY <2>1, TotalRecursion
  <2>5. ss[n + 1] \in Seq(T) /\ ns[n + 1] = Len(ss[n + 1])
    BY <1>0, <2>1
  <2>6. /\ Joins(ss)[n] \o ss[n + 1] \in Seq(T)
        /\ Len(Joins(ss)[n] \o ss[n + 1]) = Len(Joins(ss)[n]) + Len(ss[n + 1])
    BY <2>2, <2>5, ConcatProperties
  <2> QED BY <2>2, <2>3, <2>4, <2>5, <2>6
<1>3. Len(ss) \in N
  <2> HIDE DEF N
  <2> QED BY <1>0, <1>1, <1>2, Naturals
<1>4. Joined(ss) = Joins(ss)[Len(ss)] /\ Total(ns) = Sums(ns)[Len(ns)]
  BY JoinedRecursion, TotalRecursion
<1> QED BY <1>0, <1>3, <1>4

(* And the length of what is kept of a list counts its elements.           *)
LEMMA LenOnly ==
  ASSUME NEW T, NEW s \in Seq(T), NEW S, NEW ns \in Seq(Nat), Len(ns) = Len(s),
         \A n \in 1..Len(s) : ns[n] = IF s[n] \in S THEN 1 ELSE 0
  PROVE  Len(Only(s, S)) = Total(ns)
<1> DEFINE N == {n \in Nat : n <= Len(s) =>
                   Keep(s, S)[n] \in Seq(T) /\ Len(Keep(s, S)[n]) = Sums(ns)[n]}
<1>0. Len(s) \in Nat /\ \A n \in 1..Len(s) : s[n] \in T
  BY LenProperties
<1>1. 0 \in N
  <2>1. Keep(s, S)[0] = <<>> /\ Sums(ns)[0] = 0
    BY KeepRecursion, TotalRecursion
  <2>2. Keep(s, S)[0] \in Seq(T) /\ Len(Keep(s, S)[0]) = 0
    BY <2>1, EmptySeq
  <2> QED BY <2>1, <2>2
<1>2. \A n \in Nat : n \in N => n + 1 \in N
  <2> SUFFICES ASSUME NEW n \in Nat, n \in N, n + 1 <= Len(s)
               PROVE  Keep(s, S)[n + 1] \in Seq(T) /\ Len(Keep(s, S)[n + 1]) = Sums(ns)[n + 1]
    OBVIOUS
  <2>1. n + 1 \in 1..Len(s) /\ (n + 1) - 1 = n
    BY <1>0
  <2>2. Keep(s, S)[n] \in Seq(T) /\ Len(Keep(s, S)[n]) = Sums(ns)[n]
    BY <2>1
  <2>3. Keep(s, S)[n + 1] = IF s[n + 1] \in S THEN Append(Keep(s, S)[n], s[n + 1])
                            ELSE Keep(s, S)[n]
    BY <2>1, KeepRecursion
  <2>4. Sums(ns)[n + 1] = Sums(ns)[n] + ns[n + 1]
    BY <2>1, TotalRecursion
  <2>5. s[n + 1] \in T /\ ns[n + 1] = IF s[n + 1] \in S THEN 1 ELSE 0
    BY <1>0, <2>1
  <2>6. Len(Keep(s, S)[n]) \in Nat
    BY <2>2, LenProperties
  <2> QED BY <2>2, <2>3, <2>4, <2>5, <2>6, AppendProperties
<1>3. Len(s) \in N
  <2> HIDE DEF N
  <2> QED BY <1>0, <1>1, <1>2, Naturals
<1> QED BY <1>0, <1>3, KeepRecursion, TotalRecursion
=============================================================================
