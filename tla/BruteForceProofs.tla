-------------------------- MODULE BruteForceProofs --------------------------
(***************************************************************************)
(* Proofs about BruteForce, for every set of grids, every number of jobs   *)
(* and every size of a chunk and of the window.                            *)
(*                                                                         *)
(* GridCounted: the closed form counts the grid, row by row of a region.   *)
(* GridSorted: the grid of regions in order is in order.                   *)
(*                                                                         *)
(* IInv is the inductive invariant of the search.  What was tried is a     *)
(* prefix of the grid in a serial search; in a parallel one it is what was *)
(* pulled, but for the chunks in flight and those that are done and not    *)
(* walked (Tried), and the hits are what the oracle accepts of it, each    *)
(* once (Gathered).  No worker is busy but with a chunk in flight, and     *)
(* those fit the window (Window); when nothing is in flight at the wait,   *)
(* all was pulled, unless a hit ended the feeding (Placed).  So a search   *)
(* that returns has tried a prefix of the grid with a hit in it, or all.   *)
(***************************************************************************)
EXTENDS BruteForce, Induction, FiniteSetTheorems

Region == [offset : Nat, length : Nat]
Candidate == [region : Nat, offset : Nat, size : Int]

LEMMA InputType ==
  ASSUME NEW in \in Inputs
  PROVE  /\ in.regions \in Seq(Region) /\ in.sizes \in Seq(Int)
         /\ in.stride \in Nat \ {0} /\ in.dump \in Nat
BY BruteForceAssumption DEF Region
-----------------------------------------------------------------------------
(* Arithmetic of the grid.                                                 *)

LEMMA MinTwo ==
  ASSUME NEW a \in Int, NEW b \in Int
  PROVE  Min({a, b}) = IF a <= b THEN a ELSE b
BY DEF Min

LEMMA MaxTwo ==
  ASSUME NEW a \in Int, NEW b \in Int
  PROVE  Max({a, b}) = IF a >= b THEN a ELSE b
BY DEF Max

(* x fits d times into a, or oftener, if x * d is at most a.               *)
LEMMA Fits ==
  ASSUME NEW a \in Int, NEW d \in Nat \ {0}, NEW x \in Int
  PROVE  a \div d \in Int /\ (x <= a \div d <=> x * d <= a)
OBVIOUS

LEMMA Times ==
  ASSUME NEW x \in Int, NEW y \in Int, NEW d \in Nat \ {0}
  PROVE  x * d \in Int /\ (x <= y <=> x * d <= y * d) /\ (x + 1) * d = x * d + d
OBVIOUS

Steps(first, end, stride) ==
  IF first >= end THEN 0 ELSE (end - 1 - first) \div stride + 1

(* The first offset is in the region, and so is every other.               *)
LEMMA FirstFacts ==
  ASSUME NEW r \in Region, NEW stride \in Nat \ {0}
  PROVE  FirstOffset(r, stride) \in Nat /\ r.offset <= FirstOffset(r, stride) /\ End(r) \in Nat
<1>1. PICK o \in Nat : o = r.offset
  BY DEF Region
<1>2. PICK q \in Int : q = (o + stride - 1) \div stride
  BY Fits
<1>3. (o + stride - 1) < (q + 1) * stride
  <2>1. q + 1 \in Int /\ ~ (q + 1 <= q) /\ o + stride - 1 \in Int
    BY <1>2
  <2> QED BY <1>2, <2>1, Fits, Times
<1>4. o <= q * stride /\ q * stride \in Int
  <2>1. (q + 1) * stride = q * stride + stride /\ q * stride \in Int
    BY Times
  <2> QED BY <1>3, <2>1
<1>5. FirstOffset(r, stride) = q * stride
  BY <1>1, <1>2 DEF FirstOffset
<1>6. End(r) \in Nat
  BY DEF End, Region
<1> QED BY <1>1, <1>4, <1>5, <1>6

LEMMA StepsFacts ==
  ASSUME NEW first \in Nat, NEW end \in Nat, NEW stride \in Nat \ {0}
  PROVE  /\ Steps(first, end, stride) \in Nat
         /\ \A k \in 1..Steps(first, end, stride) :
              /\ first < end
              /\ first + (k - 1) * stride \in first..(end - 1)
<1>1. CASE first >= end
  BY <1>1 DEF Steps
<1>2. CASE first < end
  <2>1. PICK q \in Int : q = (end - 1 - first) \div stride
    BY Fits
  <2>2. 0 <= q
    <3>1. 0 * stride <= end - 1 - first /\ end - 1 - first \in Int
      BY <1>2
    <3> QED BY <2>1, <3>1, Fits
  <2>3. Steps(first, end, stride) = q + 1
    BY <1>2, <2>1 DEF Steps
  <2>4. ASSUME NEW k \in 1..(q + 1)
        PROVE  first + (k - 1) * stride \in first..(end - 1)
    <3>1. k - 1 \in Int /\ 0 <= k - 1 /\ k - 1 <= q /\ end - 1 - first \in Int
      BY <2>1
    <3>2. (k - 1) * stride <= end - 1 - first
      BY <2>1, <3>1, Fits
    <3>3. 0 * stride <= (k - 1) * stride /\ (k - 1) * stride \in Int
      BY <3>1, Times
    <3> QED BY <3>2, <3>3
  <2> QED BY <1>2, <2>1, <2>2, <2>3, <2>4
<1> QED BY <1>1, <1>2

(* The closed form, of one size: its windows begin at the first so many    *)
(* offsets.                                                                *)
LastStart(size, end, dump) == Min({Min({end, dump}) - size, end - 1})
Closed(size, first, end, dump, stride) ==
  IF LastStart(size, end, dump) < first THEN 0
  ELSE (LastStart(size, end, dump) - first) \div stride + 1

LEMMA ClosedFacts ==
  ASSUME NEW first \in Nat, NEW end \in Nat, first < end, NEW dump \in Nat,
         NEW stride \in Nat \ {0}, NEW size \in Int
  PROVE  /\ Closed(size, first, end, dump, stride) \in 0..Steps(first, end, stride)
         /\ \A k \in 1..Steps(first, end, stride) :
              LET o == first + (k - 1) * stride
              IN (o + size <= end /\ o + size <= dump)
                   <=> k <= Closed(size, first, end, dump, stride)
<1>1. PICK limit \in Nat : limit = Min({end, dump}) /\ limit <= end /\ limit <= dump
                           /\ (limit = end \/ limit = dump)
  BY MinTwo
<1>2. PICK last \in Int : /\ last = LastStart(size, end, dump)
                          /\ last <= limit - size /\ last <= end - 1
                          /\ last = limit - size \/ last = end - 1
  <2>1. limit - size \in Int /\ end - 1 \in Int
    OBVIOUS
  <2>2. LastStart(size, end, dump) = IF limit - size <= end - 1 THEN limit - size ELSE end - 1
    BY <1>1, <2>1, MinTwo DEF LastStart
  <2> QED BY <2>1, <2>2
<1>3. PICK q \in Int : q = (end - 1 - first) \div stride
  BY Fits
<1>4. PICK p \in Int : p = (last - first) \div stride
  BY Fits
<1>5. Steps(first, end, stride) = q + 1
  BY <1>3 DEF Steps
<1>6. Closed(size, first, end, dump, stride) = IF last < first THEN 0 ELSE p + 1
  BY <1>2, <1>4 DEF Closed
<1>7. last - first \in Int /\ end - 1 - first \in Int
  OBVIOUS
<1>8. 0 <= q
  <2>1. 0 * stride <= end - 1 - first
    OBVIOUS
  <2> QED BY <1>3, <1>7, <2>1, Fits
<1>9. last >= first => 0 <= p /\ p <= q
  <2> SUFFICES ASSUME last >= first PROVE 0 <= p /\ p <= q
    OBVIOUS
  <2>1. 0 * stride <= last - first
    OBVIOUS
  <2>2. 0 <= p
    BY <1>4, <1>7, <2>1, Fits
  <2>3. p * stride <= last - first /\ p * stride \in Int
    <3>1. p <= p
      OBVIOUS
    <3> QED BY <1>4, <1>7, <3>1, Fits, Times
  <2>4. p * stride <= end - 1 - first
    BY <1>2, <2>3
  <2> QED BY <1>3, <1>7, <2>2, <2>4, Fits
<1>10. ASSUME NEW k \in 1..(q + 1)
       PROVE  LET o == first + (k - 1) * stride
              IN (o + size <= end /\ o + size <= dump)
                   <=> k <= (IF last < first THEN 0 ELSE p + 1)
  <2>1. k - 1 \in Int /\ 0 <= k - 1 /\ k - 1 <= q
    OBVIOUS
  <2>2. PICK m \in Int : m = (k - 1) * stride
    BY <2>1, Times
  <2>3. 0 <= m /\ m <= end - 1 - first
    <3>1. 0 * stride <= (k - 1) * stride
      BY <2>1, Times
    <3> QED BY <1>3, <1>7, <2>1, <2>2, <3>1, Fits
  <2>4. k - 1 <= p <=> m <= last - first
    BY <1>4, <1>7, <2>1, <2>2, Fits
  <2>5. first + m + size <= end /\ first + m + size <= dump <=> m <= last - first
    BY <1>1, <1>2, <2>3
  <2>6. k <= (IF last < first THEN 0 ELSE p + 1) <=> m <= last - first
    BY <2>3, <2>4
  <2> QED BY <2>2, <2>5, <2>6
<1> QED BY <1>5, <1>6, <1>8, <1>9, <1>10
-----------------------------------------------------------------------------
(* The closed form counts the grid.                                        *)

(* What a region has at one offset.                                        *)
LEMMA AtFacts ==
  ASSUME NEW in \in Inputs, NEW i \in DOMAIN in.regions, NEW o \in Nat,
         NEW ns \in Seq(Nat), Len(ns) = Len(in.sizes),
         \A t \in 1..Len(in.sizes) :
           ns[t] = IF /\ o + in.sizes[t] <= End(in.regions[i])
                      /\ o + in.sizes[t] <= in.dump
                   THEN 1 ELSE 0
  PROVE  /\ At(i, o, in) \in Seq(Candidate)
         /\ Len(At(i, o, in)) = Total(ns)
         /\ \A j \in DOMAIN At(i, o, in) : At(i, o, in)[j].offset = o
<1> DEFINE r == in.regions[i]
           S == {size \in ToSet(in.sizes) : o + size <= End(r) /\ o + size <= in.dump}
<1>1. /\ in.sizes \in Seq(Int) /\ Len(in.sizes) \in Nat
      /\ DOMAIN in.sizes = 1..Len(in.sizes)
      /\ i \in Nat
  BY InputType, LenProperties
<1>2. \A t \in 1..Len(in.sizes) : ns[t] = IF in.sizes[t] \in S THEN 1 ELSE 0
  BY <1>1 DEF ToSet
<1>3. Sizes(o, r, in) = Only(in.sizes, S)
  BY DEF Sizes
<1> HIDE DEF S
<1>4. Only(in.sizes, S) \in Seq(Int \cap S)
  BY <1>1, OnlyPlaced
<1>5. Len(Only(in.sizes, S)) = Total(ns)
  BY <1>1, <1>2, LenOnly
<1>6. PICK sizes \in Seq(Int) : sizes = Only(in.sizes, S)
  BY <1>4
<1>7. /\ Len(sizes) \in Nat /\ DOMAIN sizes = 1..Len(sizes)
      /\ \A j \in 1..Len(sizes) : sizes[j] \in Int
  BY LenProperties
<1>8. At(i, o, in) = [j \in 1..Len(sizes) |-> [region |-> i, offset |-> o, size |-> sizes[j]]]
  BY <1>3, <1>6, <1>7 DEF At
<1>9. \A j \in 1..Len(sizes) : [region |-> i, offset |-> o, size |-> sizes[j]] \in Candidate
  BY <1>1, <1>7 DEF Candidate
<1>10. At(i, o, in) \in Seq(Candidate) /\ Len(At(i, o, in)) = Len(sizes)
  BY <1>7, <1>8, <1>9
<1>11. \A j \in DOMAIN At(i, o, in) : At(i, o, in)[j].offset = o
  BY <1>8
<1> QED BY <1>5, <1>6, <1>10, <1>11

LEMMA RegionFacts ==
  ASSUME NEW in \in Inputs, NEW i \in DOMAIN in.regions
  PROVE  /\ in.regions[i] \in Region
         /\ FirstOffset(in.regions[i], in.stride) \in Nat
         /\ in.regions[i].offset <= FirstOffset(in.regions[i], in.stride)
         /\ End(in.regions[i]) \in Nat
         /\ Len(in.sizes) \in Nat /\ \A t \in 1..Len(in.sizes) : in.sizes[t] \in Int
<1>1. in.regions[i] \in Region /\ in.stride \in Nat \ {0}
  BY InputType, LenProperties
<1> QED BY <1>1, InputType, LenProperties, FirstFacts

(* The k-th offset, and the number of sizes with a window at it.           *)
Offset(i, in, k) == FirstOffset(in.regions[i], in.stride) + (k - 1) * in.stride
Rows(i, in) == Steps(FirstOffset(in.regions[i], in.stride), End(in.regions[i]), in.stride)
ClosedOf(i, in, t) ==
  Closed(in.sizes[t], FirstOffset(in.regions[i], in.stride), End(in.regions[i]), in.dump, in.stride)
Row(i, in, k) == [t \in 1..Len(in.sizes) |-> IF k <= ClosedOf(i, in, t) THEN 1 ELSE 0]
RowList(i, in) == [k \in 1..Rows(i, in) |-> At(i, Offset(i, in, k), in)]

LEMMA RowFacts ==
  ASSUME NEW in \in Inputs, NEW i \in DOMAIN in.regions, NEW k \in 1..Rows(i, in)
  PROVE  /\ At(i, Offset(i, in, k), in) \in Seq(Candidate)
         /\ Row(i, in, k) \in Seq(Nat)
         /\ Len(At(i, Offset(i, in, k), in)) = Total(Row(i, in, k))
         /\ Offset(i, in, k) \in in.regions[i].offset..(End(in.regions[i]) - 1)
         /\ \A j \in DOMAIN At(i, Offset(i, in, k), in) :
              At(i, Offset(i, in, k), in)[j].offset = Offset(i, in, k)
<1>1. PICK first \in Nat : /\ first = FirstOffset(in.regions[i], in.stride)
                           /\ in.regions[i].offset <= first
  BY RegionFacts
<1>2. PICK end \in Nat : end = End(in.regions[i])
  BY RegionFacts
<1>3. in.stride \in Nat \ {0} /\ in.dump \in Nat
  BY InputType
<1>4. k \in 1..Steps(first, end, in.stride)
  BY <1>1, <1>2 DEF Rows
<1>5. first < end /\ first + (k - 1) * in.stride \in first..(end - 1)
  BY <1>3, <1>4, StepsFacts
<1>6. PICK o \in Nat : o = Offset(i, in, k) /\ o = first + (k - 1) * in.stride /\ o \in first..(end - 1)
  BY <1>1, <1>5 DEF Offset
<1>7. /\ Len(in.sizes) \in Nat
      /\ \A t \in 1..Len(in.sizes) : in.sizes[t] \in Int
  BY RegionFacts
<1>8. ASSUME NEW t \in 1..Len(in.sizes)
      PROVE  (o + in.sizes[t] <= end /\ o + in.sizes[t] <= in.dump) <=> k <= ClosedOf(i, in, t)
  <2>1. (o + in.sizes[t] <= end /\ o + in.sizes[t] <= in.dump)
          <=> k <= Closed(in.sizes[t], first, end, in.dump, in.stride)
    <3>1. in.sizes[t] \in Int
      BY <1>7
    <3>2. PICK size \in Int : size = in.sizes[t]
      BY <3>1
    <3>3. PICK stride \in Nat \ {0} : stride = in.stride
      BY <1>3
    <3>4. PICK dump \in Nat : dump = in.dump
      BY <1>3
    <3>5. LET w == first + (k - 1) * stride
          IN (w + size <= end /\ w + size <= dump)
               <=> k <= Closed(size, first, end, dump, stride)
      BY <1>4, <1>5, <3>3, ClosedFacts
    <3> QED BY <1>6, <3>2, <3>3, <3>4, <3>5
  <2> QED BY <1>1, <1>2, <2>1 DEF ClosedOf
<1>9. /\ Row(i, in, k) \in Seq(Nat) /\ Len(Row(i, in, k)) = Len(in.sizes)
      /\ \A t \in 1..Len(in.sizes) :
           Row(i, in, k)[t] = IF /\ o + in.sizes[t] <= End(in.regions[i])
                                 /\ o + in.sizes[t] <= in.dump
                              THEN 1 ELSE 0
  BY <1>2, <1>7, <1>8 DEF Row
<1>10. /\ At(i, o, in) \in Seq(Candidate)
       /\ Len(At(i, o, in)) = Total(Row(i, in, k))
       /\ \A j \in DOMAIN At(i, o, in) : At(i, o, in)[j].offset = o
  BY <1>9, AtFacts
<1>11. in.regions[i].offset \in Nat
  BY RegionFacts DEF Region
<1> QED BY <1>1, <1>2, <1>6, <1>9, <1>10, <1>11

LEMMA RegionGridRows ==
  ASSUME NEW in \in Inputs, NEW i \in DOMAIN in.regions
  PROVE  /\ Rows(i, in) \in Nat
         /\ RowList(i, in) \in Seq(Seq(Candidate)) /\ Len(RowList(i, in)) = Rows(i, in)
         /\ RegionGrid(i, in) = Joined(RowList(i, in))
<1>1. Rows(i, in) \in Nat
  BY RegionFacts, InputType, StepsFacts DEF Rows
<1>2. RowList(i, in) \in Seq(Seq(Candidate)) /\ Len(RowList(i, in)) = Rows(i, in)
  <2>1. \A k \in 1..Rows(i, in) : At(i, Offset(i, in, k), in) \in Seq(Candidate)
    BY RowFacts
  <2> QED BY <1>1, <2>1 DEF RowList
<1>3. Offsets(in.regions[i], in) = [k \in 1..Rows(i, in) |-> Offset(i, in, k)]
  BY DEF Offsets, Rows, Steps, Offset
<1>4. [k \in DOMAIN Offsets(in.regions[i], in) |-> At(i, Offsets(in.regions[i], in)[k], in)]
        = RowList(i, in)
  BY <1>3 DEF RowList
<1> QED BY <1>1, <1>2, <1>4 DEF RegionGrid

(* A size has a window at the first offsets, as many as the closed form    *)
(* says: up to row n it has n of them, or all.                             *)
Capped(i, in, n) ==
  [t \in 1..Len(in.sizes) |-> IF n <= ClosedOf(i, in, t) THEN n ELSE ClosedOf(i, in, t)]
RowSums(i, in) == [k \in 1..Rows(i, in) |-> Total(Row(i, in, k))]

LEMMA ClosedOfFacts ==
  ASSUME NEW in \in Inputs, NEW i \in DOMAIN in.regions, Rows(i, in) # 0,
         NEW t \in 1..Len(in.sizes)
  PROVE  ClosedOf(i, in, t) \in 0..Rows(i, in)
<1>1. PICK first \in Nat : first = FirstOffset(in.regions[i], in.stride)
  BY RegionFacts
<1>2. PICK end \in Nat : end = End(in.regions[i])
  BY RegionFacts
<1>3. PICK stride \in Nat \ {0} : stride = in.stride
  BY InputType
<1>4. PICK dump \in Nat : dump = in.dump
  BY InputType
<1>5. PICK size \in Int : size = in.sizes[t]
  BY RegionFacts
<1>6. first < end
  BY <1>1, <1>2, <1>3 DEF Rows, Steps
<1>7. Closed(size, first, end, dump, stride) \in 0..Steps(first, end, stride)
  BY <1>6, ClosedFacts
<1> QED BY <1>1, <1>2, <1>3, <1>4, <1>5, <1>7 DEF ClosedOf, Rows

LEMMA CappedFacts ==
  ASSUME NEW in \in Inputs, NEW i \in DOMAIN in.regions, Rows(i, in) # 0, NEW n \in Nat
  PROVE  /\ Capped(i, in, n) \in Seq(Nat) /\ Len(Capped(i, in, n)) = Len(in.sizes)
         /\ Row(i, in, n) \in Seq(Nat) /\ Len(Row(i, in, n)) = Len(in.sizes)
<1>1. Len(in.sizes) \in Nat
  BY RegionFacts
<1>2. Rows(i, in) \in Nat
  BY RegionGridRows
<1>3. \A t \in 1..Len(in.sizes) : ClosedOf(i, in, t) \in Nat
  BY <1>2, ClosedOfFacts
<1> QED BY <1>1, <1>3 DEF Capped, Row

LEMMA RowSumsFacts ==
  ASSUME NEW in \in Inputs, NEW i \in DOMAIN in.regions
  PROVE  /\ RowSums(i, in) \in Seq(Nat) /\ Len(RowSums(i, in)) = Rows(i, in)
         /\ \A n \in 1..Rows(i, in) : RowSums(i, in)[n] = Total(Row(i, in, n))
<1>1. Rows(i, in) \in Nat
  BY RegionGridRows
<1>2. \A k \in 1..Rows(i, in) : Total(Row(i, in, k)) \in Nat
  BY RowFacts, TotalTyped
<1> QED BY <1>1, <1>2 DEF RowSums

LEMMA RowsCounted ==
  ASSUME NEW in \in Inputs, NEW i \in DOMAIN in.regions, Rows(i, in) # 0
  PROVE  Total(RowSums(i, in)) = Total(Capped(i, in, Rows(i, in)))
<1> DEFINE ns == RowSums(i, in)
           N == {n \in Nat : n <= Rows(i, in) => Sums(ns)[n] = Total(Capped(i, in, n))}
<1>0. /\ Rows(i, in) \in Nat /\ Len(in.sizes) \in Nat
      /\ \A t \in 1..Len(in.sizes) : ClosedOf(i, in, t) \in Nat
  BY RegionGridRows, RegionFacts, ClosedOfFacts
<1>1. 0 \in N
  <2>1. Sums(ns)[0] = 0
    BY RowSumsFacts, TotalRecursion
  <2>2. \A t \in 1..Len(in.sizes) : Capped(i, in, 0)[t] = 0
    BY <1>0 DEF Capped
  <2>3. Total(Capped(i, in, 0)) = 0
    BY <2>2, CappedFacts, TotalZero
  <2> QED BY <2>1, <2>3
<1>2. \A n \in Nat : n \in N => n + 1 \in N
  <2> SUFFICES ASSUME NEW n \in Nat, n \in N, n + 1 <= Rows(i, in)
               PROVE  Sums(ns)[n + 1] = Total(Capped(i, in, n + 1))
    OBVIOUS
  <2>1. n + 1 \in 1..Rows(i, in) /\ (n + 1) - 1 = n /\ n <= Rows(i, in)
    BY <1>0
  <2>2. Sums(ns)[n] = Total(Capped(i, in, n))
    BY <2>1
  <2>3. Sums(ns)[n + 1] = Sums(ns)[n] + ns[n + 1]
    BY <2>1, RowSumsFacts, TotalRecursion
  <2>4. ns[n + 1] = Total(Row(i, in, n + 1))
    BY <2>1, RowSumsFacts
  <2>5. \A t \in 1..Len(in.sizes) :
          Capped(i, in, n + 1)[t] = Capped(i, in, n)[t] + Row(i, in, n + 1)[t]
    <3> TAKE t \in 1..Len(in.sizes)
    <3>1. PICK c \in Nat : c = ClosedOf(i, in, t)
      BY <1>0
    <3>2. /\ Capped(i, in, n + 1)[t] = IF n + 1 <= c THEN n + 1 ELSE c
          /\ Capped(i, in, n)[t] = IF n <= c THEN n ELSE c
          /\ Row(i, in, n + 1)[t] = IF n + 1 <= c THEN 1 ELSE 0
      BY <3>1 DEF Capped, Row
    <3> QED BY <3>2
  <2>6. Total(Capped(i, in, n + 1)) = Total(Capped(i, in, n)) + Total(Row(i, in, n + 1))
    <3>1. n + 1 \in Nat
      OBVIOUS
    <3>2. PICK a \in Seq(Nat) : a = Capped(i, in, n) /\ Len(a) = Len(in.sizes)
      BY CappedFacts
    <3>3. PICK b \in Seq(Nat) : b = Row(i, in, n + 1) /\ Len(b) = Len(in.sizes)
      BY <3>1, CappedFacts
    <3>4. PICK c \in Seq(Nat) : c = Capped(i, in, n + 1) /\ Len(c) = Len(in.sizes)
      BY <3>1, CappedFacts
    <3>5. \A t \in 1..Len(c) : c[t] = a[t] + b[t]
      BY <2>5, <3>2, <3>3, <3>4
    <3>6. Len(a) = Len(c) /\ Len(b) = Len(c)
      BY <3>2, <3>3, <3>4
    <3>7. Total(c) = Total(a) + Total(b)
      BY <3>5, <3>6, TotalAdds
    <3> QED BY <3>2, <3>3, <3>4, <3>7
  <2> QED BY <2>2, <2>3, <2>4, <2>6
<1>3. Rows(i, in) \in N
  <2> HIDE DEF N
  <2> QED BY <1>0, <1>1, <1>2, Naturals
<1>4. Total(ns) = Sums(ns)[Rows(i, in)]
  BY RowSumsFacts, TotalRecursion
<1> QED BY <1>0, <1>3, <1>4

LEMMA RegionCounted ==
  ASSUME NEW in \in Inputs, NEW i \in DOMAIN in.regions
  PROVE  /\ RegionGrid(i, in) \in Seq(Candidate)
         /\ Len(RegionGrid(i, in)) = RegionCount(in.regions[i], in)
         /\ RegionCount(in.regions[i], in) \in Nat
<1>1. \A k \in 1..Rows(i, in) : RowSums(i, in)[k] = Len(RowList(i, in)[k])
  BY RowFacts, RowSumsFacts DEF RowList
<1>2. /\ RegionGrid(i, in) \in Seq(Candidate)
      /\ Len(RegionGrid(i, in)) = Total(RowSums(i, in))
  <2>1. PICK ss \in Seq(Seq(Candidate)) : ss = RowList(i, in) /\ Len(ss) = Rows(i, in)
    BY RegionGridRows
  <2>2. PICK ns \in Seq(Nat) : ns = RowSums(i, in) /\ Len(ns) = Rows(i, in)
    BY RowSumsFacts
  <2>3. \A k \in 1..Len(ss) : ns[k] = Len(ss[k])
    BY <1>1, <2>1, <2>2
  <2>4. Joined(ss) \in Seq(Candidate) /\ Len(Joined(ss)) = Total(ns)
    BY <2>1, <2>2, <2>3, LenJoined
  <2> QED BY <2>1, <2>2, <2>4, RegionGridRows
<1>3. PICK first \in Nat : first = FirstOffset(in.regions[i], in.stride)
  BY RegionFacts
<1>4. PICK end \in Nat : end = End(in.regions[i])
  BY RegionFacts
<1>5. Total(RowSums(i, in)) = RegionCount(in.regions[i], in)
  <2>1. CASE first >= end
    <3>1. Rows(i, in) = 0
      BY <1>3, <1>4, <2>1 DEF Rows, Steps
    <3>2. Total(RowSums(i, in)) = 0
      BY <3>1, RowSumsFacts, TotalZero
    <3>3. RegionCount(in.regions[i], in) = 0
      BY <1>3, <1>4, <2>1 DEF RegionCount
    <3> QED BY <3>2, <3>3
  <2>2. CASE first < end
    <3>0. Rows(i, in) \in Nat /\ Rows(i, in) # 0
      <4>1. PICK stride \in Nat \ {0} : stride = in.stride
        BY InputType
      <4>2. PICK q \in Int : q = (end - 1 - first) \div stride
        BY Fits
      <4>3. 0 * stride <= end - 1 - first /\ end - 1 - first \in Int
        BY <2>2
      <4>4. 0 <= q
        BY <4>2, <4>3, Fits
      <4>5. Rows(i, in) = q + 1
        BY <1>3, <1>4, <2>2, <4>1, <4>2 DEF Rows, Steps
      <4> QED BY <4>4, <4>5
    <3>1. Total(RowSums(i, in)) = Total(Capped(i, in, Rows(i, in)))
      BY <3>0, RowsCounted
    <3>2. \A t \in 1..Len(in.sizes) : ClosedOf(i, in, t) \in 0..Rows(i, in)
      BY <3>0, ClosedOfFacts
    <3>3. Capped(i, in, Rows(i, in)) = [t \in 1..Len(in.sizes) |-> ClosedOf(i, in, t)]
      BY <3>0, <3>2 DEF Capped
    <3>4. DOMAIN in.sizes = 1..Len(in.sizes)
      BY InputType, LenProperties
    <3>5. RegionCount(in.regions[i], in) = Total([t \in 1..Len(in.sizes) |-> ClosedOf(i, in, t)])
      BY <1>3, <1>4, <2>2, <3>4 DEF RegionCount, ClosedOf, Closed, LastStart
    <3> QED BY <3>1, <3>3, <3>5
  <2> QED BY <2>1, <2>2
<1>6. Len(RegionGrid(i, in)) \in Nat
  BY <1>2, LenProperties
<1> QED BY <1>2, <1>5, <1>6

LEMMA GridCounted ==
  ASSUME NEW in \in Inputs
  PROVE  Grid(in) \in Seq(Candidate) /\ Count(in) = Len(Grid(in))
<1>1. DOMAIN in.regions = 1..Len(in.regions) /\ Len(in.regions) \in Nat
  BY InputType, LenProperties
<1>2. PICK ss \in Seq(Seq(Candidate)) :
        /\ ss = [i \in DOMAIN in.regions |-> RegionGrid(i, in)]
        /\ Len(ss) = Len(in.regions)
        /\ \A i \in DOMAIN in.regions : ss[i] = RegionGrid(i, in)
  <2>1. \A i \in 1..Len(in.regions) : RegionGrid(i, in) \in Seq(Candidate)
    BY <1>1, RegionCounted
  <2> DEFINE f == [i \in 1..Len(in.regions) |-> RegionGrid(i, in)]
  <2>2. f \in Seq(Seq(Candidate)) /\ Len(f) = Len(in.regions)
    BY <1>1, <2>1
  <2>3. \A i \in 1..Len(in.regions) : f[i] = RegionGrid(i, in)
    OBVIOUS
  <2>4. f = [i \in DOMAIN in.regions |-> RegionGrid(i, in)]
    BY <1>1
  <2> HIDE DEF f
  <2> QED BY <1>1, <2>2, <2>3, <2>4
<1>3. PICK ns \in Seq(Nat) :
        /\ ns = [i \in DOMAIN in.regions |-> RegionCount(in.regions[i], in)]
        /\ Len(ns) = Len(in.regions)
        /\ \A i \in DOMAIN in.regions : ns[i] = RegionCount(in.regions[i], in)
  <2>1. \A i \in 1..Len(in.regions) : RegionCount(in.regions[i], in) \in Nat
    BY <1>1, RegionCounted
  <2> DEFINE f == [i \in 1..Len(in.regions) |-> RegionCount(in.regions[i], in)]
  <2>2. f \in Seq(Nat) /\ Len(f) = Len(in.regions)
    BY <1>1, <2>1
  <2>3. \A i \in 1..Len(in.regions) : f[i] = RegionCount(in.regions[i], in)
    OBVIOUS
  <2>4. f = [i \in DOMAIN in.regions |-> RegionCount(in.regions[i], in)]
    BY <1>1
  <2> HIDE DEF f
  <2> QED BY <1>1, <2>2, <2>3, <2>4
<1>4. \A n \in 1..Len(ss) : ns[n] = Len(ss[n])
  BY <1>1, <1>2, <1>3, RegionCounted
<1>5. Joined(ss) \in Seq(Candidate) /\ Len(Joined(ss)) = Total(ns)
  BY <1>2, <1>3, <1>4, LenJoined
<1> QED BY <1>2, <1>3, <1>5 DEF Grid, Count
-----------------------------------------------------------------------------
(* The order of the grid.                                                  *)

Sorted(s) == \A i, j \in DOMAIN s : i <= j => s[i].offset <= s[j].offset
Below(s, t) == \A i \in DOMAIN s, j \in DOMAIN t : s[i].offset <= t[j].offset
AllSorted(ss) ==
  \A n \in 1..Len(ss) : Sorted(ss[n]) /\ \A m \in 1..(n - 1) : Below(ss[m], ss[n])
From(q, ss, n) ==
  \A j \in DOMAIN q : \E m \in 1..n : \E k \in DOMAIN ss[m] : q[j] = ss[m][k]

LEMMA ConcatSorted ==
  ASSUME NEW q \in Seq(Candidate), NEW r \in Seq(Candidate),
         Sorted(q), Sorted(r), Below(q, r)
  PROVE  Sorted(q \o r)
<1>1. /\ Len(q) \in Nat /\ DOMAIN q = 1..Len(q)
      /\ Len(r) \in Nat /\ DOMAIN r = 1..Len(r)
      /\ q \o r \in Seq(Candidate) /\ Len(q \o r) = Len(q) + Len(r)
      /\ DOMAIN (q \o r) = 1..(Len(q) + Len(r))
      /\ \A i \in 1..(Len(q) + Len(r)) :
           (q \o r)[i] = IF i <= Len(q) THEN q[i] ELSE r[i - Len(q)]
  BY LenProperties, ConcatProperties
<1>2. SUFFICES ASSUME NEW i \in 1..(Len(q) + Len(r)), NEW j \in 1..(Len(q) + Len(r)), i <= j
               PROVE  (q \o r)[i].offset <= (q \o r)[j].offset
  BY <1>1 DEF Sorted
<1>3. CASE j <= Len(q)
  <2>1. i \in DOMAIN q /\ j \in DOMAIN q /\ (q \o r)[i] = q[i] /\ (q \o r)[j] = q[j]
    BY <1>1, <1>2, <1>3
  <2> QED BY <1>2, <2>1 DEF Sorted
<1>4. CASE i > Len(q)
  <2>1. /\ i - Len(q) \in DOMAIN r /\ j - Len(q) \in DOMAIN r /\ i - Len(q) <= j - Len(q)
        /\ (q \o r)[i] = r[i - Len(q)] /\ (q \o r)[j] = r[j - Len(q)]
    BY <1>1, <1>2, <1>4
  <2> QED BY <2>1 DEF Sorted
<1>5. CASE i <= Len(q) /\ j > Len(q)
  <2>1. /\ i \in DOMAIN q /\ j - Len(q) \in DOMAIN r
        /\ (q \o r)[i] = q[i] /\ (q \o r)[j] = r[j - Len(q)]
    BY <1>1, <1>2, <1>5
  <2> QED BY <2>1 DEF Below
<1> QED BY <1>1, <1>2, <1>3, <1>4, <1>5

LEMMA ConcatFrom ==
  ASSUME NEW q \in Seq(Candidate), NEW ss \in Seq(Seq(Candidate)), NEW n \in Nat,
         n + 1 <= Len(ss), From(q, ss, n)
  PROVE  From(q \o ss[n + 1], ss, n + 1)
<1> DEFINE r == ss[n + 1]
<1>0. Len(ss) \in Nat /\ r \in Seq(Candidate)
  BY LenProperties
<1>1. /\ Len(q) \in Nat /\ DOMAIN q = 1..Len(q)
      /\ Len(r) \in Nat /\ DOMAIN r = 1..Len(r)
      /\ DOMAIN (q \o r) = 1..(Len(q) + Len(r))
      /\ \A i \in 1..(Len(q) + Len(r)) :
           (q \o r)[i] = IF i <= Len(q) THEN q[i] ELSE r[i - Len(q)]
  BY <1>0, LenProperties, ConcatProperties
<1>2. SUFFICES ASSUME NEW j \in 1..(Len(q) + Len(r))
               PROVE  \E m \in 1..(n + 1) : \E k \in DOMAIN ss[m] : (q \o r)[j] = ss[m][k]
  BY <1>1 DEF From
<1>3. CASE j <= Len(q)
  <2>1. j \in DOMAIN q /\ (q \o r)[j] = q[j]
    BY <1>1, <1>3
  <2>2. PICK m \in 1..n : \E k \in DOMAIN ss[m] : q[j] = ss[m][k]
    BY <2>1 DEF From
  <2>3. m \in 1..(n + 1)
    OBVIOUS
  <2> QED BY <2>1, <2>2, <2>3
<1>4. CASE j > Len(q)
  <2>1. j - Len(q) \in DOMAIN ss[n + 1] /\ (q \o r)[j] = ss[n + 1][j - Len(q)]
    BY <1>1, <1>4
  <2>2. n + 1 \in 1..(n + 1)
    OBVIOUS
  <2> QED BY <2>1, <2>2
<1> QED BY <1>1, <1>3, <1>4

LEMMA FromBelow ==
  ASSUME NEW q, NEW ss \in Seq(Seq(Candidate)), NEW n \in Nat,
         n + 1 <= Len(ss), From(q, ss, n), AllSorted(ss)
  PROVE  Below(q, ss[n + 1])
<1>0. n + 1 \in 1..Len(ss) /\ (n + 1) - 1 = n
  BY LenProperties
<1>1. \A m \in 1..n : Below(ss[m], ss[n + 1])
  BY <1>0 DEF AllSorted
<1> QED BY <1>1 DEF Below, From

(* What lists make together comes from them, and is in order if they are.  *)
LEMMA JoinedSorted ==
  ASSUME NEW ss \in Seq(Seq(Candidate))
  PROVE  /\ From(Joined(ss), ss, Len(ss))
         /\ AllSorted(ss) => Sorted(Joined(ss))
<1> DEFINE Well(q, n) == /\ q \in Seq(Candidate)
                         /\ From(q, ss, n)
                         /\ AllSorted(ss) => Sorted(q)
           N == {n \in Nat : n <= Len(ss) => Well(Joins(ss)[n], n)}
<1>0. Len(ss) \in Nat /\ \A n \in 1..Len(ss) : ss[n] \in Seq(Candidate)
  BY LenProperties
<1>1. 0 \in N
  <2>1. Joins(ss)[0] = <<>>
    BY JoinedRecursion
  <2>2. <<>> \in Seq(Candidate) /\ DOMAIN <<>> = {}
    BY EmptySeq
  <2>3. Well(<<>>, 0)
    BY <2>2 DEF From, Sorted
  <2> HIDE DEF Well
  <2> QED BY <2>1, <2>3
<1>2. \A n \in Nat : n \in N => n + 1 \in N
  <2> SUFFICES ASSUME NEW n \in Nat, n \in N, n + 1 <= Len(ss)
               PROVE  Well(Joins(ss)[n + 1], n + 1)
    OBVIOUS
  <2>1. n + 1 \in 1..Len(ss) /\ (n + 1) - 1 = n
    BY <1>0
  <2>2. Well(Joins(ss)[n], n)
    <3> HIDE DEF Well
    <3> QED BY <1>0
  <2>3. PICK q \in Seq(Candidate) : q = Joins(ss)[n]
    BY <2>2
  <2>4. Well(q, n)
    BY <2>2, <2>3
  <2>5. PICK r \in Seq(Candidate) : r = ss[n + 1]
    BY <1>0, <2>1
  <2>6. Joins(ss)[n + 1] = q \o r
    BY <2>1, <2>3, <2>5, JoinedRecursion
  <2>7. q \o r \in Seq(Candidate)
    BY ConcatProperties
  <2>8. From(q \o r, ss, n + 1)
    BY <2>4, <2>5, ConcatFrom
  <2>9. AllSorted(ss) => Sorted(q \o r)
    <3> SUFFICES ASSUME AllSorted(ss) PROVE Sorted(q \o r)
      OBVIOUS
    <3>1. Sorted(q)
      BY <2>4
    <3>2. Sorted(r)
      BY <2>1, <2>5 DEF AllSorted
    <3>3. Below(q, r)
      BY <2>4, <2>5, FromBelow
    <3> QED BY <3>1, <3>2, <3>3, ConcatSorted
  <2> QED BY <2>6, <2>7, <2>8, <2>9
<1>3. Well(Joins(ss)[Len(ss)], Len(ss))
  <2>1. Nat \subseteq N
    <3> HIDE DEF N
    <3> QED BY <1>1, <1>2, Naturals
  <2> HIDE DEF Well
  <2> QED BY <1>0, <2>1
<1> QED BY <1>3, JoinedRecursion

LEMMA RegionSorted ==
  ASSUME NEW in \in Inputs, NEW i \in DOMAIN in.regions
  PROVE  /\ Sorted(RegionGrid(i, in))
         /\ \A j \in DOMAIN RegionGrid(i, in) :
              RegionGrid(i, in)[j].offset \in in.regions[i].offset..(End(in.regions[i]) - 1)
<1>1. PICK ss \in Seq(Seq(Candidate)) : ss = RowList(i, in) /\ Len(ss) = Rows(i, in)
  BY RegionGridRows
<1>2. /\ Rows(i, in) \in Nat
      /\ \A k \in 1..Rows(i, in) : \A j \in DOMAIN ss[k] : ss[k][j].offset = Offset(i, in, k)
  BY <1>1, RowFacts, RegionGridRows DEF RowList
<1>3. \A k \in 1..Rows(i, in) :
        Offset(i, in, k) \in in.regions[i].offset..(End(in.regions[i]) - 1)
  BY RowFacts
<1>4. \A m, k \in 1..Rows(i, in) : m <= k => Offset(i, in, m) <= Offset(i, in, k)
  <2> SUFFICES ASSUME NEW m \in 1..Rows(i, in), NEW k \in 1..Rows(i, in), m <= k
               PROVE  Offset(i, in, m) <= Offset(i, in, k)
    OBVIOUS
  <2>1. PICK first \in Nat : first = FirstOffset(in.regions[i], in.stride)
    BY RegionFacts
  <2>2. PICK stride \in Nat \ {0} : stride = in.stride
    BY InputType
  <2>3. m - 1 \in Int /\ k - 1 \in Int /\ m - 1 <= k - 1
    BY <1>2
  <2>4. /\ (m - 1) * stride <= (k - 1) * stride
        /\ (m - 1) * stride \in Int /\ (k - 1) * stride \in Int
    BY <2>3, Times
  <2>5. first + (m - 1) * stride <= first + (k - 1) * stride
    BY <2>4
  <2> QED BY <2>1, <2>2, <2>5 DEF Offset
<1>5. AllSorted(ss)
  <2>0. \A k \in 1..Rows(i, in) : Offset(i, in, k) \in Int
    <3>1. in.regions[i].offset \in Nat /\ End(in.regions[i]) \in Nat
      BY RegionFacts DEF Region
    <3> QED BY <1>3, <3>1
  <2>1. \A n \in 1..Rows(i, in) : Sorted(ss[n])
    BY <1>2, <2>0 DEF Sorted
  <2>2. ASSUME NEW n \in 1..Rows(i, in), NEW m \in 1..(n - 1)
        PROVE  Below(ss[m], ss[n])
    <3>1. m \in 1..Rows(i, in) /\ m <= n
      BY <1>2
    <3> QED BY <1>2, <1>4, <3>1 DEF Below
  <2> QED BY <1>1, <2>1, <2>2 DEF AllSorted
<1>6. RegionGrid(i, in) = Joined(ss)
  BY <1>1, RegionGridRows
<1>7. ASSUME NEW j \in DOMAIN Joined(ss)
      PROVE  Joined(ss)[j].offset \in in.regions[i].offset..(End(in.regions[i]) - 1)
  <2>1. PICK m \in 1..Rows(i, in) : \E k \in DOMAIN ss[m] : Joined(ss)[j] = ss[m][k]
    BY <1>1, JoinedSorted DEF From
  <2>2. Joined(ss)[j].offset = Offset(i, in, m)
    BY <1>2, <2>1
  <2> QED BY <1>3, <2>2
<1> QED BY <1>5, <1>6, <1>7, JoinedSorted

InOrder(in) ==
  \A i, j \in DOMAIN in.regions : i < j => End(in.regions[i]) <= in.regions[j].offset

LEMMA GridSorted ==
  ASSUME NEW in \in Inputs, InOrder(in)
  PROVE  Sorted(Grid(in))
<1>1. DOMAIN in.regions = 1..Len(in.regions) /\ Len(in.regions) \in Nat
  BY InputType, LenProperties
<1>2. PICK ss \in Seq(Seq(Candidate)) :
        /\ ss = [i \in DOMAIN in.regions |-> RegionGrid(i, in)]
        /\ Len(ss) = Len(in.regions)
        /\ \A i \in DOMAIN in.regions : ss[i] = RegionGrid(i, in)
  <2>1. \A i \in 1..Len(in.regions) : RegionGrid(i, in) \in Seq(Candidate)
    BY <1>1, RegionCounted
  <2> DEFINE f == [i \in 1..Len(in.regions) |-> RegionGrid(i, in)]
  <2>2. f \in Seq(Seq(Candidate)) /\ Len(f) = Len(in.regions)
    BY <1>1, <2>1
  <2>3. \A i \in 1..Len(in.regions) : f[i] = RegionGrid(i, in)
    OBVIOUS
  <2>4. f = [i \in DOMAIN in.regions |-> RegionGrid(i, in)]
    BY <1>1
  <2> HIDE DEF f
  <2> QED BY <1>1, <2>2, <2>3, <2>4
<1>3. \A i \in 1..Len(in.regions) : Sorted(ss[i])
  BY <1>1, <1>2, RegionSorted
<1>4. ASSUME NEW i \in 1..Len(in.regions), NEW h \in 1..(i - 1)
      PROVE  Below(ss[h], ss[i])
  <2>1. h \in DOMAIN in.regions /\ i \in DOMAIN in.regions /\ h < i
    BY <1>1
  <2>2. SUFFICES ASSUME NEW j \in DOMAIN ss[h], NEW k \in DOMAIN ss[i]
                 PROVE  ss[h][j].offset <= ss[i][k].offset
    BY DEF Below
  <2>3. PICK e \in Nat : e = End(in.regions[h])
    BY <2>1, RegionFacts
  <2>4. PICK f \in Nat : f = End(in.regions[i])
    BY <2>1, RegionFacts
  <2>5. PICK o \in Nat : o = in.regions[h].offset
    BY <2>1, RegionFacts DEF Region
  <2>6. PICK q \in Nat : q = in.regions[i].offset
    BY <2>1, RegionFacts DEF Region
  <2>7. e <= q
    BY <2>1, <2>3, <2>6 DEF InOrder
  <2>8. ss[h][j].offset \in o..(e - 1)
    BY <1>2, <2>1, <2>2, <2>3, <2>5, RegionSorted
  <2>9. ss[i][k].offset \in q..(f - 1)
    BY <1>2, <2>1, <2>2, <2>4, <2>6, RegionSorted
  <2>10. PICK a \in Int : a = ss[h][j].offset /\ a <= e - 1
    BY <2>8
  <2>11. PICK b \in Int : b = ss[i][k].offset /\ q <= b
    BY <2>9
  <2>12. a <= b
    BY <2>7, <2>10, <2>11
  <2> QED BY <2>10, <2>11, <2>12
<1>5. AllSorted(ss)
  BY <1>2, <1>3, <1>4 DEF AllSorted
<1> QED BY <1>2, <1>5, JoinedSorted DEF Grid
-----------------------------------------------------------------------------
(* The inductive invariant.                                                *)

ChunkCount(n) == (n + Chunk - 1) \div Chunk
Part(n, k) == ((k - 1) * Chunk + 1)..Min({k * Chunk, n})
Covered(n, K) == {x \in 1..n : \E k \in K : x \in Part(n, k)}
Prefix(S) == \A x \in S : 1..x \subseteq S

Future == {"none", "queued", "running", "done", "dropped", "broken"}
Busy == {k \in Chunks : fut[k] \in {"queued", "running"}}
Walked == {k \in Chunks : k < next} \ (inFlight \cup todo)
Tried == IF next = 1 THEN 1..tried ELSE Covered(Len(cand), Walked)

Typed ==
  /\ input \in Inputs /\ cancel \in BOOLEAN /\ broken \in BOOLEAN /\ draining \in BOOLEAN
  /\ conf \in [jobs : JobSettings \cup {0}, exhaustive : BOOLEAN, keys : SUBSET (1..Len(cand))]
  /\ pc \in {"start", "serial", "refill", "wait", "walk", "leave", "over"}
  /\ fut \in [Chunks -> Future]
  /\ next \in Nat /\ tried \in Nat /\ hits \in Seq(1..Len(cand))
  /\ outcome \in {"none", "returned", "cancelled", "failed"}

Loaded ==
  /\ cand \in Seq(Candidate) /\ total = Len(cand)
  /\ ByOffset => Sorted(cand)

Window ==
  /\ 1 <= next /\ next <= ChunkCount(Len(cand)) + 1
  /\ \A k \in Chunks : fut[k] # "none" <=> k < next
  /\ inFlight \subseteq {k \in Chunks : k < next}
  /\ todo \subseteq {k \in Chunks : k < next} \ inFlight
  /\ Busy \subseteq inFlight /\ Cardinality(inFlight) <= MaxInFlight

Placed ==
  /\ pc = "start" => tried = 0 /\ hits = <<>> /\ cand = <<>>
  /\ pc \in {"start", "serial"} => next = 1 /\ ~draining
  /\ pc \notin {"serial", "over"} /\ next = 1 => tried = 0
  /\ pc = "refill" => ~draining /\ todo = {}
  /\ pc = "wait" => /\ todo = {}
                    /\ ~draining /\ inFlight = {} => next = ChunkCount(Len(cand)) + 1
  /\ outcome # "none" => pc \in {"leave", "over"}

Gathered ==
  /\ Tried \subseteq 1..Len(cand) /\ Cardinality(Tried) = tried
  /\ ToSet(hits) = conf.keys \cap Tried /\ IsInjective(hits)
  /\ draining => ~conf.exhaustive /\ hits # <<>>

Returned ==
  outcome = "returned" =>
    /\ Prefix(Tried)
    /\ Tried = 1..Len(cand) \/ (~conf.exhaustive /\ hits # <<>>)

IInv == Typed /\ Loaded /\ Window /\ Placed /\ Gathered /\ Returned
-----------------------------------------------------------------------------
(* The chunks of n candidates.                                             *)

LEMMA ChunkType == Chunk \in Nat \ {0}
BY BruteForceAssumption

LEMMA ChunkCountFacts ==
  ASSUME NEW n \in Nat
  PROVE  /\ ChunkCount(n) \in Nat
         /\ \A k \in Int : k <= ChunkCount(n) <=> k * Chunk <= n + Chunk - 1
         /\ n # 0 => ChunkCount(n) # 0
<1>1. n + Chunk - 1 \in Int /\ Chunk \in Nat \ {0}
  BY ChunkType
<1>2. ChunkCount(n) \in Int /\ \A k \in Int : k <= ChunkCount(n) <=> k * Chunk <= n + Chunk - 1
  BY <1>1, Fits DEF ChunkCount
<1>3. 0 <= ChunkCount(n)
  <2>1. 0 * Chunk <= n + Chunk - 1
    BY <1>1
  <2> QED BY <1>2, <2>1
<1>4. n # 0 => 1 <= ChunkCount(n)
  <2>1. n # 0 => 1 * Chunk <= n + Chunk - 1
    BY <1>1
  <2> QED BY <1>2, <2>1
<1> QED BY <1>2, <1>3, <1>4

LEMMA PartFacts ==
  ASSUME NEW n \in Nat, NEW k \in 1..ChunkCount(n)
  PROVE  /\ (k - 1) * Chunk \in Nat /\ k * Chunk = (k - 1) * Chunk + Chunk
         /\ (k - 1) * Chunk < n
         /\ \A x \in Int : x \in Part(n, k) <=>
                             /\ (k - 1) * Chunk + 1 <= x /\ x <= k * Chunk /\ x <= n
         /\ Part(n, k) \subseteq 1..n /\ Part(n, k) # {}
         /\ IsFiniteSet(Part(n, k)) /\ Cardinality(Part(n, k)) \in Nat
         /\ Part(n, k) = {(k - 1) * Chunk + i : i \in 1..Cardinality(Part(n, k))}
<1>1. Chunk \in Nat \ {0} /\ k \in Int /\ k - 1 \in Int /\ 0 <= k - 1 /\ (k - 1) + 1 = k
  BY ChunkType, ChunkCountFacts
<1>2. PICK m \in Int : m = (k - 1) * Chunk
  BY <1>1, Times
<1>3. 0 <= m
  <2>1. 0 * Chunk <= (k - 1) * Chunk
    BY <1>1, Times
  <2> QED BY <1>1, <1>2, <2>1
<1>4. k * Chunk = m + Chunk
  BY <1>1, <1>2, Times
<1>5. m < n
  <2>1. k * Chunk <= n + Chunk - 1
    BY <1>1, ChunkCountFacts
  <2> QED BY <1>1, <1>4, <2>1
<1>6. PICK u \in Nat : /\ u = Min({k * Chunk, n}) /\ u <= k * Chunk /\ u <= n
                       /\ u = k * Chunk \/ u = n
  <2>1. k * Chunk \in Nat
    BY <1>1, <1>3, <1>4
  <2>2. Min({k * Chunk, n}) = IF k * Chunk <= n THEN k * Chunk ELSE n
    BY <2>1, MinTwo
  <2> QED BY <2>1, <2>2
<1>7. Part(n, k) = (m + 1)..u
  BY <1>2, <1>6 DEF Part
<1>8. m + 1 <= u
  BY <1>1, <1>4, <1>5, <1>6
<1>9. IsFiniteSet((m + 1)..u) /\ Cardinality((m + 1)..u) = u - m
  <2>1. m + 1 \in Int /\ u \in Int
    OBVIOUS
  <2>2. /\ IsFiniteSet((m + 1)..u)
        /\ Cardinality((m + 1)..u) = IF m + 1 > u THEN 0 ELSE u - (m + 1) + 1
    BY <2>1, FS_Interval
  <2> QED BY <1>8, <2>2
<1>10. \A x \in Int : x \in (m + 1)..u <=> m + 1 <= x /\ x <= k * Chunk /\ x <= n
  BY <1>1, <1>4, <1>6
<1>11. (m + 1)..u \subseteq 1..n /\ (m + 1)..u # {}
  BY <1>3, <1>6, <1>8
<1>12. (m + 1)..u = {m + i : i \in 1..(u - m)}
  <2>1. ASSUME NEW x \in (m + 1)..u PROVE x \in {m + i : i \in 1..(u - m)}
    <3>1. x - m \in 1..(u - m) /\ x = m + (x - m)
      BY <1>3
    <3> QED BY <3>1
  <2> QED BY <2>1
<1>13. u - m \in Nat
  BY <1>8
<1> QED BY <1>2, <1>3, <1>4, <1>5, <1>7, <1>9, <1>10, <1>11, <1>12, <1>13

(* Chunks follow each other, and hold every candidate.                     *)
LEMMA PartsApart ==
  ASSUME NEW n \in Nat, NEW j \in 1..ChunkCount(n), NEW k \in 1..ChunkCount(n), j < k,
         NEW x \in Part(n, j), NEW y \in Part(n, k)
  PROVE  x < y
<1>1. Chunk \in Nat \ {0} /\ j \in Int /\ k - 1 \in Int /\ j <= k - 1
  BY ChunkType, ChunkCountFacts
<1>2. j * Chunk <= (k - 1) * Chunk /\ j * Chunk \in Int /\ (k - 1) * Chunk \in Int
  BY <1>1, Times
<1>3. x \in Int /\ y \in Int /\ x <= j * Chunk /\ (k - 1) * Chunk + 1 <= y
  BY PartFacts
<1> QED BY <1>2, <1>3

LEMMA PartsCover ==
  ASSUME NEW n \in Nat, NEW x \in 1..n
  PROVE  \E k \in 1..ChunkCount(n) : x \in Part(n, k)
<1>1. Chunk \in Nat \ {0} /\ x - 1 \in Int /\ x \in Int
  BY ChunkType
<1>2. PICK q \in Int : q = (x - 1) \div Chunk
  BY <1>1, Fits
<1>3. 0 <= q
  <2>1. 0 * Chunk <= x - 1
    BY <1>1
  <2> QED BY <1>1, <1>2, <2>1, Fits
<1>4. PICK m \in Int : m = q * Chunk
  BY <1>1, Times
<1>5. m <= x - 1
  <2>1. q <= q
    OBVIOUS
  <2> QED BY <1>1, <1>2, <1>4, <2>1, Fits
<1>6. x - 1 < m + Chunk
  <2>1. q + 1 \in Int /\ ~ (q + 1 <= q)
    OBVIOUS
  <2>2. ~ ((q + 1) * Chunk <= x - 1)
    BY <1>1, <1>2, <2>1, Fits
  <2>3. (q + 1) * Chunk = m + Chunk
    BY <1>1, <1>4, Times
  <2> QED BY <1>1, <2>2, <2>3
<1>7. q + 1 \in 1..ChunkCount(n)
  <2>1. (q + 1) * Chunk = m + Chunk
    BY <1>1, <1>4, Times
  <2>2. (q + 1) * Chunk <= n + Chunk - 1
    BY <1>1, <1>5, <2>1
  <2>3. q + 1 <= ChunkCount(n)
    BY <2>2, ChunkCountFacts
  <2> QED BY <1>3, <2>3, ChunkCountFacts
<1>8. x \in Part(n, q + 1)
  <2>1. ((q + 1) - 1) * Chunk = m /\ (q + 1) * Chunk = m + Chunk
    BY <1>1, <1>4, Times
  <2>2. m + 1 <= x /\ x <= m + Chunk /\ x <= n
    BY <1>1, <1>5, <1>6
  <2> QED BY <1>1, <1>7, <2>1, <2>2, PartFacts
<1> QED BY <1>7, <1>8

(* What a set of chunks covers, and one more.                              *)
LEMMA CoveredAdds ==
  ASSUME NEW n \in Nat, NEW K \in SUBSET (1..ChunkCount(n)), NEW k \in (1..ChunkCount(n)) \ K
  PROVE  /\ Covered(n, K \cup {k}) = Covered(n, K) \cup Part(n, k)
         /\ Covered(n, K) \cap Part(n, k) = {}
         /\ Cardinality(Covered(n, K \cup {k})) = Cardinality(Covered(n, K)) + Cardinality(Part(n, k))
<1>1. Covered(n, K \cup {k}) = Covered(n, K) \cup Part(n, k)
  BY PartFacts DEF Covered
<1>2. Covered(n, K) \cap Part(n, k) = {}
  <2> SUFFICES ASSUME NEW x \in Part(n, k), NEW j \in K, x \in Part(n, j)
               PROVE  FALSE
    BY DEF Covered
  <2>1. j \in Int /\ k \in Int /\ j # k /\ x \in Int
    BY PartFacts, ChunkCountFacts
  <2>2. j < k \/ k < j
    BY <2>1
  <2>3. x < x
    BY <2>2, PartsApart
  <2> QED BY <2>1, <2>3
<1>3. IsFiniteSet(Covered(n, K))
  <2>1. IsFiniteSet(1..n) /\ Covered(n, K) \subseteq 1..n
    BY FS_Interval DEF Covered
  <2> QED BY <2>1, FS_Subset
<1>4. IsFiniteSet(Part(n, k)) /\ Cardinality(Part(n, k)) \in Nat
  BY PartFacts
<1>5. Cardinality(Covered(n, K) \cup Part(n, k))
        = Cardinality(Covered(n, K)) + Cardinality(Part(n, k)) - Cardinality({})
  BY <1>2, <1>3, <1>4, FS_Union
<1>6. PICK a \in Nat : a = Cardinality(Covered(n, K))
  BY <1>3, FS_CardinalityType
<1>7. PICK b \in Nat : b = Cardinality(Part(n, k))
  BY <1>4
<1>8. Cardinality({}) = 0
  BY FS_EmptySet
<1>9. Cardinality(Covered(n, K) \cup Part(n, k)) = a + b
  BY <1>5, <1>6, <1>7, <1>8
<1> QED BY <1>1, <1>2, <1>6, <1>7, <1>9

LEMMA CoveredPrefix ==
  ASSUME NEW n \in Nat, NEW m \in Nat, m <= ChunkCount(n)
  PROVE  /\ Prefix(Covered(n, 1..m))
         /\ m = ChunkCount(n) => Covered(n, 1..m) = 1..n
<1>1. ASSUME NEW x \in Covered(n, 1..m), NEW y \in 1..x
      PROVE  y \in Covered(n, 1..m)
  <2>1. PICK k \in 1..m : x \in Part(n, k)
    BY DEF Covered
  <2>2. x \in 1..n /\ y \in 1..n /\ y <= x
    BY DEF Covered
  <2>3. PICK j \in 1..ChunkCount(n) : y \in Part(n, j)
    BY <2>2, PartsCover
  <2>4. k \in 1..ChunkCount(n)
    BY ChunkCountFacts
  <2>5. ~ (k < j)
    <3> SUFFICES ASSUME k < j PROVE FALSE
      OBVIOUS
    <3>1. x < y
      BY <2>1, <2>3, <2>4, PartsApart
    <3> QED BY <2>2, <3>1
  <2>6. j \in 1..m
    BY <2>4, <2>5, ChunkCountFacts
  <2> QED BY <2>2, <2>3, <2>6 DEF Covered
<1>2. m = ChunkCount(n) => Covered(n, 1..m) = 1..n
  BY PartsCover DEF Covered
<1> QED BY <1>1, <1>2 DEF Prefix
-----------------------------------------------------------------------------
(* The hits.                                                               *)

(* What a worker returns: the candidates of its chunk that the oracle      *)
(* accepts, each once.                                                     *)
Verified(n, k, keys) == Only([i \in 1..Cardinality(Part(n, k)) |-> (k - 1) * Chunk + i], keys)

LEMMA VerifiedFacts ==
  ASSUME NEW n \in Nat, NEW k \in 1..ChunkCount(n), NEW keys \in SUBSET (1..n)
  PROVE  /\ Verified(n, k, keys) \in Seq(1..n)
         /\ ToSet(Verified(n, k, keys)) = Part(n, k) \cap keys
         /\ IsInjective(Verified(n, k, keys))
<1>1. PICK m \in Nat : m = (k - 1) * Chunk
  BY PartFacts
<1>2. PICK c \in Nat : c = Cardinality(Part(n, k))
  BY PartFacts
<1>3. Part(n, k) \subseteq 1..n /\ Part(n, k) = {m + i : i \in 1..c}
  BY <1>1, <1>2, PartFacts
<1> DEFINE s == [i \in 1..c |-> m + i]
<1>4. s \in Seq(1..n) /\ Len(s) = c /\ \A i \in 1..c : s[i] = m + i
  BY <1>3
<1>5. Verified(n, k, keys) = Only(s, keys)
  BY <1>1, <1>2 DEF Verified
<1> HIDE DEF s
<1>6. PICK r \in Seq((1..n) \cap keys) : r = Only(s, keys)
  BY <1>4, OnlyPlaced
<1>7. PICK g : Places(s, keys, Len(s), r, g)
  BY <1>4, <1>6, OnlyPlaced
<1>8. /\ Len(r) \in Nat /\ DOMAIN r = 1..Len(r)
      /\ r \in Seq(1..n)
  BY LenProperties
<1>9. \A i \in 1..Len(r) : g[i] \in 1..c /\ r[i] = m + g[i] /\ r[i] \in keys
  BY <1>4, <1>7 DEF Places
<1>10. \A i, j \in 1..Len(r) : i < j => g[i] < g[j]
  BY <1>7 DEF Places
<1>11. \A i \in 1..c : m + i \in keys => \E j \in 1..Len(r) : g[j] = i
  BY <1>4, <1>7 DEF Places
<1>12. ToSet(r) = Part(n, k) \cap keys
  <2>1. ToSet(r) = {r[i] : i \in 1..Len(r)}
    BY <1>8 DEF ToSet
  <2>2. \A i \in 1..Len(r) : r[i] \in Part(n, k) \cap keys
    BY <1>3, <1>9
  <2>3. ASSUME NEW x \in Part(n, k) \cap keys PROVE x \in ToSet(r)
    <3>1. PICK i \in 1..c : x = m + i
      BY <1>3
    <3>2. PICK j \in 1..Len(r) : g[j] = i
      BY <1>11, <3>1
    <3> QED BY <1>9, <2>1, <3>1, <3>2
  <2> QED BY <2>1, <2>2, <2>3
<1>13. IsInjective(r)
  <2> SUFFICES ASSUME NEW i \in 1..Len(r), NEW j \in 1..Len(r), r[i] = r[j], i < j
               PROVE  FALSE
    BY <1>8 DEF IsInjective
  <2>1. g[i] \in 1..c /\ g[j] \in 1..c
    BY <1>9
  <2>2. PICK a \in 1..c, b \in 1..c : a = g[i] /\ b = g[j]
    BY <2>1
  <2>3. a < b
    BY <1>10, <2>2
  <2>4. m + a = m + b
    BY <1>9, <2>2
  <2> QED BY <2>3, <2>4
<1> QED BY <1>5, <1>6, <1>8, <1>12, <1>13

LEMMA ConcatHits ==
  ASSUME NEW T, NEW q \in Seq(T), NEW r \in Seq(T)
  PROVE  /\ q \o r \in Seq(T)
         /\ ToSet(q \o r) = ToSet(q) \cup ToSet(r)
         /\ IsInjective(q) /\ IsInjective(r) /\ ToSet(q) \cap ToSet(r) = {} => IsInjective(q \o r)
<1>1. /\ Len(q) \in Nat /\ DOMAIN q = 1..Len(q)
      /\ Len(r) \in Nat /\ DOMAIN r = 1..Len(r)
      /\ q \o r \in Seq(T)
      /\ DOMAIN (q \o r) = 1..(Len(q) + Len(r))
      /\ \A i \in 1..(Len(q) + Len(r)) :
           (q \o r)[i] = IF i <= Len(q) THEN q[i] ELSE r[i - Len(q)]
  BY LenProperties, ConcatProperties
<1>2. PICK a \in Nat : a = Len(q)
  BY <1>1
<1>3. PICK b \in Nat : b = Len(r)
  BY <1>1
<1>4. PICK s : s = q \o r
  OBVIOUS
<1>5. /\ DOMAIN q = 1..a /\ DOMAIN r = 1..b /\ DOMAIN s = 1..(a + b)
      /\ \A i \in 1..a : s[i] = q[i]
      /\ \A i \in 1..(a + b) : i > a => i - a \in 1..b /\ s[i] = r[i - a]
      /\ \A i \in 1..b : s[a + i] = r[i]
  BY <1>1, <1>2, <1>3, <1>4
<1>6. ToSet(s) = ToSet(q) \cup ToSet(r)
  <2>1. ASSUME NEW i \in 1..(a + b) PROVE s[i] \in ToSet(q) \cup ToSet(r)
    <3>1. CASE i <= a
      BY <1>5, <3>1 DEF ToSet
    <3>2. CASE i > a
      BY <1>5, <3>2 DEF ToSet
    <3> QED BY <3>1, <3>2
  <2>2. ASSUME NEW i \in 1..a PROVE q[i] \in ToSet(s)
    <3>1. i \in 1..(a + b)
      OBVIOUS
    <3> QED BY <1>5, <3>1 DEF ToSet
  <2>3. ASSUME NEW i \in 1..b PROVE r[i] \in ToSet(s)
    <3>1. a + i \in 1..(a + b)
      OBVIOUS
    <3> QED BY <1>5, <3>1 DEF ToSet
  <2> QED BY <1>5, <2>1, <2>2, <2>3 DEF ToSet
<1>7. ASSUME IsInjective(q), IsInjective(r), ToSet(q) \cap ToSet(r) = {}
      PROVE  IsInjective(s)
  <2> SUFFICES ASSUME NEW i \in 1..(a + b), NEW j \in 1..(a + b), s[i] = s[j], i < j
               PROVE  FALSE
    BY <1>5 DEF IsInjective
  <2>1. CASE j <= a
    <3>1. i \in 1..a /\ j \in 1..a
      BY <2>1
    <3>2. q[i] = q[j]
      BY <1>5, <3>1
    <3>3. i = j
      BY <1>5, <1>7, <3>1, <3>2 DEF IsInjective
    <3> QED BY <3>3
  <2>2. CASE i > a
    <3>1. i - a \in 1..b /\ j - a \in 1..b /\ r[i - a] = r[j - a]
      BY <1>5, <2>2
    <3>2. i - a = j - a
      BY <1>5, <1>7, <3>1 DEF IsInjective
    <3> QED BY <3>2
  <2>3. CASE i <= a /\ j > a
    <3>1. i \in 1..a /\ j - a \in 1..b
      BY <1>5, <2>3
    <3>2. q[i] \in ToSet(q) /\ r[j - a] \in ToSet(r)
      BY <1>5, <3>1 DEF ToSet
    <3>3. q[i] = r[j - a]
      BY <1>5, <2>3, <3>1
    <3> QED BY <1>7, <3>2, <3>3
  <2> QED BY <2>1, <2>2, <2>3
<1> QED BY <1>1, <1>4, <1>6, <1>7

LEMMA Upto ==
  ASSUME NEW m \in Nat
  PROVE  IsFiniteSet(1..m) /\ Cardinality(1..m) = m
<1>1. IsFiniteSet(1..m) /\ Cardinality(1..m) = IF 1 > m THEN 0 ELSE m - 1 + 1
  BY FS_Interval
<1> QED BY <1>1

LEMMA HitsCounted ==
  ASSUME NEW T, NEW s \in Seq(T), IsInjective(s)
  PROVE  IsFiniteSet(ToSet(s)) /\ Cardinality(ToSet(s)) = Len(s)
<1>1. Len(s) \in Nat /\ DOMAIN s = 1..Len(s) /\ s = [i \in 1..Len(s) |-> s[i]]
  BY LenProperties
<1>2. s \in Bijection(1..Len(s), ToSet(s))
  <2>1. ToSet(s) = {s[i] : i \in 1..Len(s)}
    BY <1>1 DEF ToSet
  <2>2. s \in [1..Len(s) -> ToSet(s)]
    BY <1>1, <2>1
  <2>3. \A i, j \in 1..Len(s) : s[i] = s[j] => i = j
    BY <1>1 DEF IsInjective
  <2>4. \A x \in ToSet(s) : \E i \in 1..Len(s) : s[i] = x
    BY <2>1
  <2> QED BY <2>2, <2>3, <2>4 DEF Bijection, Injection, Surjection, IsInjective
<1>3. IsFiniteSet(1..Len(s)) /\ Cardinality(1..Len(s)) = Len(s)
  BY <1>1, Upto
<1> QED BY <1>2, <1>3, FS_Bijection DEF ExistsBijection

(* Of finitely many candidates one comes first.                            *)
LEMMA LeastBy ==
  ASSUME NEW n \in Nat, NEW f \in [1..n -> Int], NEW S \in SUBSET (1..n), S # {}
  PROVE  \E x \in S : \A y \in S : f[x] <= f[y]
<1> DEFINE Has(m) == \A U \in SUBSET (S \cap 1..m) :
                       U # {} => \E x \in U : \A y \in U : f[x] <= f[y]
           N == {m \in Nat : Has(m)}
<1>1. 0 \in N
  <2>1. S \cap 1..0 = {}
    OBVIOUS
  <2>2. Has(0)
    BY <2>1
  <2> QED BY <2>2
<1>2. ASSUME NEW m \in Nat, m \in N PROVE m + 1 \in N
  <2>0. Has(m)
    BY <1>2
  <2> SUFFICES ASSUME NEW U \in SUBSET (S \cap 1..(m + 1)), U # {}
               PROVE  \E x \in U : \A y \in U : f[x] <= f[y]
    OBVIOUS
  <2>1. \A y \in U : f[y] \in Int
    OBVIOUS
  <2> DEFINE V == U \ {m + 1}
  <2>2. V \in SUBSET (S \cap 1..m)
    OBVIOUS
  <2>3. CASE V = {}
    <3>1. U = {m + 1}
      BY <2>3
    <3> QED BY <2>1, <3>1
  <2>4. CASE V # {}
    <3>1. PICK x \in V : \A y \in V : f[x] <= f[y]
      BY <2>0, <2>2, <2>4
    <3>2. CASE m + 1 \in U /\ f[m + 1] <= f[x]
      <4>1. \A y \in V : f[m + 1] <= f[y]
        BY <2>1, <3>1, <3>2
      <4>2. \A y \in U : f[m + 1] <= f[y]
        BY <2>1, <3>2, <4>1
      <4> QED BY <3>2, <4>2
    <3>3. CASE ~ (m + 1 \in U /\ f[m + 1] <= f[x])
      <4>1. \A y \in U : f[x] <= f[y]
        BY <2>1, <3>1, <3>3
      <4> QED BY <3>1, <4>1
    <3> QED BY <3>2, <3>3
  <2> QED BY <2>3, <2>4
<1>3. n \in N
  <2> HIDE DEF N
  <2> QED BY <1>1, <1>2, Naturals
<1> QED BY <1>3

LEMMA FirstHit ==
  ASSUME NEW c \in Seq(Candidate), NEW S \in SUBSET (1..Len(c)), S # {}
  PROVE  \E h \in S : \A g \in S : ~ Before(c[g], c[h])
<1> DEFINE offset == [i \in 1..Len(c) |-> c[i].offset]
           region == [i \in 1..Len(c) |-> c[i].region]
           size == [i \in 1..Len(c) |-> c[i].size]
<1>1. Len(c) \in Nat /\ \A i \in 1..Len(c) : c[i] \in Candidate
  BY LenProperties
<1>2. /\ offset \in [1..Len(c) -> Int] /\ region \in [1..Len(c) -> Int]
      /\ size \in [1..Len(c) -> Int]
  BY <1>1 DEF Candidate
<1>3. PICK o \in S : \A y \in S : offset[o] <= offset[y]
  <2> HIDE DEF offset
  <2> QED BY <1>1, <1>2, LeastBy
<1> DEFINE U == {x \in S : offset[x] = offset[o]}
<1>4. PICK r \in U : \A y \in U : region[r] <= region[y]
  <2>1. U # {} /\ U \in SUBSET (1..Len(c))
    BY <1>3
  <2> HIDE DEF region, U
  <2> QED BY <1>1, <1>2, <2>1, LeastBy
<1> DEFINE V == {x \in U : region[x] = region[r]}
<1>5. PICK h \in V : \A y \in V : size[h] <= size[y]
  <2>1. V # {} /\ V \in SUBSET (1..Len(c))
    BY <1>4
  <2> HIDE DEF size, V
  <2> QED BY <1>1, <1>2, <2>1, LeastBy
<1>6. ASSUME NEW g \in S PROVE ~ Before(c[g], c[h])
  <2>1. /\ h \in S /\ h \in 1..Len(c) /\ g \in 1..Len(c)
        /\ c[h].offset = offset[h] /\ c[h].region = region[h] /\ c[h].size = size[h]
        /\ c[g].offset = offset[g] /\ c[g].region = region[g] /\ c[g].size = size[g]
    BY <1>5
  <2> HIDE DEF offset, region, size
  <2>2. /\ offset[h] \in Int /\ region[h] \in Int /\ size[h] \in Int
        /\ offset[g] \in Int /\ region[g] \in Int /\ size[g] \in Int
    BY <1>2, <2>1
  <2>3. offset[h] <= offset[g]
    BY <1>3, <1>5
  <2>4. offset[g] = offset[h] => region[h] <= region[g]
    BY <1>4, <1>5
  <2>5. offset[g] = offset[h] /\ region[g] = region[h] => size[h] <= size[g]
    BY <1>4, <1>5
  <2> QED BY <2>1, <2>2, <2>3, <2>4, <2>5 DEF Before
<1> QED BY <1>5, <1>6
-----------------------------------------------------------------------------
(* The invariant holds of the initial states, and every step keeps it.     *)

LEMMA ChunksAre ==
  /\ Chunks = 1..ChunkCount(Len(cand))
  /\ \A k : /\ Members(k) = Part(Len(cand), k)
            /\ Accepted(k) = Verified(Len(cand), k, conf.keys)
BY DEF Chunks, ChunkCount, Members, Part, Accepted, Verified

LEMMA WindowType ==
  ASSUME NEW jobs \in Int, NEW n, NEW exhaustive
  PROVE  Max({1, ResolveJobs(jobs, n, exhaustive) * PerJob}) \in Nat \ {0}
<1>1. Cpus \in Nat /\ PerJob \in Nat /\ ParallelMaxJobs \in Nat
  BY BruteForceAssumption
<1>2. PICK m \in Int : m = Min({ParallelMaxJobs, Cpus - 1})
  BY <1>1, MinTwo
<1>3. Max({1, m}) \in Int
  BY MaxTwo
<1>4. ResolveJobs(jobs, n, exhaustive) \in Int
  BY <1>2, <1>3 DEF ResolveJobs
<1>5. PICK w \in Int : w = ResolveJobs(jobs, n, exhaustive) * PerJob
  BY <1>1, <1>4
<1>6. Max({1, w}) \in Nat \ {0}
  BY MaxTwo
<1> QED BY <1>5, <1>6

LEMMA ConfType ==
  ASSUME Typed
  PROVE  /\ conf.jobs \in Int /\ conf.exhaustive \in BOOLEAN /\ conf.keys \in SUBSET (1..Len(cand))
         /\ MaxInFlight \in Nat \ {0}
<1>1. /\ conf.jobs \in Int /\ conf.exhaustive \in BOOLEAN
      /\ conf.keys \in SUBSET (1..Len(cand))
  <2>1. /\ conf.jobs \in JobSettings \cup {0} /\ conf.exhaustive \in BOOLEAN
        /\ conf.keys \in SUBSET (1..Len(cand))
    BY DEF Typed
  <2>2. JobSettings \cup {0} \subseteq Int
    BY BruteForceAssumption
  <2>3. conf.jobs \in Int
    BY <2>1, <2>2
  <2> QED BY <2>1, <2>3
<1>2. MaxInFlight = Max({1, ResolveJobs(conf.jobs, total, conf.exhaustive) * PerJob})
  BY DEF MaxInFlight, Jobs
<1> QED BY <1>1, <1>2, WindowType

LEMMA NoChunks == ChunkCount(0) = 0
<1>1. 0 \in Nat /\ Chunk \in Nat \ {0} /\ 1 * Chunk = Chunk
  BY ChunkType
<1>2. ~ (1 * Chunk <= 0 + Chunk - 1)
  BY <1>1
<1>3. ~ (1 <= ChunkCount(0)) /\ ChunkCount(0) \in Nat
  BY <1>2, ChunkCountFacts
<1> QED BY <1>3

LEMMA First == Init => IInv
<1> SUFFICES ASSUME Init PROVE IInv
  OBVIOUS
<1> USE DEF Init
<1>1. Len(cand) = 0 /\ cand = <<>> /\ <<>> \in Seq(Candidate) /\ <<>> \in Seq(1..Len(cand))
  BY EmptySeq
<1>2. Chunks = {}
  BY <1>1, ChunksAre, NoChunks
<1>3. conf \in [jobs : JobSettings \cup {0}, exhaustive : BOOLEAN, keys : SUBSET (1..Len(cand))]
  OBVIOUS
<1>4. Typed
  <2>1. fut \in [Chunks -> Future]
    BY <1>2
  <2>2. hits \in Seq(1..Len(cand))
    BY <1>1
  <2>3. /\ input \in Inputs /\ cancel \in BOOLEAN /\ broken \in BOOLEAN /\ draining \in BOOLEAN
        /\ next \in Nat /\ tried \in Nat
    OBVIOUS
  <2> QED BY <1>3, <2>1, <2>2, <2>3 DEF Typed
<1>5. Loaded
  BY <1>1 DEF Loaded, Sorted
<1>6. Window
  <2>1. Cardinality(inFlight) <= MaxInFlight
    BY <1>4, ConfType, FS_EmptySet
  <2> QED BY <1>1, <1>2, <2>1, NoChunks DEF Window, Busy
<1>7. Placed
  BY DEF Placed
<1>8. Gathered
  <2>1. Tried = {} /\ ToSet(hits) = {} /\ Cardinality(Tried) = 0
    BY FS_EmptySet DEF Tried, ToSet
  <2> QED BY <2>1 DEF Gathered, IsInjective
<1>9. Returned
  BY DEF Returned
<1> QED BY <1>4, <1>5, <1>6, <1>7, <1>8, <1>9 DEF IInv

LEMMA StartKeeps ==
  ASSUME IInv, NEW jobs \in JobSettings, NEW exhaustive \in BOOLEAN, Start(jobs, exhaustive)
  PROVE  IInv'
<1> USE DEF Start
<1>1. /\ input \in Inputs /\ pc = "start" /\ next = 1 /\ inFlight = {} /\ todo = {}
      /\ tried = 0 /\ hits = <<>> /\ ~draining /\ outcome = "none"
  <2>1. Typed /\ Window /\ Placed
    BY DEF IInv
  <2>2. {k \in Chunks : k < 1} = {}
    BY ChunksAre
  <2> QED BY <2>1, <2>2 DEF Typed, Window, Placed
<1>2. PICK keys \in SUBSET DOMAIN cand' :
        conf' = [jobs |-> jobs, exhaustive |-> exhaustive, keys |-> keys]
  OBVIOUS
<1>3. /\ cand' \in Seq(Candidate) /\ total' = Len(cand') /\ input' = input
      /\ Len(cand') \in Nat /\ DOMAIN cand' = 1..Len(cand')
  BY <1>1, GridCounted, LenProperties
<1>4. Chunks' = 1..ChunkCount(Len(cand')) /\ ChunkCount(Len(cand')) \in Nat
  BY <1>3, ChunkCountFacts DEF Chunks, ChunkCount
<1>5. Typed'
  <2>1. fut' \in [Chunks' -> Future]
    BY DEF Future
  <2>2. conf' \in [jobs : JobSettings \cup {0}, exhaustive : BOOLEAN, keys : SUBSET (1..Len(cand'))]
    BY <1>2, <1>3
  <2>3. hits' \in Seq(1..Len(cand'))
    BY <1>1, EmptySeq
  <2>4. pc' \in {"refill", "serial"}
    OBVIOUS
  <2> QED BY <1>1, <1>3, <2>1, <2>2, <2>3, <2>4 DEF Typed, IInv
<1>6. Loaded'
  <2>1. ByOffset' => Sorted(cand')
    BY <1>1, <1>3, GridSorted DEF ByOffset, InOrder
  <2> QED BY <1>3, <2>1 DEF Loaded
<1>7. Window'
  <2>1. MaxInFlight' \in Nat
    <3>1. jobs \in Int
      BY BruteForceAssumption
    <3>2. MaxInFlight' = Max({1, ResolveJobs(jobs, total', exhaustive) * PerJob})
      BY <1>2 DEF MaxInFlight, Jobs
    <3> QED BY <3>1, <3>2, WindowType
  <2>2. Cardinality(inFlight') <= MaxInFlight'
    BY <1>1, <2>1, FS_EmptySet
  <2>3. \A k \in Chunks' : fut'[k] = "none" /\ ~ (k < 1)
    BY <1>4
  <2>4. Busy' = {}
    BY <2>3 DEF Busy
  <2> QED BY <1>1, <1>4, <2>2, <2>3, <2>4 DEF Window
<1>8. Placed'
  BY <1>1 DEF Placed
<1>9. Gathered'
  <2>1. Tried' = {} /\ ToSet(hits') = {} /\ Cardinality(Tried') = 0
    BY <1>1, FS_EmptySet DEF Tried, ToSet
  <2> QED BY <1>1, <2>1 DEF Gathered, IsInjective
<1>10. Returned'
  BY <1>1 DEF Returned
<1> QED BY <1>5, <1>6, <1>7, <1>8, <1>9, <1>10 DEF IInv

(* Nothing loads another grid once it is there.                            *)
LEMMA Frame ==
  ASSUME IInv, UNCHANGED given
  PROVE  /\ Loaded' /\ Chunks' = Chunks /\ MaxInFlight' = MaxInFlight
         /\ cand' = cand /\ conf' = conf /\ input' = input
BY DEF IInv, Loaded, given, Chunks, MaxInFlight, Jobs, ByOffset

LEMMA TriedKept ==
  ASSUME IInv, UNCHANGED given, UNCHANGED <<next, tried, hits, draining>>,
         (inFlight \cup todo)' = inFlight \cup todo
  PROVE  Tried' = Tried /\ Gathered'
<1>1. Tried' = Tried
  BY Frame DEF Tried, Walked
<1>2. Gathered
  BY DEF IInv
<1> QED BY <1>1, <1>2, Frame DEF Gathered

(* A step that only moves the main thread: it stops, or is told to.        *)
LEMMA Halts ==
  ASSUME IInv, UNCHANGED <<given, next, inFlight, todo, draining, tried, hits>>,
         pc' \in {"leave", "over"}, pc \notin {"serial", "over"} \/ pc' = "over",
         outcome' \in {"none", "returned", "cancelled", "failed"},
         outcome' = "returned" =>
           /\ Prefix(Tried)
           /\ Tried = 1..Len(cand) \/ (~conf.exhaustive /\ hits # <<>>),
         cancel' \in BOOLEAN, broken' \in BOOLEAN, fut' \in [Chunks -> Future],
         \A k \in Chunks : (fut'[k] = "none" <=> fut[k] = "none"),
         \A k \in Chunks : fut'[k] \in {"queued", "running"} => fut[k] \in {"queued", "running"}
  PROVE  IInv'
<1>1. /\ Loaded' /\ Chunks' = Chunks /\ MaxInFlight' = MaxInFlight
      /\ cand' = cand /\ conf' = conf /\ input' = input
  BY Frame
<1>2. Tried' = Tried /\ Gathered'
  BY TriedKept
<1>3. Typed'
  BY <1>1 DEF IInv, Typed
<1>4. Window'
  <2>1. Window
    BY DEF IInv
  <2>2. Busy' \subseteq Busy
    BY <1>1 DEF Busy
  <2>3. \A k \in Chunks : fut'[k] # "none" <=> k < next
    BY <2>1 DEF Window
  <2> QED BY <1>1, <2>1, <2>2, <2>3 DEF Window
<1>5. Placed'
  BY DEF IInv, Placed
<1>6. Returned'
  BY <1>1, <1>2 DEF Returned
<1> QED BY <1>1, <1>2, <1>3, <1>4, <1>5, <1>6 DEF IInv

LEMMA FutType == IInv => fut \in [Chunks -> Future]
BY DEF IInv, Typed

LEMMA RefusedKeeps == IInv /\ Refused => IInv'
<1> SUFFICES ASSUME IInv, Refused PROVE IInv'
  OBVIOUS
<1>1. /\ cancel \in BOOLEAN /\ broken \in BOOLEAN /\ fut \in [Chunks -> Future]
  BY DEF IInv, Typed
<1> QED BY <1>1, Halts DEF Refused, given, pool

LEMMA SetCancelKeeps == IInv /\ SetCancel => IInv'
<1> SUFFICES ASSUME IInv, SetCancel PROVE IInv'
  OBVIOUS
<1> USE DEF SetCancel, pool
<1>1. /\ Loaded' /\ Chunks' = Chunks /\ MaxInFlight' = MaxInFlight
      /\ cand' = cand /\ conf' = conf /\ input' = input
  BY Frame
<1>2. Tried' = Tried /\ Gathered'
  BY TriedKept
<1>3. Typed'
  BY <1>1 DEF IInv, Typed
<1>4. Window'
  BY <1>1 DEF IInv, Window, Busy
<1>5. Placed'
  BY <1>1 DEF IInv, Placed
<1>6. Returned'
  BY <1>1, <1>2 DEF IInv, Returned
<1> QED BY <1>1, <1>2, <1>3, <1>4, <1>5, <1>6 DEF IInv

(* The workers: they take up what is queued, and end it.                   *)
LEMMA WorkersKeep ==
  ASSUME IInv,
         UNCHANGED <<given, pc, cancel, next, inFlight, todo, draining, tried, hits, outcome>>,
         broken' \in BOOLEAN, fut' \in [Chunks -> Future],
         \A k \in Chunks : (fut'[k] = "none" <=> fut[k] = "none"),
         \A k \in Chunks : fut'[k] \in {"queued", "running"} => fut[k] \in {"queued", "running"}
  PROVE  IInv'
<1>1. /\ Loaded' /\ Chunks' = Chunks /\ MaxInFlight' = MaxInFlight
      /\ cand' = cand /\ conf' = conf /\ input' = input
  BY Frame
<1>2. Tried' = Tried /\ Gathered'
  BY TriedKept
<1>3. Typed'
  BY <1>1 DEF IInv, Typed
<1>4. Window'
  <2>1. Window
    BY DEF IInv
  <2>2. Busy' \subseteq Busy
    BY <1>1 DEF Busy
  <2>3. \A k \in Chunks : fut'[k] # "none" <=> k < next
    BY <2>1 DEF Window
  <2> QED BY <1>1, <2>1, <2>2, <2>3 DEF Window
<1>5. Placed'
  BY <1>1 DEF IInv, Placed
<1>6. Returned'
  BY <1>1, <1>2 DEF IInv, Returned
<1> QED BY <1>1, <1>2, <1>3, <1>4, <1>5, <1>6 DEF IInv

LEMMA WorkKeeps ==
  ASSUME IInv, NEW k \in Chunks, Begin(k) \/ Complete(k)
  PROVE  IInv'
<1>1. broken' \in BOOLEAN /\ fut \in [Chunks -> Future]
  BY DEF IInv, Typed, Begin, Complete, Work
<1>2. fut' \in [Chunks -> Future]
  BY <1>1 DEF Begin, Complete, Work, Future
<1>3. /\ fut[k] \in {"queued", "running"} /\ fut'[k] \in {"running", "done"}
      /\ \A j \in Chunks : j # k => fut'[j] = fut[j]
  BY <1>1 DEF Begin, Complete, Work
<1>4. \A j \in Chunks : (fut'[j] = "none" <=> fut[j] = "none")
  BY <1>3
<1>5. \A j \in Chunks : fut'[j] \in {"queued", "running"} => fut[j] \in {"queued", "running"}
  BY <1>3
<1>6. UNCHANGED <<given, pc, cancel, next, inFlight, todo, draining, tried, hits, outcome>>
  BY DEF Begin, Complete, Work
<1> QED BY <1>1, <1>2, <1>4, <1>5, <1>6, WorkersKeep

LEMMA WorkerDiesKeeps == IInv /\ WorkerDies => IInv'
<1> SUFFICES ASSUME IInv, WorkerDies PROVE IInv'
  OBVIOUS
<1>1. fut \in [Chunks -> Future]
  BY FutType
<1>2. fut' \in [Chunks -> Future]
  BY <1>1 DEF WorkerDies, Future
<1>3. \A j \in Chunks : (fut'[j] = "none" <=> fut[j] = "none")
  BY <1>1 DEF WorkerDies
<1>4. \A j \in Chunks : fut'[j] \in {"queued", "running"} => fut[j] \in {"queued", "running"}
  BY <1>1 DEF WorkerDies
<1>5. broken' \in BOOLEAN
  BY DEF WorkerDies
<1>6. UNCHANGED <<given, pc, cancel, next, inFlight, todo, draining, tried, hits, outcome>>
  BY DEF WorkerDies
<1> QED BY <1>2, <1>3, <1>4, <1>5, <1>6, WorkersKeep

LEMMA LeaveKeeps == IInv /\ Leave => IInv'
<1> SUFFICES ASSUME IInv, Leave PROVE IInv'
  OBVIOUS
<1>1. cancel' \in BOOLEAN /\ broken' \in BOOLEAN /\ fut' = fut /\ fut' \in [Chunks -> Future]
      /\ outcome' = outcome /\ outcome \in {"none", "returned", "cancelled", "failed"}
  BY DEF IInv, Typed, Leave, pool
<1>2. outcome' = "returned" => /\ Prefix(Tried)
                               /\ Tried = 1..Len(cand) \/ (~conf.exhaustive /\ hits # <<>>)
  BY <1>1 DEF IInv, Returned
<1>3. UNCHANGED <<given, next, inFlight, todo, draining, tried, hits>> /\ pc' = "over"
  BY DEF Leave
<1> QED BY <1>1, <1>2, <1>3, Halts

LEMMA CancelledKeeps ==
  ASSUME IInv, NEW k \in todo, WalkCancelled(k) \/ WalkBroken(k)
  PROVE  IInv'
<1>1. /\ fut \in [Chunks -> Future] /\ cancel' \in BOOLEAN /\ broken' \in BOOLEAN
      /\ outcome' \in {"cancelled", "failed"} /\ pc = "walk" /\ pc' = "leave"
  BY DEF IInv, Typed, WalkCancelled, WalkBroken, pool
<1>2. /\ fut' \in [Chunks -> Future]
      /\ \A j \in Chunks : (fut'[j] = "none" <=> fut[j] = "none")
      /\ \A j \in Chunks : fut'[j] \in {"queued", "running"} => fut[j] \in {"queued", "running"}
  BY <1>1 DEF WalkCancelled, WalkBroken, pool, Future
<1>3. UNCHANGED <<given, next, inFlight, todo, draining, tried, hits>>
  BY DEF WalkCancelled, WalkBroken
<1> QED BY <1>1, <1>2, <1>3, Halts

LEMMA WaitKeeps == IInv /\ Wait => IInv'
<1> SUFFICES ASSUME IInv, Wait PROVE IInv'
  OBVIOUS
<1> USE DEF Wait, pool
<1>1. /\ Loaded' /\ Chunks' = Chunks /\ MaxInFlight' = MaxInFlight
      /\ cand' = cand /\ conf' = conf /\ input' = input
  BY Frame
<1>2. todo = {} /\ Settled \subseteq inFlight
  BY DEF IInv, Placed, Settled
<1>3. Tried' = Tried /\ Gathered'
  <2>1. (inFlight \cup todo)' = inFlight \cup todo
    BY <1>2
  <2> QED BY <2>1, TriedKept
<1>4. Typed'
  BY <1>1 DEF IInv, Typed
<1>5. Window'
  <2>1. Window
    BY DEF IInv
  <2>2. IsFiniteSet(inFlight)
    <3>1. IsFiniteSet(1..ChunkCount(Len(cand)))
      BY ChunkCountFacts, LenProperties, FS_Interval DEF IInv, Loaded
    <3>2. inFlight \subseteq 1..ChunkCount(Len(cand))
      BY <2>1, ChunksAre DEF Window
    <3> QED BY <3>1, <3>2, FS_Subset
  <2>3. Cardinality(inFlight') <= MaxInFlight'
    <3>1. Cardinality(inFlight') <= Cardinality(inFlight)
      BY <2>2, FS_Subset
    <3>2. inFlight' \subseteq inFlight
      OBVIOUS
    <3>3. Cardinality(inFlight') \in Nat /\ Cardinality(inFlight) \in Nat
      BY <2>2, <3>2, FS_Subset, FS_CardinalityType
    <3>4. MaxInFlight \in Nat
      BY ConfType DEF IInv
    <3>5. Cardinality(inFlight) <= MaxInFlight
      BY <2>1 DEF Window
    <3> QED BY <1>1, <3>1, <3>3, <3>4, <3>5
  <2>4. Busy' \subseteq inFlight'
    <3>1. Busy' = Busy /\ Busy \subseteq inFlight
      BY <1>1, <2>1 DEF Busy, Window
    <3>2. Busy \cap Settled = {}
      BY DEF Busy, Settled
    <3> QED BY <3>1, <3>2
  <2>5. todo' \subseteq {k \in Chunks : k < next} \ inFlight'
    BY <1>2, <2>1 DEF Window
  <2> QED BY <1>1, <2>1, <2>3, <2>4, <2>5 DEF Window
<1>6. Placed'
  BY <1>1 DEF IInv, Placed
<1>7. Returned'
  BY <1>1, <1>3 DEF IInv, Returned
<1> QED BY <1>1, <1>3, <1>4, <1>5, <1>6, <1>7 DEF IInv

LEMMA Counts ==
  ASSUME IInv
  PROVE  /\ Len(cand) \in Nat /\ ChunkCount(Len(cand)) \in Nat
         /\ Chunks = 1..ChunkCount(Len(cand)) /\ Cardinality(Chunks) = ChunkCount(Len(cand))
         /\ next \in 1..(ChunkCount(Len(cand)) + 1)
<1>1. PICK n \in Nat : n = Len(cand)
  BY LenProperties DEF IInv, Loaded
<1>2. PICK c \in Nat : c = ChunkCount(n)
  BY ChunkCountFacts
<1>3. Cardinality(1..c) = c
  BY Upto
<1>4. next \in 1..(c + 1)
  BY <1>1, <1>2 DEF IInv, Typed, Window
<1> QED BY <1>1, <1>2, <1>3, <1>4, ChunksAre

(* When the window is empty, what was tried is a prefix; and all, unless a *)
(* hit ended the search.                                                   *)
LEMMA FinishKeeps == IInv /\ Finish => IInv'
<1> SUFFICES ASSUME IInv, Finish PROVE IInv'
  OBVIOUS
<1>1. /\ pc = "wait" /\ pc' = "leave" /\ outcome' = "returned" /\ inFlight = {} /\ todo = {}
      /\ ~draining => next = ChunkCount(Len(cand)) + 1
      /\ next = 1 => tried = 0
      /\ UNCHANGED <<given, next, inFlight, todo, draining, tried, hits>>
      /\ cancel' \in BOOLEAN /\ broken' \in BOOLEAN /\ fut' = fut /\ fut' \in [Chunks -> Future]
  BY DEF IInv, Typed, Placed, Finish, pool
<1>2. PICK n \in Nat : n = Len(cand)
  BY Counts
<1>3. PICK c \in Nat : c = ChunkCount(n) /\ Chunks = 1..c /\ next \in 1..(c + 1)
  BY <1>2, Counts
<1>4. /\ ToSet(hits) = conf.keys \cap Tried
      /\ draining => ~conf.exhaustive /\ hits # <<>>
  BY DEF IInv, Gathered
<1>5. hits \in Seq(1..n)
  BY <1>2 DEF IInv, Typed
<1>6. CASE next = 1
  <2>1. Tried = {}
    BY <1>1, <1>6 DEF Tried
  <2>2. hits = <<>>
    <3>1. Len(hits) \in Nat /\ DOMAIN hits = 1..Len(hits)
      BY <1>5, LenProperties
    <3>2. Len(hits) = 0
      <4> SUFFICES ASSUME Len(hits) # 0 PROVE FALSE
        OBVIOUS
      <4>1. 1 \in DOMAIN hits
        BY <3>1
      <4> QED BY <1>4, <2>1, <4>1 DEF ToSet
    <3> QED BY <1>5, <3>2, EmptySeq
  <2>3. ~draining /\ c = 0
    BY <1>1, <1>2, <1>3, <1>4, <1>6, <2>2
  <2>4. n = 0
    BY <1>3, <2>3, ChunkCountFacts
  <2>5. Prefix(Tried) /\ Tried = 1..Len(cand)
    BY <1>2, <2>1, <2>4 DEF Prefix
  <2> QED BY <1>1, <2>5, Halts
<1>7. CASE next # 1
  <2>1. PICK m \in Nat : next = m + 1 /\ m <= c
    <3>1. next - 1 \in Nat /\ next = (next - 1) + 1 /\ next - 1 <= c
      BY <1>3
    <3> QED BY <3>1
  <2>2. Walked = 1..m
    BY <1>1, <1>3, <2>1 DEF Walked
  <2>3. Tried = Covered(n, 1..m)
    BY <1>2, <1>7, <2>2 DEF Tried
  <2>4. Prefix(Tried) /\ (m = c => Tried = 1..n)
    BY <1>3, <2>1, <2>3, CoveredPrefix
  <2>5. ~draining => m = c
    BY <1>1, <1>2, <1>3, <2>1
  <2>6. Tried = 1..Len(cand) \/ (~conf.exhaustive /\ hits # <<>>)
    BY <1>2, <1>4, <2>4, <2>5
  <2> QED BY <1>1, <2>4, <2>6, Halts
<1> QED BY <1>6, <1>7

LEMMA SingleHit ==
  ASSUME NEW T, NEW x \in T
  PROVE  <<x>> \in Seq(T) /\ ToSet(<<x>>) = {x} /\ IsInjective(<<x>>)
BY DEF ToSet, IsInjective

LEMMA SerialKeeps == IInv /\ SerialStep => IInv'
<1> SUFFICES ASSUME IInv, SerialStep PROVE IInv'
  OBVIOUS
<1>1. /\ pc = "serial" /\ next = 1 /\ ~draining /\ outcome = "none"
      /\ UNCHANGED <<given, cancel, fut, broken, next, inFlight, todo, draining>>
  BY DEF IInv, Typed, Placed, SerialStep, pool
<1>2. PICK n \in Nat : n = Len(cand)
  BY Counts
<1>3. Tried = 1..tried /\ tried \in Nat /\ tried <= n
  <2>1. Tried = 1..tried /\ tried \in Nat /\ Tried \subseteq 1..n
    BY <1>1, <1>2 DEF IInv, Typed, Gathered, Tried
  <2>2. tried = 0 \/ tried \in 1..tried
    BY <2>1
  <2> QED BY <2>1, <2>2
<1>4. CASE /\ UNCHANGED <<tried, hits>> /\ pc' = "over"
           /\ outcome' = "cancelled" \/ (outcome' = "returned" /\ tried = n)
  <2>1. /\ UNCHANGED <<given, next, inFlight, todo, draining, tried, hits>>
        /\ outcome' \in {"none", "returned", "cancelled", "failed"}
        /\ cancel' \in BOOLEAN /\ broken' \in BOOLEAN /\ fut' = fut /\ fut' \in [Chunks -> Future]
    BY <1>1, <1>4 DEF IInv, Typed
  <2>2. outcome' = "returned" => Prefix(Tried) /\ Tried = 1..Len(cand)
    BY <1>2, <1>3, <1>4 DEF Prefix
  <2> QED BY <1>4, <2>1, <2>2, Halts
<1>5. CASE /\ tried # n /\ tried' = tried + 1
           /\ IF tried' \in conf.keys
              THEN /\ hits' = Append(hits, tried')
                   /\ IF conf.exhaustive THEN UNCHANGED <<pc, outcome>>
                      ELSE pc' = "over" /\ outcome' = "returned"
              ELSE UNCHANGED <<hits, pc, outcome>>
  <2>1. /\ Loaded' /\ Chunks' = Chunks /\ MaxInFlight' = MaxInFlight
        /\ cand' = cand /\ conf' = conf /\ input' = input
    BY <1>1, Frame
  <2>2. Tried' = 1..(tried + 1) /\ tried + 1 \in 1..n /\ tried + 1 \in Nat
    BY <1>1, <1>3, <1>5 DEF Tried
  <2>3. /\ ToSet(hits) = conf.keys \cap (1..tried) /\ IsInjective(hits)
        /\ hits \in Seq(1..n) /\ conf.keys \subseteq 1..n
        /\ conf.exhaustive \in BOOLEAN
    BY <1>2, <1>3, ConfType DEF IInv, Typed, Gathered
  <2>4. CASE tried + 1 \in conf.keys
    <3>1. hits' = hits \o <<tried + 1>>
      BY <1>5, <2>2, <2>3, <2>4, AppendIsConcat
    <3>2. ToSet(hits) \cap {tried + 1} = {}
      BY <1>3, <2>3
    <3>3. /\ hits' \in Seq(1..n) /\ ToSet(hits') = ToSet(hits) \cup {tried + 1}
          /\ IsInjective(hits')
      <4>1. PICK T : T = 1..n
        OBVIOUS
      <4>2. PICK r \in Seq(T) : /\ r = <<tried + 1>> /\ ToSet(r) = {tried + 1}
                                /\ IsInjective(r)
        BY <2>2, <4>1, SingleHit
      <4>3. PICK q \in Seq(T) : q = hits
        BY <2>3, <4>1
      <4>4. IsInjective(q) /\ IsInjective(r) /\ ToSet(q) \cap ToSet(r) = {}
        BY <2>3, <3>2, <4>2, <4>3
      <4>5. q \o r \in Seq(T) /\ ToSet(q \o r) = ToSet(q) \cup ToSet(r) /\ IsInjective(q \o r)
        BY <4>4, ConcatHits
      <4> QED BY <3>1, <4>1, <4>2, <4>3, <4>5
    <3>4. ToSet(hits') = conf.keys \cap 1..(tried + 1)
      BY <1>3, <2>3, <2>4, <3>3
    <3>5. hits' # <<>>
      <4>1. ToSet(hits') # {}
        BY <3>3
      <4> QED BY <4>1 DEF ToSet
    <3>6. /\ pc' \in {"serial", "over"} /\ outcome' \in {"none", "returned"}
          /\ outcome' # "none" => pc' = "over" /\ ~conf.exhaustive
      BY <1>1, <1>5, <2>4
    <3>7. Typed'
      BY <1>1, <1>2, <1>5, <2>1, <2>2, <3>3, <3>6 DEF IInv, Typed
    <3>8. Window'
      BY <1>1, <2>1 DEF IInv, Window, Busy
    <3>9. Placed'
      BY <1>1, <3>6 DEF Placed
    <3>10. Gathered'
      <4>1. Cardinality(1..(tried + 1)) = tried + 1
        BY <2>2, Upto
      <4>2. 1..(tried + 1) \subseteq 1..n
        BY <1>3, <2>2
      <4> QED BY <1>1, <1>2, <1>5, <2>1, <2>2, <3>3, <3>4, <4>1, <4>2 DEF Gathered
    <3>11. Returned'
      <4>1. Prefix(1..(tried + 1))
        BY <2>2 DEF Prefix
      <4> QED BY <2>1, <2>2, <3>5, <3>6, <4>1 DEF Returned
    <3> QED BY <2>1, <3>7, <3>8, <3>9, <3>10, <3>11 DEF IInv
  <2>5. CASE tried + 1 \notin conf.keys
    <3>1. UNCHANGED <<hits, pc, outcome>>
      BY <1>5, <2>5
    <3>2. Typed'
      BY <1>1, <1>5, <2>1, <2>2, <3>1 DEF IInv, Typed
    <3>3. Window'
      BY <1>1, <2>1 DEF IInv, Window, Busy
    <3>4. Placed'
      BY <1>1, <3>1 DEF Placed
    <3>5. Gathered'
      <4>1. Cardinality(1..(tried + 1)) = tried + 1
        BY <2>2, Upto
      <4>2. 1..(tried + 1) \subseteq 1..n
        BY <1>3, <2>2
      <4>3. conf.keys \cap 1..(tried + 1) = conf.keys \cap 1..tried
        BY <1>3, <2>5
      <4> QED BY <1>1, <1>2, <1>5, <2>1, <2>2, <2>3, <3>1, <4>1, <4>2, <4>3 DEF Gathered
    <3>6. Returned'
      BY <1>1, <3>1 DEF Returned
    <3> QED BY <2>1, <3>2, <3>3, <3>4, <3>5, <3>6 DEF IInv
  <2> QED BY <2>4, <2>5
<1>6. CASE tried = Len(cand)
  BY <1>2, <1>4, <1>6 DEF SerialStep, Stop
<1>7. CASE tried # Len(cand) /\ cancel /\ tried % ProgressEvery = 0
  BY <1>4, <1>7 DEF SerialStep, Stop
<1>8. CASE tried # Len(cand) /\ ~ (cancel /\ tried % ProgressEvery = 0)
  BY <1>2, <1>5, <1>8 DEF SerialStep, Stop
<1> QED BY <1>6, <1>7, <1>8

LEMMA RefillKeeps == IInv /\ Refill => IInv'
<1> SUFFICES ASSUME IInv, Refill PROVE IInv'
  OBVIOUS
<1>1. /\ pc = "refill" /\ ~draining /\ todo = {} /\ outcome = "none"
      /\ next = 1 => tried = 0
      /\ UNCHANGED <<given, cancel, broken, todo, draining, tried, hits>>
  BY DEF IInv, Typed, Placed, Refill
<1>2. PICK c \in Nat : c = ChunkCount(Len(cand)) /\ Chunks = 1..c /\ next \in 1..(c + 1)
                       /\ Cardinality(Chunks) = c
  BY Counts
<1>3. PICK w \in Nat \ {0} : w = MaxInFlight
  BY ConfType DEF IInv
<1>4. /\ inFlight \subseteq {k \in 1..c : k < next} /\ Busy \subseteq inFlight
      /\ \A k \in 1..c : fut[k] # "none" <=> k < next
      /\ Cardinality(inFlight) <= w
  BY <1>2, <1>3 DEF IInv, Window
<1>5. IsFiniteSet(inFlight)
  <2>1. IsFiniteSet(1..c) /\ inFlight \subseteq 1..c
    BY <1>4, FS_Interval
  <2> QED BY <2>1, FS_Subset
<1>6. PICK f \in Nat : f = Cardinality(inFlight) /\ f <= w
  BY <1>4, <1>5, FS_CardinalityType
<1>7. PICK last \in Int : /\ last = Min({next - 1 + w - f, c})
                          /\ last <= next - 1 + w - f /\ last <= c
                          /\ last = next - 1 + w - f \/ last = c
  <2>1. next - 1 + w - f \in Int
    BY <1>2
  <2> QED BY <2>1, MinTwo
<1>8. next - 1 <= last /\ last + 1 \in 1..(c + 1)
  BY <1>2, <1>6, <1>7
<1>9. /\ Loaded' /\ Chunks' = Chunks /\ MaxInFlight' = MaxInFlight
      /\ cand' = cand /\ conf' = conf /\ input' = input
  BY <1>1, Frame
<1>10. CASE broken /\ next..last # {}
  <2>1. /\ pc' = "leave" /\ outcome' = "failed" /\ UNCHANGED <<fut, next, inFlight>>
    BY <1>2, <1>3, <1>6, <1>7, <1>10 DEF Refill
  <2>2. /\ fut' \in [Chunks -> Future] /\ fut' = fut
        /\ cancel' \in BOOLEAN /\ broken' \in BOOLEAN
    BY <1>1, <2>1 DEF IInv, Typed
  <2> QED BY <1>1, <2>1, <2>2, Halts
<1>11. CASE ~ (broken /\ next..last # {})
  <2>1. /\ fut' = [k \in 1..c |-> IF k \in next..last THEN "queued" ELSE fut[k]]
        /\ next' = last + 1 /\ inFlight' = inFlight \cup (next..last)
        /\ pc' = "wait" /\ outcome' = outcome
    BY <1>2, <1>3, <1>6, <1>7, <1>11 DEF Refill
  <2>2. next..last \subseteq 1..c
    BY <1>2, <1>7
  <2>3. {k \in 1..c : k < last + 1} = {k \in 1..c : k < next} \cup (next..last)
    BY <1>2, <1>7, <1>8
  <2>4. {k \in 1..c : k < next} \cap (next..last) = {}
    BY <1>2
  <2>5. Walked' = Walked
    BY <1>1, <1>2, <1>4, <1>9, <2>1, <2>3, <2>4 DEF Walked
  <2>6. Tried' = Tried
    <3>1. CASE next # 1
      <4>1. next' # 1
        BY <1>2, <1>8, <2>1, <3>1
      <4> QED BY <1>9, <2>5, <3>1, <4>1 DEF Tried
    <3>2. CASE next = 1
      <4>1. Tried = {} /\ tried' = 0
        BY <1>1, <3>2 DEF Tried
      <4>2. Walked' = {}
        BY <1>2, <2>5, <3>2 DEF Walked
      <4>3. Tried' = {}
        BY <4>1, <4>2 DEF Tried, Covered
      <4> QED BY <4>1, <4>3
    <3> QED BY <3>1, <3>2
  <2>7. Gathered'
    BY <1>1, <1>9, <2>6 DEF IInv, Gathered
  <2>8. Typed'
    <3>1. fut' \in [Chunks' -> Future]
      <4>1. \A k \in 1..c : fut[k] \in Future
        BY <1>2 DEF IInv, Typed
      <4> QED BY <1>2, <1>9, <2>1, <4>1 DEF Future
    <3>2. next' \in Nat
      BY <1>8, <2>1
    <3> QED BY <1>1, <1>9, <2>1, <3>1, <3>2 DEF IInv, Typed
  <2>9. Window'
    <3>1. \A k \in 1..c : fut'[k] # "none" <=> k < next'
      BY <1>2, <1>4, <1>8, <2>1, <2>3
    <3>2. inFlight' \subseteq {k \in 1..c : k < next'}
      BY <1>4, <2>1, <2>3
    <3>3. Busy' \subseteq inFlight'
      BY <1>2, <1>4, <1>9, <2>1 DEF Busy
    <3>4. Cardinality(inFlight') <= w
      <4>1. IsFiniteSet(next..last)
            /\ Cardinality(next..last) = IF next > last THEN 0 ELSE last - next + 1
        <5>1. next \in Int /\ last \in Int
          BY <1>2
        <5> QED BY <5>1, FS_Interval
      <4>2. PICK g \in Nat : g = Cardinality(next..last) /\ g <= w - f
        <5>1. Cardinality(next..last) \in Nat /\ Cardinality(next..last) <= w - f
          BY <1>2, <1>6, <1>7, <4>1
        <5> QED BY <5>1
      <4>3. inFlight \cap (next..last) = {}
        BY <1>4, <2>4
      <4>4. Cardinality(inFlight \cup (next..last))
              = Cardinality(inFlight) + Cardinality(next..last) - Cardinality({})
        <5>1. PICK U : U = next..last
          OBVIOUS
        <5>2. IsFiniteSet(U) /\ inFlight \cap U = {}
          BY <4>1, <4>3, <5>1
        <5>3. Cardinality(inFlight \cup U)
                = Cardinality(inFlight) + Cardinality(U) - Cardinality(inFlight \cap U)
          BY <1>5, <5>2, FS_Union
        <5> QED BY <5>1, <5>2, <5>3
      <4>5. Cardinality({}) = 0
        BY FS_EmptySet
      <4>6. Cardinality(inFlight') = f + g
        BY <1>6, <2>1, <4>2, <4>4, <4>5
      <4> QED BY <4>2, <4>6
    <3>5. 1 <= next' /\ next' <= c + 1
      BY <1>8, <2>1
    <3>6. todo' = {}
      BY <1>1
    <3> QED BY <1>2, <1>3, <1>9, <3>1, <3>2, <3>3, <3>4, <3>5, <3>6 DEF Window
  <2>10. Placed'
    <3>1. inFlight' = {} => next' = c + 1
      <4> SUFFICES ASSUME inFlight' = {} PROVE last = c
        BY <2>1
      <4>1. inFlight = {} /\ next..last = {}
        BY <2>1
      <4>2. f = 0
        BY <1>6, <4>1, FS_EmptySet
      <4>3. last < next
        BY <1>2, <4>1
      <4> QED BY <1>2, <1>7, <4>2, <4>3
    <3>2. next' = 1 => tried' = 0
      <4>1. next' = 1 => next = 1
        BY <1>2, <1>8, <2>1
      <4> QED BY <1>1, <4>1
    <3> QED BY <1>1, <1>2, <1>9, <2>1, <3>1, <3>2 DEF Placed
  <2>11. Returned'
    BY <1>1, <2>1 DEF Returned
  <2> QED BY <1>9, <2>7, <2>8, <2>9, <2>10, <2>11 DEF IInv
<1> QED BY <1>10, <1>11

LEMMA WalkKeeps == ASSUME IInv, NEW k \in todo, Walk(k) PROVE IInv'
<1>1. /\ pc = "walk" /\ outcome = "none" /\ outcome' = outcome
      /\ todo' = todo \ {k} /\ tried' = tried + Cardinality(Members(k))
      /\ hits' = hits \o Accepted(k)
      /\ draining' = (draining \/ (~conf.exhaustive /\ Members(k) \cap conf.keys # {}))
      /\ pc' = IF todo' # {} THEN "walk" ELSE IF draining' THEN "wait" ELSE "refill"
      /\ UNCHANGED <<given, cancel, fut, broken, next, inFlight>>
  BY DEF IInv, Typed, Placed, Walk, pool
<1>2. PICK n \in Nat : n = Len(cand)
  BY Counts
<1>3. PICK c \in Nat : c = ChunkCount(n) /\ Chunks = 1..c /\ next \in 1..(c + 1)
  BY <1>2, Counts
<1>4. /\ Loaded' /\ Chunks' = Chunks /\ MaxInFlight' = MaxInFlight
      /\ cand' = cand /\ conf' = conf /\ input' = input
  BY <1>1, Frame
<1>5. /\ inFlight \subseteq {j \in 1..c : j < next} /\ todo \subseteq {j \in 1..c : j < next} \ inFlight
  BY <1>3 DEF IInv, Window
<1>6. k \in 1..c /\ k < next /\ next # 1
  BY <1>3, <1>5
<1>7. Walked \subseteq 1..c /\ k \notin Walked /\ Walked' = Walked \cup {k}
  BY <1>1, <1>3, <1>4, <1>5, <1>6 DEF Walked
<1>8. Tried = Covered(n, Walked) /\ Tried' = Covered(n, Walked \cup {k})
  BY <1>1, <1>2, <1>4, <1>6, <1>7 DEF Tried
<1>9. /\ Tried' = Tried \cup Part(n, k) /\ Tried \cap Part(n, k) = {}
      /\ Cardinality(Tried') = Cardinality(Tried) + Cardinality(Part(n, k))
  <2>1. PICK K \in SUBSET (1..c) : K = Walked /\ k \in (1..c) \ K
    BY <1>6, <1>7
  <2> QED BY <1>3, <1>8, <2>1, CoveredAdds
<1>10. Members(k) = Part(n, k) /\ Accepted(k) = Verified(n, k, conf.keys)
  BY <1>2, ChunksAre
<1>11. PICK keys \in SUBSET (1..n) : keys = conf.keys
  BY <1>2, ConfType DEF IInv
<1>12. PICK T : T = 1..n
  OBVIOUS
<1>13. PICK r \in Seq(T) : /\ r = Accepted(k) /\ ToSet(r) = Part(n, k) \cap keys
                           /\ IsInjective(r)
  BY <1>3, <1>6, <1>10, <1>11, <1>12, VerifiedFacts
<1>14. PICK q \in Seq(T) : /\ q = hits /\ ToSet(q) = keys \cap Tried /\ IsInjective(q)
  BY <1>2, <1>11, <1>12 DEF IInv, Typed, Gathered
<1>15. ToSet(q) \cap ToSet(r) = {} /\ IsInjective(q) /\ IsInjective(r)
  BY <1>9, <1>13, <1>14
<1>16. q \o r \in Seq(T) /\ ToSet(q \o r) = ToSet(q) \cup ToSet(r) /\ IsInjective(q \o r)
  BY <1>15, ConcatHits
<1>17. hits' = q \o r
  BY <1>1, <1>13, <1>14
<1>18. draining' => ~conf.exhaustive /\ hits' # <<>>
  <2> SUFFICES ASSUME draining' PROVE ~conf.exhaustive /\ ToSet(hits') # {}
    BY DEF ToSet
  <2>1. CASE draining
    <3>1. ~conf.exhaustive /\ hits # <<>>
      BY <2>1 DEF IInv, Gathered
    <3>2. ToSet(q) # {}
      <4>1. Len(q) \in Nat /\ DOMAIN q = 1..Len(q)
        BY LenProperties
      <4>2. Len(q) # 0
        BY <1>14, <3>1, EmptySeq
      <4>3. 1 \in DOMAIN q
        BY <4>1, <4>2
      <4> QED BY <4>3 DEF ToSet
    <3> QED BY <1>16, <1>17, <3>1, <3>2
  <2>2. CASE ~conf.exhaustive /\ Members(k) \cap conf.keys # {}
    BY <1>10, <1>11, <1>13, <1>16, <1>17, <2>2
  <2> QED BY <1>1, <2>1, <2>2
<1>19. Gathered'
  <2>1. PICK t \in Nat : t = tried /\ t = Cardinality(Tried)
    BY DEF IInv, Typed, Gathered
  <2>2. PICK m \in Nat : m = Cardinality(Part(n, k))
    BY <1>3, <1>6, PartFacts
  <2>3. Cardinality(Tried') = tried'
    BY <1>1, <1>9, <1>10, <2>1, <2>2
  <2>4. Tried' \subseteq 1..Len(cand')
    BY <1>2, <1>4, <1>8 DEF Covered
  <2>5. ToSet(hits') = conf'.keys \cap Tried' /\ IsInjective(hits')
    BY <1>4, <1>9, <1>11, <1>13, <1>14, <1>16, <1>17
  <2>6. draining' => ~conf'.exhaustive /\ hits' # <<>>
    BY <1>4, <1>18
  <2> QED BY <2>3, <2>4, <2>5, <2>6 DEF Gathered
<1>20. Typed'
  <2>1. tried' \in Nat
    <3>1. tried \in Nat /\ Cardinality(Part(n, k)) \in Nat
      BY <1>3, <1>6, PartFacts DEF IInv, Typed
    <3> QED BY <1>1, <1>10, <3>1
  <2>2. hits' \in Seq(1..Len(cand'))
    BY <1>2, <1>4, <1>12, <1>16, <1>17
  <2>3. draining' \in BOOLEAN /\ pc' \in {"walk", "wait", "refill"}
    BY <1>1
  <2> QED BY <1>1, <1>4, <2>1, <2>2, <2>3 DEF IInv, Typed
<1>21. Window'
  <2>1. todo' \subseteq {j \in Chunks : j < next} \ inFlight
    BY <1>1, <1>3, <1>5
  <2> QED BY <1>1, <1>4, <2>1 DEF IInv, Window, Busy
<1>22. Placed'
  <2>1. pc' \in {"walk", "wait", "refill"} /\ next' # 1 /\ outcome' = "none"
    BY <1>1, <1>6
  <2>2. pc' = "refill" => ~draining' /\ todo' = {}
    BY <1>1
  <2>3. pc' = "wait" => draining' /\ todo' = {}
    BY <1>1
  <2> QED BY <2>1, <2>2, <2>3 DEF Placed
<1>23. Returned'
  BY <1>1 DEF Returned
<1> QED BY <1>4, <1>19, <1>20, <1>21, <1>22, <1>23 DEF IInv

LEMMA StutterKeeps == IInv /\ UNCHANGED vars => IInv'
<1> SUFFICES ASSUME IInv, UNCHANGED vars PROVE IInv'
  OBVIOUS
<1>1. UNCHANGED <<given, pc, cancel, next, inFlight, todo, draining, tried, hits, outcome>>
  BY DEF vars
<1>2. broken' \in BOOLEAN /\ fut' = fut /\ fut' \in [Chunks -> Future]
  BY DEF IInv, Typed, vars, pool
<1> QED BY <1>1, <1>2, WorkersKeep

LEMMA Preserved == IInv /\ [Next]_vars => IInv'
<1> SUFFICES ASSUME IInv, [Next]_vars PROVE IInv'
  OBVIOUS
<1>1. CASE \E jobs \in JobSettings, exhaustive \in BOOLEAN : Start(jobs, exhaustive)
  BY <1>1, StartKeeps
<1>2. CASE Refused
  BY <1>2, RefusedKeeps
<1>3. CASE SetCancel
  BY <1>3, SetCancelKeeps
<1>4. CASE Main
  BY <1>4, SerialKeeps, RefillKeeps, WaitKeeps, FinishKeeps, LeaveKeeps, CancelledKeeps, WalkKeeps
     DEF Main
<1>5. CASE WorkerDies
  BY <1>5, WorkerDiesKeeps
<1>6. CASE \E k \in Chunks : Begin(k) \/ Complete(k)
  BY <1>6, WorkKeeps
<1>7. CASE UNCHANGED vars
  BY <1>7, StutterKeeps
<1> QED BY <1>1, <1>2, <1>3, <1>4, <1>5, <1>6, <1>7 DEF Next
-----------------------------------------------------------------------------
THEOREM Invariance == Spec => []IInv
BY First, Preserved, PTL DEF Spec

(* Every variable keeps to its type; what was pulled off the generator is  *)
(* a prefix, and no more workers are busy than the window allows.          *)
THEOREM TypeCorrect == Spec => []TypeOK
<1>1. IInv => TypeOK
  <2> SUFFICES ASSUME IInv PROVE TypeOK
    OBVIOUS
  <2>1. PICK n \in Nat : n = Len(cand)
    BY Counts
  <2>2. tried \in 0..n
    <3>1. Tried \subseteq 1..n /\ Cardinality(Tried) = tried /\ tried \in Nat
      BY <2>1 DEF IInv, Typed, Gathered
    <3>2. Cardinality(Tried) <= Cardinality(1..n) /\ Cardinality(1..n) = n
      BY <3>1, Upto, FS_Subset
    <3> QED BY <3>1, <3>2
  <2>3. Cardinality(Busy) <= MaxInFlight
    <3>1. PICK c \in Nat : Chunks = 1..c
      BY Counts
    <3>2. inFlight \subseteq 1..c /\ Busy \subseteq inFlight
      BY <3>1 DEF IInv, Window
    <3>3. IsFiniteSet(inFlight)
      BY <3>2, Upto, FS_Subset
    <3>4. PICK f \in Nat : f = Cardinality(inFlight)
      BY <3>3, FS_CardinalityType
    <3>5. PICK b \in Nat : b = Cardinality(Busy) /\ b <= f
      <4>1. IsFiniteSet(Busy) /\ Cardinality(Busy) <= Cardinality(inFlight)
        BY <3>2, <3>3, FS_Subset
      <4> QED BY <3>4, <4>1, FS_CardinalityType
    <3>6. PICK w \in Nat : w = MaxInFlight
      BY ConfType DEF IInv
    <3>7. f <= w
      BY <3>4, <3>6 DEF IInv, Window
    <3> QED BY <3>5, <3>6, <3>7
  <2>4. /\ \A k \in Chunks : fut[k] # "none" <=> k < next
        /\ inFlight \subseteq Chunks /\ todo \subseteq Chunks \ inFlight
    BY DEF IInv, Window
  <2> QED BY <2>1, <2>2, <2>3, <2>4 DEF IInv, Typed, TypeOK, Busy, Future
<1> QED BY <1>1, Invariance, PTL

(* The closed form is the length of the grid; and a search that returns    *)
(* without a hit, or an exhaustive one, has tried every candidate, and its *)
(* hits are all that the oracle accepts, each once.                        *)
THEOREM SkipsNothing == Spec => []NothingSkipped
<1>1. IInv => NothingSkipped
  <2> SUFFICES ASSUME IInv PROVE NothingSkipped
    OBVIOUS
  <2>1. Count(input) = Len(Grid(input))
    BY GridCounted DEF IInv, Typed
  <2>2. ASSUME outcome = "returned", conf.exhaustive \/ hits = <<>>
        PROVE  /\ tried = total /\ total = Len(cand)
               /\ Len(hits) = Cardinality(conf.keys) /\ ToSet(hits) = conf.keys
    <3>1. PICK n \in Nat : n = Len(cand)
      BY Counts
    <3>2. Tried = 1..n /\ total = n
      BY <2>2, <3>1 DEF IInv, Loaded, Returned
    <3>3. tried = n
      BY <3>2, Upto DEF IInv, Gathered
    <3>4. /\ ToSet(hits) = conf.keys /\ IsInjective(hits) /\ hits \in Seq(1..n)
      BY <3>1, <3>2, ConfType DEF IInv, Typed, Gathered
    <3>5. Cardinality(conf.keys) = Len(hits)
      BY <3>4, HitsCounted
    <3> QED BY <3>1, <3>2, <3>3, <3>4, <3>5
  <2> QED BY <2>1, <2>2 DEF NothingSkipped
<1> QED BY <1>1, Invariance, PTL

(* A search over regions in order that returns anchors the plugin on the   *)
(* offset of the first candidate that the oracle accepts, whichever worker *)
(* was first.                                                              *)
THEOREM BestIsSerial == Spec => []BestHitIsSerial
<1>1. IInv => BestHitIsSerial
  <2> SUFFICES ASSUME IInv, outcome = "returned", conf.keys # {}, ByOffset
               PROVE  hits # <<>> /\ cand[Anchor].offset = cand[Min(conf.keys)].offset
    BY DEF BestHitIsSerial
  <2>1. PICK n \in Nat : n = Len(cand)
    BY Counts
  <2>2. PICK keys \in SUBSET (1..n) : keys = conf.keys
    BY <2>1, ConfType DEF IInv
  <2>3. PICK S : S = ToSet(hits)
    OBVIOUS
  <2>4. S = keys \cap Tried
    BY <2>2, <2>3 DEF IInv, Gathered
  <2>5. S # {}
    <3>1. CASE Tried = 1..n
      BY <2>2, <2>4, <3>1
    <3>2. CASE hits # <<>>
      <4>1. hits \in Seq(1..n)
        BY <2>1 DEF IInv, Typed
      <4>2. Len(hits) \in Nat /\ Len(hits) # 0 /\ DOMAIN hits = 1..Len(hits)
        BY <3>2, <4>1, LenProperties, EmptySeq
      <4>3. 1 \in DOMAIN hits
        BY <4>2
      <4> QED BY <2>3, <4>3 DEF ToSet
    <3> QED BY <2>1, <3>1, <3>2 DEF IInv, Returned
  <2>6. PICK m \in 1..n : /\ m = Min(keys) /\ m \in keys /\ \A x \in keys : m <= x
    <3>1. keys \in SUBSET Nat /\ keys # {}
      BY <2>2
    <3> QED BY <2>2, <3>1, MinOfNaturals
  <2>7. m \in S
    <3>1. PICK x \in S : x \in keys /\ x \in Tried /\ x \in 1..n
      BY <2>2, <2>4, <2>5
    <3>2. m \in 1..x
      BY <2>6, <3>1
    <3>3. Prefix(Tried)
      BY DEF IInv, Returned
    <3> QED BY <2>4, <2>6, <3>1, <3>2, <3>3 DEF Prefix
  <2>8. cand \in Seq(Candidate) /\ Sorted(cand)
    BY DEF IInv, Loaded
  <2>9. PICK h \in S : h = Anchor /\ \A g \in S : ~ Before(cand[g], cand[h])
    <3>1. \E h \in S : \A g \in S : ~ Before(cand[g], cand[h])
      BY <2>1, <2>2, <2>4, <2>5, <2>8, FirstHit
    <3> QED BY <2>3, <3>1 DEF Anchor
  <2>10. h \in 1..n /\ m <= h /\ m \in DOMAIN cand /\ h \in DOMAIN cand
    BY <2>1, <2>2, <2>4, <2>6, <2>8, <2>9, LenProperties
  <2>11. PICK a \in Nat, b \in Nat : a = cand[h].offset /\ b = cand[m].offset
    <3>1. DOMAIN cand = 1..Len(cand) /\ \A i \in 1..Len(cand) : cand[i] \in Candidate
      BY <2>8, LenProperties
    <3>2. cand[h] \in Candidate /\ cand[m] \in Candidate
      BY <2>10, <3>1
    <3> QED BY <3>2 DEF Candidate
  <2>12. b <= a
    BY <2>8, <2>10, <2>11 DEF Sorted
  <2>13. ~ (b < a)
    BY <2>7, <2>9, <2>11 DEF Before
  <2>14. hits # <<>>
    BY <2>3, <2>5 DEF ToSet
  <2> QED BY <2>2, <2>6, <2>9, <2>11, <2>12, <2>13, <2>14
<1> QED BY <1>1, Invariance, PTL
=============================================================================
