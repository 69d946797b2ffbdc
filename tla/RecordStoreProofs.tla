-------------------------- MODULE RecordStoreProofs --------------------------
(***************************************************************************)
(* Proofs about RecordStore, for every number of captures, calls and       *)
(* processes and any batches.                                              *)
(*                                                                         *)
(* IInv is the inductive invariant.  Of a file (Files) it says what        *)
(* IdsUnique and ParentsFirst say, and that no line is left open where no  *)
(* write was cut short.  Of a call it says where its locks, its place in   *)
(* the batch and the files it still has to write are (Locked, Placed);     *)
(* that what it has checked is still so of the files it has not written    *)
(* (Checked: the calls of its process are kept out by the locks, those of  *)
(* other processes only add to a file, or spoil its last line); and which  *)
(* lines of its own are in the files (Written).                            *)
(*                                                                         *)
(* A write that is cut short is the same step as one that is not, of text  *)
(* that resembles the lines (FileWritten).                                 *)
(***************************************************************************)
EXTENDS RecordStore, Induction, SequenceTheorems

(* What is kept of f \o ls, up to the end of f, is what is kept of f.       *)
LEMMA KeepConcat ==
  ASSUME NEW T, NEW f \in Seq(T), NEW ls \in Seq(T), NEW S, NEW U,
         \A i \in 1..Len(f) : f[i] \in U <=> f[i] \in S
  PROVE  \A n \in 0..Len(f) : Keep(f \o ls, U)[n] = Keep(f, S)[n]
<1> DEFINE s == f \o ls
           N == {n \in Nat : n <= Len(f) => Keep(s, U)[n] = Keep(f, S)[n]}
<1>1. /\ s \in Seq(T) /\ Len(f) \in Nat /\ Len(ls) \in Nat /\ Len(s) = Len(f) + Len(ls)
      /\ \A i \in 1..Len(f) : s[i] = f[i]
  OBVIOUS
<1> HIDE DEF s
<1>2. 0 \in N
  <2>1. Keep(s, U)[0] = <<>>
    BY <1>1, KeepRecursion
  <2>2. Keep(f, S)[0] = <<>>
    BY KeepRecursion
  <2> QED BY <2>1, <2>2
<1>3. \A n \in Nat : n \in N => n + 1 \in N
  <2> SUFFICES ASSUME NEW n \in Nat, n + 1 <= Len(f), Keep(s, U)[n] = Keep(f, S)[n]
               PROVE  Keep(s, U)[n + 1] = Keep(f, S)[n + 1]
    OBVIOUS
  <2>1. n + 1 \in 1..Len(f) /\ n + 1 \in 1..Len(s) /\ (n + 1) - 1 = n
    BY <1>1
  <2>2. Keep(s, U)[n + 1] = IF s[n + 1] \in U THEN Append(Keep(s, U)[n], s[n + 1])
                            ELSE Keep(s, U)[n]
    BY <1>1, <2>1, KeepRecursion
  <2>3. Keep(f, S)[n + 1] = IF f[n + 1] \in S THEN Append(Keep(f, S)[n], f[n + 1])
                            ELSE Keep(f, S)[n]
    BY <2>1, KeepRecursion
  <2> QED BY <1>1, <2>1, <2>2, <2>3
<1>4. Nat \subseteq N
  <2> HIDE DEF N
  <2> QED BY <1>2, <1>3, Naturals
<1> QED BY <1>1, <1>4 DEF s

(* Of what is appended nothing is wanted: what is kept stays.              *)
LEMMA OnlyOld ==
  ASSUME NEW T, NEW f \in Seq(T), NEW ls \in Seq(T), NEW S, NEW U,
         \A i \in 1..Len(f) : f[i] \in U <=> f[i] \in S,
         \A i \in 1..Len(ls) : ls[i] \notin U
  PROVE  Only(f \o ls, U) = Only(f, S)
<1> DEFINE s == f \o ls
           m == Len(f)
           N == {n \in Nat : n <= Len(ls) => Keep(s, U)[m + n] = Keep(f, S)[m]}
<1>1. /\ s \in Seq(T) /\ m \in Nat /\ Len(ls) \in Nat /\ Len(s) = m + Len(ls)
      /\ \A i \in 1..Len(ls) : s[m + i] = ls[i]
  OBVIOUS
<1>2. Keep(s, U)[m] = Keep(f, S)[m]
  BY KeepConcat
<1> HIDE DEF s, m
<1>0. \A n \in 1..Len(s) : Keep(s, U)[n] = IF s[n] \in U THEN Append(Keep(s, U)[n - 1], s[n])
                                           ELSE Keep(s, U)[n - 1]
  <2>1. s \in Seq(T)
    BY <1>1
  <2> QED BY <2>1, KeepRecursion
<1>3. 0 \in N
  BY <1>1, <1>2
<1>4. \A n \in Nat : n \in N => n + 1 \in N
  <2> SUFFICES ASSUME NEW n \in Nat, n + 1 <= Len(ls), Keep(s, U)[m + n] = Keep(f, S)[m]
               PROVE  Keep(s, U)[m + (n + 1)] = Keep(f, S)[m]
    OBVIOUS
  <2>1. n + 1 \in 1..Len(ls) /\ m + (n + 1) \in 1..Len(s) /\ (m + (n + 1)) - 1 = m + n
    BY <1>1
  <2>2. s[m + (n + 1)] \notin U
    BY <1>1, <2>1
  <2>3. Keep(s, U)[m + (n + 1)] = Keep(s, U)[m + n]
    BY <1>0, <2>1, <2>2
  <2> QED BY <2>3
<1>5. Len(ls) \in N
  <2> HIDE DEF N
  <2> QED BY <1>1, <1>3, <1>4, Naturals
<1>6. Keep(s, U)[Len(s)] = Keep(f, S)[m]
  BY <1>1, <1>5
<1>7. Only(s, U) = Keep(s, U)[Len(s)]
  BY <1>1, KeepRecursion
<1>8. Only(f, S) = Keep(f, S)[m]
  BY KeepRecursion DEF m
<1> QED BY <1>6, <1>7, <1>8 DEF s

(* Nothing was wanted before, all of what is appended is.                  *)
LEMMA OnlyNew ==
  ASSUME NEW T, NEW f \in Seq(T), NEW ls \in Seq(T), NEW U,
         \A i \in 1..Len(f) : f[i] \notin U,
         \A i \in 1..Len(ls) : ls[i] \in U
  PROVE  Only(f \o ls, U) = ls
<1> DEFINE s == f \o ls
           m == Len(f)
           Is(q, n) == /\ q \in Seq(T) /\ Len(q) = n
                       /\ \A i \in 1..n : q[i] = ls[i]
           N == {n \in Nat : n <= Len(ls) => Is(Keep(s, U)[m + n], n)}
           Z == {n \in Nat : n <= m => Keep(s, U)[n] = <<>>}
<1>1. /\ s \in Seq(T) /\ m \in Nat /\ Len(ls) \in Nat /\ Len(s) = m + Len(ls)
      /\ \A i \in 1..Len(ls) : s[m + i] = ls[i]
      /\ \A i \in 1..m : s[i] = f[i]
  OBVIOUS
<1> HIDE DEF s
<1>0. \A n \in 1..Len(s) : Keep(s, U)[n] = IF s[n] \in U THEN Append(Keep(s, U)[n - 1], s[n])
                                           ELSE Keep(s, U)[n - 1]
  <2>1. s \in Seq(T)
    BY <1>1
  <2> QED BY <2>1, KeepRecursion
<1>2. Keep(s, U)[m] = <<>>
  <2>1. 0 \in Z
    BY <1>1, KeepRecursion
  <2>2. \A n \in Nat : n \in Z => n + 1 \in Z
    <3> SUFFICES ASSUME NEW n \in Nat, n + 1 <= m, Keep(s, U)[n] = <<>>
                 PROVE  Keep(s, U)[n + 1] = <<>>
      BY <1>1
    <3>1. n + 1 \in 1..m /\ n + 1 \in 1..Len(s) /\ (n + 1) - 1 = n
      BY <1>1
    <3>2. s[n + 1] \notin U
      BY <1>1, <3>1
    <3> QED BY <1>0, <3>1, <3>2
  <2> HIDE DEF Z
  <2>3. m \in Z
    BY <1>1, <2>1, <2>2, Naturals
  <2> QED BY <1>1, <2>3 DEF Z
<1>3. 0 \in N
  <2>1. m + 0 = m
    BY <1>1
  <2>2. Is(<<>>, 0)
    OBVIOUS
  <2> HIDE DEF Is, m
  <2> QED BY <1>2, <2>1, <2>2
<1> HIDE DEF m
<1>4. \A n \in Nat : n \in N => n + 1 \in N
  <2> SUFFICES ASSUME NEW n \in Nat, n + 1 <= Len(ls), Is(Keep(s, U)[m + n], n)
               PROVE  Is(Keep(s, U)[m + (n + 1)], n + 1)
    <3> HIDE DEF Is
    <3> QED OBVIOUS
  <2>1. n + 1 \in 1..Len(ls) /\ m + (n + 1) \in 1..Len(s) /\ (m + (n + 1)) - 1 = m + n
    BY <1>1
  <2>2. s[m + (n + 1)] = ls[n + 1] /\ ls[n + 1] \in U /\ ls[n + 1] \in T
    BY <1>1, <2>1, ElementOfSeq
  <2>3. PICK q : q = Keep(s, U)[m + n]
    OBVIOUS
  <2>4. Keep(s, U)[m + (n + 1)] = Append(q, ls[n + 1])
    BY <1>0, <2>1, <2>2, <2>3
  <2>5. q \in Seq(T) /\ Len(q) = n /\ \A i \in 1..n : q[i] = ls[i]
    BY <2>3
  <2>6. /\ Append(q, ls[n + 1]) \in Seq(T) /\ Len(Append(q, ls[n + 1])) = n + 1
        /\ \A i \in 1..n : Append(q, ls[n + 1])[i] = q[i]
        /\ Append(q, ls[n + 1])[n + 1] = ls[n + 1]
    BY <2>2, <2>5
  <2>7. \A i \in 1..(n + 1) : i = n + 1 \/ i \in 1..n
    OBVIOUS
  <2> QED BY <2>4, <2>5, <2>6, <2>7
<1>5. Len(ls) \in N
  <2> HIDE DEF N
  <2> QED BY <1>1, <1>3, <1>4, Naturals
<1>6. Is(Keep(s, U)[Len(s)], Len(ls))
  BY <1>1, <1>5
<1>7. Only(s, U) = Keep(s, U)[Len(s)]
  BY <1>1, KeepRecursion
<1> QED BY <1>6, <1>7, SeqEqual DEF s
(* What a call is given: entries, of which the capture may be invalid.     *)
Asked == [id : Id, capture : Capture \cup {Invalid}, supersedes : Id \cup {None}]

LEMMA BatchTyped ==
  \A b \in Batches \cup {<<>>} : b \in Seq(Asked)
<1> TAKE b \in Batches \cup {<<>>}
<1>1. CASE b \in Batches
  <2>1. b \in Seq([id : Id, capture : Capture \cup {Invalid}, supersedes : Id \cup {None}])
    BY <1>1, RecordAssumption, Zenon
  <2> QED BY <2>1 DEF Asked
<1>2. CASE b = <<>>
  BY <1>2
<1> QED BY <1>1, <1>2

(* The captures a call takes the locks of exist.                           *)
LEMMA ValidPrefix ==
  ASSUME NEW b \in Seq(Asked)
  PROVE  /\ Valid(b) \in Seq(Asked)
         /\ \A i \in 1..Len(Valid(b)) : Valid(b)[i].capture \in Capture
<1>1. Len(b) \in Nat /\ DOMAIN b = 1..Len(b) /\ \A i \in 1..Len(b) : b[i] \in Asked
  BY LenProperties, ElementOfSeq
<1>2. \A i \in 1..Len(b) : b[i].capture = Invalid \/ b[i].capture \in Capture
  BY <1>1 DEF Asked
<1>3. CASE ~ \E i \in DOMAIN b : b[i].capture = Invalid
  <2>1. Valid(b) = b
    BY <1>3 DEF Valid
  <2> QED BY <1>1, <1>2, <1>3, <2>1
<1>4. CASE \E i \in DOMAIN b : b[i].capture = Invalid
  <2> DEFINE T == {i \in 1..Len(b) : b[i].capture = Invalid}
             First(i) == b[i].capture = Invalid /\ \A j \in 1..i - 1 : b[j].capture # Invalid
             k == CHOOSE i \in DOMAIN b : First(i)
  <2>1. PICK n \in T : \A m \in T : n <= m
    <3>1. T # {} /\ T \in SUBSET Nat
      BY <1>1, <1>4
    <3> QED BY <3>1, Least
  <2>2. First(n)
    <3> SUFFICES ASSUME NEW j \in 1..n - 1 PROVE b[j].capture # Invalid
      BY <2>1
    <3>1. j \in 1..Len(b) /\ ~ (n <= j)
      BY <1>1, <2>1
    <3> QED BY <2>1, <3>1
  <2>3. k \in 1..Len(b) /\ First(k)
    <3>1. n \in DOMAIN b
      BY <1>1, <2>1
    <3> HIDE DEF First
    <3> QED BY <1>1, <2>2, <3>1
  <2>4. Valid(b) = SubSeq(b, 1, k - 1)
    BY <1>4 DEF Valid
  <2> HIDE DEF k
  <2>5. k - 1 \in Nat /\ 1..(k - 1) \subseteq 1..Len(b)
    BY <1>1, <2>3
  <2>6. /\ SubSeq(b, 1, k - 1) \in Seq(Asked)
        /\ Len(SubSeq(b, 1, k - 1)) = k - 1
        /\ \A i \in 1..(k - 1) : SubSeq(b, 1, k - 1)[i] = b[i]
    BY <1>1, <2>5
  <2> QED BY <1>2, <2>3, <2>4, <2>5, <2>6
<1> QED BY <1>3, <1>4

LEMMA PathsFacts ==
  ASSUME NEW b \in Seq(Asked)
  PROVE  /\ PathsOf(b) = {Valid(b)[i].capture : i \in 1..Len(Valid(b))}
         /\ PathsOf(b) \subseteq Capture
         /\ Len(Valid(b)) \in Nat
         /\ PathsOf(b) # {} => Len(Valid(b)) >= 1
<1>1. Len(Valid(b)) \in Nat /\ DOMAIN Valid(b) = 1..Len(Valid(b))
  BY ValidPrefix, LenProperties
<1>2. PathsOf(b) = {Valid(b)[i].capture : i \in 1..Len(Valid(b))}
  BY <1>1 DEF PathsOf
<1>3. PathsOf(b) \subseteq Capture
  BY <1>2, ValidPrefix
<1>4. PathsOf(b) # {} => Len(Valid(b)) >= 1
  BY <1>1, <1>2
<1> QED BY <1>1, <1>2, <1>3, <1>4

(* _grouped names every capture of the batch, each one once.               *)
LEMMA OrderFacts ==
  ASSUME NEW b \in Seq(Asked), \A i \in 1..Len(b) : b[i].capture \in Capture
  PROVE  /\ Order(b) \in Seq(Capture)
         /\ \A i, j \in 1..Len(Order(b)) : i # j => Order(b)[i] # Order(b)[j]
         /\ \A i \in 1..Len(b) : \E k \in 1..Len(Order(b)) : Order(b)[k] = b[i].capture
         /\ \A k \in 1..Len(Order(b)) : \E i \in 1..Len(b) : Order(b)[k] = b[i].capture
<1> DEFINE s == [i \in DOMAIN b |->
                   IF \E j \in 1..i - 1 : b[j].capture = b[i].capture THEN Invalid
                   ELSE b[i].capture]
           o == Order(b)
<1>1. Len(b) \in Nat /\ DOMAIN b = 1..Len(b)
  BY LenProperties
<1>2. \A i \in 1..Len(b) :
        s[i] = IF \E j \in 1..i - 1 : b[j].capture = b[i].capture THEN Invalid
               ELSE b[i].capture
  BY <1>1
<1>3. s \in Seq(Capture \cup {Invalid}) /\ Len(s) = Len(b)
  BY <1>1
<1>4. o = Only(s, Capture)
  BY DEF Order
<1> HIDE DEF s, o
<1>5. o \in Seq(Capture)
  <2>1. o \in Seq((Capture \cup {Invalid}) \cap Capture)
    BY <1>3, <1>4, OnlyPlaced
  <2>2. (Capture \cup {Invalid}) \cap Capture = Capture
    OBVIOUS
  <2> QED BY <2>1, <2>2
<1>6. PICK g : Places(s, Capture, Len(s), o, g)
  BY <1>3, <1>4, OnlyPlaced
<1>7. /\ \A k \in 1..Len(o) : g[k] \in 1..Len(b) /\ o[k] = s[g[k]] /\ s[g[k]] \in Capture
      /\ \A i, j \in 1..Len(o) : i < j => g[i] < g[j]
      /\ \A k \in 1..Len(b) : s[k] \in Capture => \E i \in 1..Len(o) : g[i] = k
  BY <1>3, <1>6 DEF Places
<1>8. \A k \in 1..Len(b) : s[k] \in Capture =>
        s[k] = b[k].capture /\ \A j \in 1..k - 1 : b[j].capture # b[k].capture
  BY <1>2, RecordAssumption
<1>9. \A i, j \in 1..Len(o) : i < j => o[i] # o[j]
  <2> SUFFICES ASSUME NEW i \in 1..Len(o), NEW j \in 1..Len(o), i < j PROVE o[i] # o[j]
    OBVIOUS
  <2>1. g[i] \in 1..Len(b) /\ g[j] \in 1..Len(b) /\ g[i] < g[j]
    BY <1>7
  <2>2. g[i] \in 1..g[j] - 1
    BY <1>1, <2>1
  <2>3. b[g[i]].capture # b[g[j]].capture
    BY <1>7, <1>8, <2>1, <2>2
  <2> QED BY <1>7, <1>8, <2>1, <2>3
<1>10. \A i, j \in 1..Len(o) : i # j => o[i] # o[j]
  <2>1. Len(o) \in Nat
    BY <1>5, LenProperties
  <2> SUFFICES ASSUME NEW i \in 1..Len(o), NEW j \in 1..Len(o), i # j PROVE o[i] # o[j]
    OBVIOUS
  <2>2. i < j \/ j < i
    BY <2>1
  <2> QED BY <1>9, <2>2
<1>11. \A i \in 1..Len(b) : \E k \in 1..Len(o) : o[k] = b[i].capture
  <2> SUFFICES ASSUME NEW i \in 1..Len(b) PROVE \E k \in 1..Len(o) : o[k] = b[i].capture
    OBVIOUS
  <2> DEFINE T == {n \in 1..Len(b) : b[n].capture = b[i].capture}
  <2>1. PICK n \in T : \A m \in T : n <= m
    <3>1. T # {} /\ T \in SUBSET Nat
      BY <1>1
    <3> QED BY <3>1, Least
  <2>2. \A j \in 1..n - 1 : b[j].capture # b[n].capture
    <3> TAKE j \in 1..n - 1
    <3>1. j \in 1..Len(b) /\ ~ (n <= j)
      BY <1>1, <2>1
    <3> QED BY <2>1, <3>1
  <2>3. s[n] = b[i].capture
    BY <1>2, <2>1, <2>2
  <2>4. PICK k \in 1..Len(o) : g[k] = n
    BY <1>7, <2>1, <2>3
  <2> QED BY <1>7, <2>3, <2>4
<1>12. \A k \in 1..Len(o) : \E i \in 1..Len(b) : o[k] = b[i].capture
  BY <1>7, <1>8
<1> QED BY <1>5, <1>10, <1>11, <1>12 DEF o

(* The lines of a capture are the entries of the batch for it, in order.   *)
LinesOf(w, b, c) ==
  LET group == Only(b, {e \in ToSet(b) : e.capture = c})
  IN [i \in DOMAIN group |-> Entry(w, group[i])]
Taken(w, b, c, ls, g) ==
  /\ ls \in Seq(Line)
  /\ g \in [1..Len(ls) -> 1..Len(b)]
  /\ \A i \in 1..Len(ls) : ls[i] = Entry(w, b[g[i]]) /\ b[g[i]].capture = c
  /\ \A i, j \in 1..Len(ls) : i < j => g[i] < g[j]
  /\ \A k \in 1..Len(b) : b[k].capture = c => \E i \in 1..Len(ls) : g[i] = k

LEMMA LinesTaken ==
  ASSUME NEW w \in Writer, NEW b \in Seq(Asked), NEW c
  PROVE  \E g : Taken(w, b, c, LinesOf(w, b, c), g)
<1> DEFINE S == {e \in ToSet(b) : e.capture = c}
           q == Only(b, S)
           ls == LinesOf(w, b, c)
<1>1. Len(b) \in Nat /\ DOMAIN b = 1..Len(b) /\ \A i \in 1..Len(b) : b[i] \in Asked
  BY LenProperties, ElementOfSeq
<1>2. \A i \in 1..Len(b) : b[i] \in S <=> b[i].capture = c
  BY <1>1 DEF ToSet
<1> HIDE DEF S
<1>3. q \in Seq(Asked \cap S)
  BY OnlyPlaced
<1>4. PICK g : Places(b, S, Len(b), q, g)
  BY OnlyPlaced
<1>5. ls = [i \in DOMAIN q |-> Entry(w, q[i])]
  BY DEF LinesOf, S
<1> HIDE DEF q, ls
<1>6. Len(q) \in Nat /\ DOMAIN q = 1..Len(q)
  BY <1>3, LenProperties
<1>7. \A i \in 1..Len(q) : Entry(w, q[i]) \in Line
  <2> TAKE i \in 1..Len(q)
  <2>1. q[i] \in Asked
    BY <1>3, ElementOfSeq
  <2> QED BY <2>1 DEF Asked, Entry, Line
<1>8. /\ ls \in Seq(Line) /\ Len(ls) = Len(q)
      /\ \A i \in 1..Len(q) : ls[i] = Entry(w, q[i])
  <2> HIDE DEF Line, Entry
  <2> QED BY <1>5, <1>6, <1>7
<1>9. /\ g \in [1..Len(q) -> 1..Len(b)]
      /\ \A i \in 1..Len(q) : q[i] = b[g[i]] /\ b[g[i]] \in S
      /\ \A i, j \in 1..Len(q) : i < j => g[i] < g[j]
      /\ \A k \in 1..Len(b) : b[k] \in S => \E i \in 1..Len(q) : g[i] = k
  BY <1>4 DEF Places
<1>10. \A i \in 1..Len(q) : g[i] \in 1..Len(b)
  BY <1>9
<1>11. \A i \in 1..Len(q) : ls[i] = Entry(w, b[g[i]]) /\ b[g[i]].capture = c
  BY <1>2, <1>8, <1>9, <1>10
<1>12. \A k \in 1..Len(b) : b[k].capture = c => \E i \in 1..Len(q) : g[i] = k
  BY <1>2, <1>9
<1>13. Taken(w, b, c, ls, g)
  BY <1>8, <1>9, <1>11, <1>12 DEF Taken
<1> QED BY <1>13 DEF ls
(* A line that is no entry, and one that holds the same entry as another.  *)
Blank(l) == ~ l.ok /\ l.by = None
Same(l, k) == l.ok /\ l.by = k.by /\ l.id = k.id /\ l.sup = k.sup
Resembles(part, ls) ==
  /\ part \in Seq(Line)
  /\ Len(part) <= Len(ls)
  /\ \A n \in 1..Len(part) : Blank(part[n]) \/ Same(part[n], ls[n])

(* However a write is cut short, what is there is lines of the batch, each *)
(* in its place, or text that is no entry.                                 *)
LEMMA PartsResemble ==
  ASSUME NEW ls \in Seq(Line), \A n \in 1..Len(ls) : ls[n].ok,
         NEW part \in Parts(ls) \cup {ls}
  PROVE  Resembles(part, ls)
<1>1. Len(ls) \in Nat /\ DOMAIN ls = 1..Len(ls) /\ \A n \in 1..Len(ls) : ls[n] \in Line
  BY LenProperties, ElementOfSeq
<1>2. \A n \in 1..Len(ls) : Same(ls[n], ls[n])
  BY DEF Same
<1>3. ASSUME NEW n \in 0..Len(ls)
      PROVE  /\ SubSeq(ls, 1, n) \in Seq(Line) /\ Len(SubSeq(ls, 1, n)) = n
             /\ \A i \in 1..n : SubSeq(ls, 1, n)[i] = ls[i] /\ i \in 1..Len(ls)
  <2>1. n \in Nat /\ 1..n \subseteq 1..Len(ls)
    BY <1>1
  <2> HIDE DEF Line
  <2> QED BY <1>1, <2>1
<1>4. CASE part = ls
  BY <1>1, <1>2, <1>4 DEF Resembles
<1>5. CASE part \in {SubSeq(ls, 1, n) : n \in 0..Len(ls) - 1}
  <2>1. PICK n \in 0..Len(ls) - 1 : part = SubSeq(ls, 1, n)
    BY <1>5
  <2>2. n \in 0..Len(ls) /\ n <= Len(ls)
    BY <1>1
  <2>3. /\ part \in Seq(Line) /\ Len(part) = n
        /\ \A i \in 1..n : part[i] = ls[i] /\ i \in 1..Len(ls)
    BY <1>3, <2>1, <2>2
  <2> QED BY <1>2, <2>2, <2>3 DEF Resembles
<1>6. ASSUME NEW n \in 1..Len(ls), NEW l \in Line, Blank(l) \/ Same(l, ls[n]),
             part = Append(SubSeq(ls, 1, n - 1), l)
      PROVE  Resembles(part, ls)
  <2>1. n - 1 \in 0..Len(ls) /\ (n - 1) + 1 = n /\ n <= Len(ls)
    BY <1>1
  <2> DEFINE q == SubSeq(ls, 1, n - 1)
  <2>2. /\ q \in Seq(Line) /\ Len(q) = n - 1
        /\ \A i \in 1..(n - 1) : q[i] = ls[i] /\ i \in 1..Len(ls)
    BY <1>3, <2>1
  <2>3. part = Append(q, l)
    BY <1>6
  <2> HIDE DEF q, Line
  <2>4. /\ part \in Seq(Line) /\ Len(part) = n /\ part[n] = l
        /\ \A i \in 1..(n - 1) : part[i] = ls[i] /\ i \in 1..Len(ls)
    BY <2>1, <2>2, <2>3
  <2>5. \A i \in 1..n : i = n \/ i \in 1..(n - 1)
    OBVIOUS
  <2>6. \A i \in 1..n : Blank(part[i]) \/ Same(part[i], ls[i])
    BY <1>2, <1>6, <2>4, <2>5
  <2> QED BY <2>1, <2>4, <2>6 DEF Resembles
<1>7. CASE part \in {Append(SubSeq(ls, 1, n - 1), Corrupt(TRUE)) : n \in DOMAIN ls}
  <2>1. PICK n \in 1..Len(ls) : part = Append(SubSeq(ls, 1, n - 1), Corrupt(TRUE))
    BY <1>1, <1>7
  <2>2. Corrupt(TRUE) \in Line /\ Blank(Corrupt(TRUE))
    BY DEF Corrupt, Line, Blank
  <2> QED BY <1>6, <2>1, <2>2
<1>8. CASE part \in {Append(SubSeq(ls, 1, n - 1), [ls[n] EXCEPT !.open = TRUE]) : n \in DOMAIN ls}
  <2>1. PICK n \in 1..Len(ls) : part = Append(SubSeq(ls, 1, n - 1), [ls[n] EXCEPT !.open = TRUE])
    BY <1>1, <1>8
  <2>2. PICK k \in Line : k = ls[n] /\ k.ok
    BY <1>1
  <2>3. [k EXCEPT !.open = TRUE] \in Line /\ Same([k EXCEPT !.open = TRUE], k)
    BY <2>2 DEF Line, Same
  <2> QED BY <1>6, <2>1, <2>2, <2>3
<1> QED BY <1>4, <1>5, <1>7, <1>8 DEF Parts

(* The file r when something that resembles ls is appended to f: the lines *)
(* of f, but for a last one that had no newline, then those of ls.         *)
Appended(f, ls, r, m) ==
  /\ r \in Seq(Line)
  /\ m \in 0..Len(f)
  /\ m <= Len(r)
  /\ \A i \in 1..m : r[i] = f[i]
  /\ \A i \in (m + 1)..Len(r) : /\ i - m \in 1..Len(ls)
                                /\ Blank(r[i]) \/ Same(r[i], ls[i - m])
  /\ Readable(r) => m = Len(f)

LEMMA AppendToAppends ==
  ASSUME NEW f \in Seq(Line), NEW ls \in Seq(Line), NEW part, Resembles(part, ls)
  PROVE  \E m : Appended(f, ls, AppendTo(f, part), m)
<1>1. /\ Len(f) \in Nat /\ Len(ls) \in Nat /\ Len(part) \in Nat /\ part \in Seq(Line)
      /\ \A i \in 1..Len(part) : part[i] \in Line
      /\ Len(part) <= Len(ls)
      /\ \A n \in 1..Len(part) : Blank(part[n]) \/ Same(part[n], ls[n])
  BY LenProperties, ElementOfSeq DEF Resembles
<1>2. CASE part # <<>> /\ f # <<>> /\ f[Len(f)].open
  <2> DEFINE m == Len(f) - 1
             x == Corrupt(part[1].open)
             r == Front(f) \o <<x>> \o Tail(part)
  <2>1. AppendTo(f, part) = r
    BY <1>2 DEF AppendTo
  <2>2. m \in Nat /\ Len(f) = m + 1 /\ Len(part) >= 1
    BY <1>1, <1>2, EmptySeq
  <2>3. x \in Line /\ Blank(x)
    <3>1. part[1].open \in BOOLEAN
      BY <1>1, <2>2 DEF Line
    <3> QED BY <3>1 DEF Corrupt, Line, Blank
  <2> HIDE DEF Line, m, x
  <2>4. /\ Front(f) \in Seq(Line) /\ Len(Front(f)) = m
        /\ \A i \in 1..m : Front(f)[i] = f[i]
    <3>1. Front(f) = SubSeq(f, 1, m)
      BY DEF Front, m
    <3> QED BY <2>2, <3>1
  <2>5. /\ Tail(part) \in Seq(Line) /\ Len(Tail(part)) = Len(part) - 1
        /\ \A i \in 1..(Len(part) - 1) : Tail(part)[i] = part[i + 1]
    BY <1>1, <1>2
  <2>6. /\ r \in Seq(Line) /\ Len(r) = m + Len(part)
        /\ \A i \in 1..m : r[i] = Front(f)[i]
        /\ r[m + 1] = x
        /\ \A i \in 1..(Len(part) - 1) : r[m + 1 + i] = Tail(part)[i]
    <3> DEFINE y == Front(f) \o <<x>>
    <3>1. /\ y \in Seq(Line) /\ Len(y) = m + 1
          /\ \A i \in 1..m : y[i] = Front(f)[i]
          /\ y[m + 1] = x
      BY <2>2, <2>3, <2>4
    <3>2. r = y \o Tail(part)
      OBVIOUS
    <3> HIDE DEF y, r
    <3>3. /\ y \o Tail(part) \in Seq(Line) /\ Len(y \o Tail(part)) = (m + 1) + (Len(part) - 1)
          /\ \A i \in 1..(m + 1) : (y \o Tail(part))[i] = y[i]
          /\ \A i \in 1..(Len(part) - 1) : (y \o Tail(part))[(m + 1) + i] = Tail(part)[i]
      <4> DEFINE z == Tail(part)
      <4>1. z \in Seq(Line) /\ Len(z) = Len(part) - 1
        BY <2>5
      <4> HIDE DEF z
      <4>2. /\ y \o z \in Seq(Line) /\ Len(y \o z) = Len(y) + Len(z)
            /\ \A i \in 1..Len(y) : (y \o z)[i] = y[i]
            /\ \A i \in 1..Len(z) : (y \o z)[Len(y) + i] = z[i]
        <5>1. y \in Seq(Line)
          BY <3>1
        <5>2. Len(y) \in Nat /\ Len(z) \in Nat
          BY <4>1, <5>1, LenProperties
        <5> QED BY <4>1, <5>1, <5>2
      <4> QED BY <3>1, <4>1, <4>2 DEF z
    <3>4. 1..m \subseteq 1..(m + 1) /\ m + 1 \in 1..(m + 1)
          /\ (m + 1) + (Len(part) - 1) = m + Len(part)
      BY <1>1, <2>2
    <3> QED BY <3>1, <3>2, <3>3, <3>4
  <2> HIDE DEF r
  <2>7. ASSUME NEW i \in (m + 1)..Len(r)
        PROVE  i - m \in 1..Len(ls) /\ (Blank(r[i]) \/ Same(r[i], ls[i - m]))
    <3>1. i - m \in 1..Len(part) /\ i - m \in 1..Len(ls)
      BY <1>1, <2>2, <2>6
    <3>2. CASE i = m + 1
      BY <2>3, <2>6, <3>1, <3>2
    <3>3. CASE i # m + 1
      <4>1. i - m - 1 \in 1..(Len(part) - 1) /\ m + 1 + (i - m - 1) = i /\ (i - m - 1) + 1 = i - m
        BY <1>1, <2>2, <2>6, <3>3
      <4>2. r[i] = part[i - m]
        BY <2>5, <2>6, <4>1
      <4> QED BY <1>1, <3>1, <4>2
    <3> QED BY <3>2, <3>3
  <2>8. ~ Readable(r)
    <3>1. DOMAIN r = 1..Len(r) /\ m + 1 \in 1..Len(r)
      BY <1>1, <2>2, <2>6, LenProperties
    <3> QED BY <2>3, <2>6, <3>1 DEF Readable, Blank
  <2>9. m \in 0..Len(f) /\ m <= Len(r)
    BY <1>1, <2>2, <2>6
  <2>10. Appended(f, ls, r, m)
    BY <2>4, <2>6, <2>7, <2>8, <2>9 DEF Appended
  <2> QED BY <2>1, <2>10
<1>3. CASE ~ (part # <<>> /\ f # <<>> /\ f[Len(f)].open)
  <2> DEFINE m == Len(f)
             r == f \o part
  <2>1. AppendTo(f, part) = r
    BY <1>3 DEF AppendTo
  <2> HIDE DEF Line
  <2>2. /\ r \in Seq(Line) /\ Len(r) = m + Len(part)
        /\ \A i \in 1..m : r[i] = f[i]
        /\ \A i \in 1..Len(part) : r[m + i] = part[i]
    BY <1>1
  <2> HIDE DEF r, m
  <2>3. m \in Nat /\ m = Len(f)
    BY <1>1 DEF m
  <2>4. ASSUME NEW i \in (m + 1)..Len(r)
        PROVE  i - m \in 1..Len(ls) /\ (Blank(r[i]) \/ Same(r[i], ls[i - m]))
    <3>1. i - m \in 1..Len(part) /\ i - m \in 1..Len(ls) /\ m + (i - m) = i
      BY <1>1, <2>2, <2>3
    <3>2. r[i] = part[i - m]
      BY <2>2, <3>1
    <3> QED BY <1>1, <3>1, <3>2
  <2>5. m \in 0..Len(f) /\ m <= Len(r)
    BY <1>1, <2>2, <2>3
  <2>6. Appended(f, ls, r, m)
    BY <2>2, <2>3, <2>4, <2>5 DEF Appended
  <2> QED BY <2>1, <2>6
<1> QED BY <1>2, <1>3
----------------------------------------------------------------------------
(* The invariant.  What a file holds, whoever wrote it:                    *)
FilledIn(f) == \A k \in 1..Len(f) : f[k].ok => f[k].by \in Writer /\ f[k].id \in Id
UniqueIn(f) ==
  \A i, j \in 1..Len(f) :
    i # j /\ f[i].ok /\ f[j].ok /\ f[i].id = f[j].id => ProcessOf[f[i].by] # ProcessOf[f[j].by]
ParentsIn(f) ==
  Readable(f) => \A i \in 1..Len(f) : f[i].sup # None => \E j \in 1..i - 1 : f[j].id = f[i].sup
ClosedIn(f) == \A k \in 1..Len(f) : ~ f[k].open
NoneBy(f, w) == \A k \in 1..Len(f) : f[k].by # w
OnlyBy(f, w) == Only(f, {l \in ToSet(f) : l.by = w})

(* What the check of the first n entries of b, by a call of process p, has *)
(* found out about the file f of capture c, and still holds when the call  *)
(* writes it: each id is none that p filed in f, and each parent is in f   *)
(* or above in b.                                                          *)
DistinctIds(b, n) ==
  \A i, j \in 1..n : i # j /\ b[i].capture = b[j].capture => b[i].id # b[j].id
Sound(p, f, b, n, c) ==
  \A i \in 1..n : b[i].capture = c =>
    /\ \A k \in 1..Len(f) : f[k].ok /\ ProcessOf[f[k].by] = p => f[k].id # b[i].id
    /\ b[i].supersedes # None /\ Readable(f) =>
         \/ b[i].supersedes \in Ids(f)
         \/ \E j \in 1..i - 1 : b[j].capture = c /\ b[j].id = b[i].supersedes
(* The ids it knows of c are all those, and no other.                      *)
Knows(p, f, b, n, c, ids) ==
  IF ids = None THEN \A i \in 1..n : b[i].capture # c
  ELSE /\ \A i \in 1..n : b[i].capture = c => b[i].id \in ids
       /\ \A k \in 1..Len(f) : f[k].ok /\ ProcessOf[f[k].by] = p => f[k].id \in ids
       /\ Readable(f) => \A id \in ids :
            id \in Ids(f) \/ \E i \in 1..n : b[i].capture = c /\ b[i].id = id

Typed ==
  /\ file \in [Capture -> Seq(Line)]
  /\ lock \in [Process -> [Capture -> Writer \cup {None}]]
  /\ pc \in [Writer -> {"idle", "lock", "check", "write"} \cup Ended]
  /\ batch \in [Writer -> Batches \cup {<<>>}]
  /\ at \in [Writer -> Nat \ {0}]
  /\ known \in [Writer -> [Capture -> (SUBSET Id) \cup {None}]]
  /\ left \in [Writer -> Seq(Capture)]
  /\ cut \in SUBSET Capture

Files ==
  \A c \in Capture : /\ FilledIn(file[c]) /\ UniqueIn(file[c]) /\ ParentsIn(file[c])
                     /\ c \notin cut => ClosedIn(file[c])

(* The locks are those of the calls that wait, check or write.             *)
Locked ==
  /\ \A p \in Process, c \in Capture :
       lock[p][c] \in {w \in Writer : ProcessOf[w] = p} \cup {None}
  /\ \A w \in Writer :
       /\ pc[w] = "lock" => \E c \in PathsOf(batch[w]) : Own(w, c) # w
       /\ pc[w] \in {"check", "write"} => \A c \in PathsOf(batch[w]) : Own(w, c) = w
       /\ pc[w] \in Ended \cup {"idle"} => \A c \in Capture : Own(w, c) # w

(* How far a call is.                                                      *)
Left(w) == {left[w][i] : i \in 1..Len(left[w])}
Placed(w) ==
  /\ pc[w] \in {"idle", "lock"} => at[w] = 1 /\ \A c \in Capture : known[w][c] = None
  /\ pc[w] = "check" => at[w] <= Len(Valid(batch[w]))
  /\ pc[w] \in {"write", "ok"} => Valid(batch[w]) = batch[w]
  /\ pc[w] = "write" => /\ at[w] = Len(batch[w]) + 1 /\ left[w] # <<>>
                        /\ Left(w) \subseteq PathsOf(batch[w])
                        /\ \A i, j \in 1..Len(left[w]) : i # j => left[w][i] # left[w][j]
  /\ pc[w] = "ok" => left[w] = <<>>

(* What it has checked is still so in the files it has not written yet.    *)
Checked(w) ==
  LET b == Valid(batch[w])  n == at[w] - 1  p == ProcessOf[w] IN
  /\ pc[w] \in {"check", "write"} => DistinctIds(b, n)
  /\ pc[w] = "check" => \A c \in PathsOf(batch[w]) : /\ Sound(p, file[c], b, n, c)
                                                     /\ Knows(p, file[c], b, n, c, known[w][c])
  /\ pc[w] = "write" => \A c \in Left(w) : Sound(p, file[c], b, n, c)

(* Its lines are in no file before it writes it, and all there after.      *)
Written(w) ==
  /\ pc[w] \in {"idle", "lock", "check", "refused"} => \A c \in Capture : NoneBy(file[c], w)
  /\ pc[w] = "write" => \A c \in Left(w) : NoneBy(file[c], w)
  /\ pc[w] \in {"write", "ok"} => \A c \in PathsOf(batch[w]) \ cut :
       c \notin Left(w) => OnlyBy(file[c], w) = LinesOf(w, batch[w], c)

IInv ==
  /\ Typed /\ Files /\ Locked
  /\ \A w \in Writer : Placed(w) /\ Checked(w) /\ Written(w)
----------------------------------------------------------------------------
(* What an append leaves as it was.                                        *)
LEMMA GrownFacts ==
  ASSUME NEW f \in Seq(Line), NEW ls, NEW r, NEW m, Appended(f, ls, r, m)
  PROVE  /\ Readable(r) => Readable(f) /\ Ids(f) \subseteq Ids(r) /\ m = Len(f)
         /\ \A k \in 1..Len(r) :
              \/ k \in 1..m /\ k \in 1..Len(f) /\ r[k] = f[k]
              \/ /\ k \in (m + 1)..Len(r) /\ k - m \in 1..Len(ls)
                 /\ Blank(r[k]) \/ Same(r[k], ls[k - m])
<1>1. /\ r \in Seq(Line) /\ m \in 0..Len(f) /\ m <= Len(r)
      /\ \A i \in 1..m : r[i] = f[i]
      /\ \A i \in (m + 1)..Len(r) : /\ i - m \in 1..Len(ls)
                                    /\ Blank(r[i]) \/ Same(r[i], ls[i - m])
      /\ Readable(r) => m = Len(f)
  BY DEF Appended
<1>2. /\ Len(f) \in Nat /\ Len(r) \in Nat /\ m \in Nat
      /\ DOMAIN f = 1..Len(f) /\ DOMAIN r = 1..Len(r)
  BY <1>1, LenProperties
<1>3. 1..m \subseteq 1..Len(f) /\ 1..m \subseteq 1..Len(r)
      /\ \A k \in 1..Len(r) : k \in 1..m \/ k \in (m + 1)..Len(r)
  <2>1. m \in Nat /\ Len(f) \in Nat /\ Len(r) \in Nat /\ m <= Len(f) /\ m <= Len(r)
    <3>1. m \in 0..Len(f) /\ m <= Len(r)
      BY DEF Appended
    <3>2. Len(f) \in Nat /\ Len(r) \in Nat /\ m \in Nat
      BY <1>2
    <3> QED BY <3>1, <3>2
  <2> QED BY <2>1
<1>4. ASSUME Readable(r)
      PROVE  Readable(f) /\ Ids(f) \subseteq Ids(r) /\ m = Len(f)
  BY <1>1, <1>2, <1>3, <1>4 DEF Readable, Ids
<1> QED BY <1>1, <1>3, <1>4

AllBy(ls, v) == \A n \in 1..Len(ls) : ls[n].by = v

(* The append of another process: what this one checked stays so.          *)
LEMMA OthersAppend ==
  ASSUME NEW f \in Seq(Line), NEW ls, NEW r, NEW m, Appended(f, ls, r, m),
         NEW v \in Writer, AllBy(ls, v),
         NEW p, ProcessOf[v] # p, NEW b, NEW n, NEW c, NEW ids
  PROVE  /\ Sound(p, f, b, n, c) => Sound(p, r, b, n, c)
         /\ Knows(p, f, b, n, c, ids) => Knows(p, r, b, n, c, ids)
<1>1. Readable(r) => Readable(f) /\ Ids(f) \subseteq Ids(r)
  BY GrownFacts
<1>2. \A k \in 1..Len(r) : r[k].ok /\ ProcessOf[r[k].by] = p => k \in 1..Len(f) /\ r[k] = f[k]
  BY GrownFacts DEF Blank, Same, AllBy
<1>3. Sound(p, f, b, n, c) => Sound(p, r, b, n, c)
  BY <1>1, <1>2 DEF Sound
<1>4. Knows(p, f, b, n, c, ids) => Knows(p, r, b, n, c, ids)
  BY <1>1, <1>2 DEF Knows
<1> QED BY <1>3, <1>4

(* The append of what was checked keeps the ids apart and the parents      *)
(* above.                                                                  *)
LEMMA SoundAppend ==
  ASSUME NEW f \in Seq(Line), NEW w \in Writer, NEW b \in Seq(Asked), NEW c, NEW ls, NEW g,
         Taken(w, b, c, ls, g), NEW r, NEW m, Appended(f, ls, r, m),
         DistinctIds(b, Len(b)), Sound(ProcessOf[w], f, b, Len(b), c),
         FilledIn(f), UniqueIn(f), ParentsIn(f)
  PROVE  FilledIn(r) /\ UniqueIn(r) /\ ParentsIn(r)
<1> DEFINE New(k) == k \in (m + 1)..Len(r) /\ k - m \in 1..Len(ls)
           Old(k) == k \in 1..m /\ k \in 1..Len(f) /\ r[k] = f[k]
           e(k) == b[g[k - m]]
<1>1. \A k \in 1..Len(r) : Old(k) \/ (New(k) /\ (Blank(r[k]) \/ Same(r[k], ls[k - m])))
  BY GrownFacts
<1>2. /\ \A i \in 1..Len(ls) : /\ g[i] \in 1..Len(b) /\ b[g[i]] \in Asked /\ b[g[i]].capture = c
                               /\ ls[i] = Entry(w, b[g[i]])
      /\ \A i, j \in 1..Len(ls) : i < j => g[i] < g[j]
      /\ \A k \in 1..Len(b) : b[k].capture = c => \E i \in 1..Len(ls) : g[i] = k
  BY ElementOfSeq DEF Taken
<1>3. Len(f) \in Nat /\ Len(ls) \in Nat /\ Len(r) \in Nat /\ m \in Nat /\ m <= Len(r)
  BY LenProperties DEF Appended, Taken
<1>4. \A k \in 1..Len(r) : New(k) /\ r[k].ok =>
        /\ r[k].by = w /\ r[k].id = e(k).id /\ r[k].sup = e(k).supersedes
        /\ g[k - m] \in 1..Len(b) /\ e(k) \in Asked /\ e(k).capture = c
  <2> SUFFICES ASSUME NEW k \in 1..Len(r), New(k), r[k].ok
               PROVE  /\ r[k].by = w /\ r[k].id = e(k).id /\ r[k].sup = e(k).supersedes
                      /\ g[k - m] \in 1..Len(b) /\ e(k) \in Asked /\ e(k).capture = c
    OBVIOUS
  <2>1. ~ Old(k)
    BY <1>3
  <2>2. Same(r[k], ls[k - m])
    BY <1>1, <2>1 DEF Blank
  <2>3. ls[k - m] = Entry(w, e(k)) /\ g[k - m] \in 1..Len(b) /\ e(k) \in Asked /\ e(k).capture = c
    BY <1>2
  <2> QED BY <2>2, <2>3 DEF Same, Entry
<1>5. FilledIn(r)
  <2> SUFFICES ASSUME NEW k \in 1..Len(r), r[k].ok PROVE r[k].by \in Writer /\ r[k].id \in Id
    BY DEF FilledIn
  <2>1. CASE Old(k)
    BY <2>1 DEF FilledIn
  <2>2. CASE New(k)
    BY <1>4, <2>2 DEF Asked
  <2> QED BY <1>1, <2>1, <2>2
<1>6. UniqueIn(r)
  <2>1. ASSUME NEW i \in 1..Len(r), NEW j \in 1..Len(r), Old(i), New(j), r[i].ok, r[j].ok,
               r[i].id = r[j].id
        PROVE  ProcessOf[r[i].by] # ProcessOf[r[j].by]
    <3>1. r[j].by = w /\ r[j].id = e(j).id /\ g[j - m] \in 1..Len(b) /\ e(j).capture = c
      BY <1>4, <2>1
    <3>2. i \in 1..Len(f) /\ f[i].ok /\ f[i].id = e(j).id /\ f[i].by = r[i].by
      BY <2>1, <3>1
    <3>3. ProcessOf[f[i].by] # ProcessOf[w]
      BY <3>1, <3>2 DEF Sound
    <3> QED BY <3>1, <3>2, <3>3
  <2>2. ASSUME NEW i \in 1..Len(r), NEW j \in 1..Len(r), New(i), New(j), r[i].ok, r[j].ok, i # j
        PROVE  r[i].id # r[j].id
    <3>1. i - m \in 1..Len(ls) /\ j - m \in 1..Len(ls) /\ (i - m < j - m \/ j - m < i - m)
      BY <1>3, <2>2
    <3>2. g[i - m] \in 1..Len(b) /\ g[j - m] \in 1..Len(b)
      BY <1>2, <3>1
    <3>3. g[i - m] < g[j - m] \/ g[j - m] < g[i - m]
      BY <1>2, <3>1
    <3>4. g[i - m] # g[j - m]
      <4>1. g[i - m] \in Int /\ g[j - m] \in Int
        BY <3>2
      <4> QED BY <3>3, <4>1
    <3>5. e(i).capture = c /\ e(j).capture = c
      BY <1>2, <3>1
    <3>6. e(i).id # e(j).id
      BY <3>2, <3>4, <3>5 DEF DistinctIds
    <3> QED BY <1>4, <2>2, <3>6
  <2> SUFFICES ASSUME NEW i \in 1..Len(r), NEW j \in 1..Len(r), i # j, r[i].ok, r[j].ok,
                      r[i].id = r[j].id
               PROVE  ProcessOf[r[i].by] # ProcessOf[r[j].by]
    BY DEF UniqueIn
  <2>3. CASE Old(i) /\ Old(j)
    BY <2>3 DEF UniqueIn
  <2>4. CASE Old(i) /\ New(j)
    BY <2>1, <2>4
  <2>5. CASE New(i) /\ Old(j)
    BY <2>1, <2>5
  <2>6. CASE New(i) /\ New(j)
    BY <2>2, <2>6
  <2> QED BY <1>1, <2>3, <2>4, <2>5, <2>6
<1>7. ParentsIn(r)
  <2> SUFFICES ASSUME Readable(r), NEW i \in 1..Len(r), r[i].sup # None
               PROVE  \E j \in 1..i - 1 : r[j].id = r[i].sup
    BY DEF ParentsIn
  <2>1. Readable(f) /\ m = Len(f) /\ \A k \in 1..Len(r) : r[k].ok
    <3>1. DOMAIN r = 1..Len(r)
      BY LenProperties DEF Appended
    <3> QED BY <3>1, GrownFacts DEF Readable
  <2>2. \A k \in 1..Len(f) : k \in 1..Len(r) /\ r[k] = f[k]
    BY <1>3, <2>1 DEF Appended
  <2>3. CASE Old(i)
    <3>1. PICK j \in 1..i - 1 : f[j].id = f[i].sup
      BY <2>1, <2>3 DEF ParentsIn
    <3>2. j \in 1..Len(f)
      BY <1>3, <2>3
    <3> QED BY <2>2, <2>3, <3>1, <3>2
  <2>4. CASE New(i)
    <3>1. /\ r[i].sup = e(i).supersedes /\ g[i - m] \in 1..Len(b) /\ e(i).capture = c
          /\ i - m \in 1..Len(ls)
      BY <1>4, <2>1, <2>4
    <3>2. \/ e(i).supersedes \in Ids(f)
          \/ \E j \in 1..g[i - m] - 1 : b[j].capture = c /\ b[j].id = e(i).supersedes
      BY <2>1, <3>1 DEF Sound
    <3>3. CASE e(i).supersedes \in Ids(f)
      <4>1. PICK j \in 1..Len(f) : f[j].id = e(i).supersedes
        <5>1. DOMAIN f = 1..Len(f)
          BY LenProperties
        <5> QED BY <3>3, <5>1 DEF Ids
      <4>2. j \in 1..i - 1
        BY <1>3, <2>1, <2>4
      <4> QED BY <2>2, <3>1, <4>1, <4>2
    <3>4. CASE \E j \in 1..g[i - m] - 1 : b[j].capture = c /\ b[j].id = e(i).supersedes
      <4>1. PICK j \in 1..g[i - m] - 1 : b[j].capture = c /\ b[j].id = e(i).supersedes
        BY <3>4
      <4>2. j \in 1..Len(b) /\ j < g[i - m] /\ Len(b) \in Nat
        <5>1. Len(b) \in Nat
          BY LenProperties
        <5> QED BY <3>1, <5>1
      <4>3. PICK q \in 1..Len(ls) : g[q] = j
        BY <1>2, <4>1, <4>2
      <4>4. q < i - m
        <5>1. ~ (i - m < q)
          <6>1. i - m < q => g[i - m] < g[q]
            BY <1>2, <3>1
          <6>2. ~ (g[i - m] < j)
            BY <3>1, <4>2
          <6> QED BY <4>3, <6>1, <6>2
        <5>2. q # i - m
          <6>1. g[i - m] # j
            BY <3>1, <4>2
          <6> QED BY <4>3, <6>1
        <5>3. q \in Int /\ i - m \in Int
          BY <3>1
        <5> QED BY <5>1, <5>2, <5>3
      <4>5. m + q \in 1..i - 1 /\ m + q \in 1..Len(r) /\ New(m + q) /\ (m + q) - m = q
        BY <1>3, <2>4, <4>4
      <4>6. r[m + q].id = b[j].id
        BY <1>4, <2>1, <4>3, <4>5
      <4> QED BY <3>1, <4>1, <4>5, <4>6
    <3> QED BY <3>2, <3>3, <3>4
  <2> QED BY <1>1, <2>3, <2>4
<1> QED BY <1>5, <1>6, <1>7

(* Only a call that writes adds lines of its own.                          *)
LEMMA NoneByAppend ==
  ASSUME NEW f \in Seq(Line), NEW ls, NEW r, NEW m, Appended(f, ls, r, m),
         NEW v, AllBy(ls, v), NEW w \in Writer, w # v, NoneBy(f, w)
  PROVE  NoneBy(r, w)
<1>1. None # w
  BY RecordAssumption
<1> QED BY <1>1, GrownFacts DEF NoneBy, Blank, Same, AllBy

(* A file where no write was cut short: all of the lines are appended, and *)
(* what there is by each call is what there was, or the lines of its own.  *)
LEMMA ClosedAppend ==
  ASSUME NEW f \in Seq(Line), ClosedIn(f), NEW ls \in Seq(Line),
         NEW v, \A n \in 1..Len(ls) : ls[n].by = v /\ ~ ls[n].open
  PROVE  /\ ClosedIn(AppendTo(f, ls))
         /\ \A w \in Writer : w # v => OnlyBy(AppendTo(f, ls), w) = OnlyBy(f, w)
         /\ NoneBy(f, v) => OnlyBy(AppendTo(f, ls), v) = ls
<1> DEFINE r == f \o ls
<1>1. /\ Len(f) \in Nat /\ Len(ls) \in Nat /\ r \in Seq(Line) /\ Len(r) = Len(f) + Len(ls)
      /\ \A k \in 1..Len(f) : r[k] = f[k]
      /\ \A k \in 1..Len(ls) : r[Len(f) + k] = ls[k]
  <2> HIDE DEF Line
  <2> QED OBVIOUS
<1>2. AppendTo(f, ls) = r
  <2>1. f # <<>> => Len(f) \in 1..Len(f)
    BY <1>1, EmptySeq
  <2> QED BY <2>1 DEF AppendTo, ClosedIn
<1> HIDE DEF r
<1>3. \A k \in 1..Len(r) : \/ k \in 1..Len(f) /\ r[k] = f[k]
                           \/ k - Len(f) \in 1..Len(ls) /\ r[k] = ls[k - Len(f)]
  <2> TAKE k \in 1..Len(r)
  <2>1. k \in 1..Len(f) \/ (k - Len(f) \in 1..Len(ls) /\ Len(f) + (k - Len(f)) = k)
    BY <1>1
  <2>2. CASE k \in 1..Len(f)
    BY <1>1, <2>2
  <2>3. CASE k - Len(f) \in 1..Len(ls) /\ Len(f) + (k - Len(f)) = k
    <3>1. r[Len(f) + (k - Len(f))] = ls[k - Len(f)]
      BY <1>1, <2>3
    <3> QED BY <2>3, <3>1
  <2> QED BY <2>1, <2>2, <2>3
<1>4. ClosedIn(r)
  BY <1>3 DEF ClosedIn
<1>5. /\ \A k \in 1..Len(f) : k \in 1..Len(r) /\ f[k] \in ToSet(f) /\ f[k] \in ToSet(r)
      /\ \A k \in 1..Len(ls) : ls[k] \in ToSet(r)
  <2>1. DOMAIN f = 1..Len(f) /\ DOMAIN r = 1..Len(r)
    BY <1>1, LenProperties
  <2>2. \A k \in 1..Len(f) : k \in 1..Len(r)
    BY <1>1
  <2>3. \A k \in 1..Len(ls) : Len(f) + k \in 1..Len(r)
    BY <1>1
  <2> QED BY <1>1, <2>1, <2>2, <2>3 DEF ToSet
<1>6. ASSUME NEW w \in Writer, w # v PROVE OnlyBy(r, w) = OnlyBy(f, w)
  <2> DEFINE S == {l \in ToSet(f) : l.by = w}
             U == {l \in ToSet(r) : l.by = w}
  <2>1. \A k \in 1..Len(f) : f[k] \in U <=> f[k] \in S
    BY <1>5
  <2>2. \A k \in 1..Len(ls) : ls[k] \notin U
    BY <1>6
  <2> HIDE DEF S, U
  <2>3. Only(f \o ls, U) = Only(f, S)
    BY <2>1, <2>2, OnlyOld
  <2> QED BY <2>3 DEF OnlyBy, S, U, r
<1>7. ASSUME NoneBy(f, v) PROVE OnlyBy(r, v) = ls
  <2> DEFINE U == {l \in ToSet(r) : l.by = v}
  <2>1. \A k \in 1..Len(f) : f[k] \notin U
    BY <1>7 DEF NoneBy
  <2>2. \A k \in 1..Len(ls) : ls[k] \in U
    BY <1>5
  <2> HIDE DEF U
  <2>3. Only(f \o ls, U) = ls
    BY <2>1, <2>2, OnlyNew
  <2> QED BY <2>3 DEF OnlyBy, U, r
<1> QED BY <1>2, <1>4, <1>6, <1>7
----------------------------------------------------------------------------
Stage == {"idle", "lock", "check", "write"} \cup Ended

LEMMA CallFacts ==
  ASSUME Typed, NEW w \in Writer
  PROVE  /\ batch[w] \in Seq(Asked) /\ ProcessOf[w] \in Process
         /\ PathsOf(batch[w]) \subseteq Capture
         /\ left[w] \in Seq(Capture) /\ at[w] \in Nat \ {0} /\ pc[w] \in Stage
<1>1. batch[w] \in Seq(Asked)
  BY BatchTyped DEF Typed
<1>2. PathsOf(batch[w]) \subseteq Capture
  BY <1>1, PathsFacts
<1> QED BY <1>1, <1>2 DEF Typed, Process, Stage

(* A write, of all the lines or of a part: what is true of the files and   *)
(* of the calls that are not at an end stays so.                           *)
LEMMA FileWritten ==
  ASSUME IInv, NEW w \in Writer, pc[w] = "write", NEW c0, c0 = Head(left[w]),
         NEW part \in Parts(Lines(w, c0)) \cup {Lines(w, c0)},
         file' = [file EXCEPT ![c0] = AppendTo(@, part)],
         batch' = batch, at' = at, known' = known,
         \A v \in Writer : v # w => left'[v] = left[v] /\ pc'[v] \in {pc[v], "killed"},
         \/ /\ part = Lines(w, c0) /\ left'[w] = Tail(left[w]) /\ cut' = cut
            /\ pc'[w] = IF Tail(left[w]) = <<>> THEN "ok" ELSE "write"
         \/ pc'[w] \in {"failed", "killed"} /\ cut' = cut \cup {c0}
  PROVE  /\ file' \in [Capture -> Seq(Line)]
         /\ Files'
         /\ \A v \in Writer : Placed(v)' /\ Checked(v)' /\ Written(v)'
<1> DEFINE b == batch[w]
           p == ProcessOf[w]
           f == file[c0]
           ls == Lines(w, c0)
           r == AppendTo(f, part)
<1>0. Typed /\ Files /\ Locked /\ \A v \in Writer : Placed(v) /\ Checked(v) /\ Written(v)
  BY DEF IInv
<1>1. /\ b \in Seq(Asked) /\ Valid(b) = b /\ Len(b) \in Nat /\ at[w] - 1 = Len(b)
      /\ left[w] \in Seq(Capture) /\ left[w] # <<>> /\ Left(w) \subseteq PathsOf(b)
      /\ \A i, j \in 1..Len(left[w]) : i # j => left[w][i] # left[w][j]
  <2>1. Placed(w) /\ b \in Seq(Asked) /\ left[w] \in Seq(Capture)
    BY <1>0, CallFacts
  <2>2. Len(b) \in Nat
    BY <2>1, LenProperties
  <2>3. /\ Valid(b) = b /\ at[w] = Len(b) + 1 /\ left[w] # <<>> /\ Left(w) \subseteq PathsOf(b)
        /\ \A i, j \in 1..Len(left[w]) : i # j => left[w][i] # left[w][j]
    BY <2>1 DEF Placed
  <2>4. at[w] - 1 = Len(b)
    BY <2>2, <2>3
  <2> QED BY <2>1, <2>2, <2>3, <2>4
<1>2. /\ c0 \in Capture /\ c0 \in Left(w) /\ c0 \in PathsOf(b)
      /\ \A c \in Left(w) : c \in Capture
      /\ \A c \in Left(w) : c = c0 \/ \E i \in 1..Len(Tail(left[w])) : Tail(left[w])[i] = c
      /\ \A i \in 1..Len(Tail(left[w])) : Tail(left[w])[i] \in Left(w) /\ Tail(left[w])[i] # c0
  <2>1. PICK q \in Seq(Capture) : q = left[w]
    BY <1>1
  <2>2. /\ Len(q) \in Nat /\ Len(q) >= 1 /\ Len(Tail(q)) = Len(q) - 1
        /\ \A i \in 1..Len(q) - 1 : Tail(q)[i] = q[i + 1]
        /\ \A i \in 1..Len(q) : q[i] \in Capture
        /\ Head(q) = q[1]
    BY <1>1, <2>1
  <2>3. /\ 1 \in 1..Len(q)
        /\ \A i \in 1..Len(q) : i = 1 \/ (i - 1 \in 1..Len(q) - 1 /\ (i - 1) + 1 = i)
        /\ \A i \in 1..Len(q) - 1 : i + 1 \in 1..Len(q) /\ i + 1 # 1
    BY <2>2
  <2>4. Left(w) = {q[i] : i \in 1..Len(q)} /\ c0 = q[1]
    BY <2>1, <2>2 DEF Left
  <2>5. \A i \in 1..Len(q) - 1 : Tail(q)[i] \in Left(w) /\ Tail(q)[i] # c0
    BY <1>1, <2>1, <2>2, <2>3, <2>4
  <2>6. \A c \in Left(w) : c = c0 \/ \E i \in 1..Len(q) - 1 : Tail(q)[i] = c
    <3> SUFFICES ASSUME NEW i \in 1..Len(q), q[i] # c0
                 PROVE  \E j \in 1..Len(q) - 1 : Tail(q)[j] = q[i]
      BY <2>4
    <3>1. i - 1 \in 1..Len(q) - 1 /\ (i - 1) + 1 = i
      BY <2>3, <2>4
    <3>2. Tail(q)[i - 1] = q[i]
      BY <2>2, <3>1
    <3> QED BY <3>1, <3>2
  <2>7. c0 \in Left(w) /\ \A c \in Left(w) : c \in Capture
    BY <2>2, <2>3, <2>4
  <2> QED BY <1>1, <2>1, <2>2, <2>5, <2>6, <2>7
<1>3. ls = LinesOf(w, b, c0)
  BY DEF Lines, Group, LinesOf
<1>4. PICK g : Taken(w, b, c0, ls, g)
  BY <1>1, <1>3, LinesTaken
<1>5. /\ ls \in Seq(Line) /\ \A n \in 1..Len(ls) : ls[n].ok /\ ls[n].by = w /\ ~ ls[n].open
  <2>1. ls \in Seq(Line) /\ \A n \in 1..Len(ls) : ls[n] = Entry(w, b[g[n]])
    BY <1>4 DEF Taken
  <2> HIDE DEF ls
  <2>2. \A n \in 1..Len(ls) : ls[n].ok /\ ls[n].by = w /\ ~ ls[n].open
    <3>1. \A e : Entry(w, e).ok /\ Entry(w, e).by = w /\ ~ Entry(w, e).open
      BY DEF Entry
    <3> QED BY <2>1, <3>1
  <2> QED BY <2>1, <2>2
<1>6. f \in Seq(Line) /\ file \in [Capture -> Seq(Line)]
  BY <1>0, <1>2 DEF Typed
<1>7. Resembles(part, ls)
  <2> HIDE DEF ls
  <2>1. part \in Parts(ls) \cup {ls}
    BY DEF ls
  <2> QED BY <1>5, <2>1, PartsResemble
<1>8. PICK m : Appended(f, ls, r, m)
  BY <1>5, <1>6, <1>7, AppendToAppends
<1>9. r \in Seq(Line)
  BY <1>8 DEF Appended
<1>10. /\ file' \in [Capture -> Seq(Line)] /\ file'[c0] = r
       /\ \A c \in Capture : c # c0 => file'[c] = file[c]
  <2> HIDE DEF r
  <2>1. file' = [file EXCEPT ![c0] = r]
    BY DEF r
  <2> QED BY <1>2, <1>6, <1>9, <2>1
<1>11. c0 \notin cut' => c0 \notin cut /\ part = ls /\ r = AppendTo(f, ls)
  OBVIOUS
<1>12. cut \subseteq cut'
  OBVIOUS
<1> HIDE DEF ls, r
<1>13. FilledIn(f) /\ UniqueIn(f) /\ ParentsIn(f) /\ (c0 \notin cut => ClosedIn(f))
  BY <1>0, <1>2 DEF Files
<1>14. NoneBy(f, w) /\ DistinctIds(b, Len(b)) /\ Sound(p, f, b, Len(b), c0)
  BY <1>0, <1>1, <1>2 DEF Written, Checked
<1>15. FilledIn(r) /\ UniqueIn(r) /\ ParentsIn(r)
  BY <1>1, <1>4, <1>6, <1>8, <1>13, <1>14, SoundAppend
<1>16. c0 \notin cut' => /\ ClosedIn(r) /\ OnlyBy(r, w) = ls
                         /\ \A v \in Writer : v # w => OnlyBy(r, v) = OnlyBy(f, v)
  <2>1. c0 \notin cut' => ClosedIn(f) /\ r = AppendTo(f, ls)
    BY <1>11, <1>13
  <2> QED BY <1>5, <1>6, <1>14, <2>1, ClosedAppend
<1>17. Files'
  BY <1>0, <1>10, <1>12, <1>15, <1>16 DEF Files
<1>18. ASSUME NEW v \in Writer, v # w, pc'[v] = pc[v]
       PROVE  Placed(v)' /\ Checked(v)' /\ Written(v)'
  <2>1. Placed(v) /\ Checked(v) /\ Written(v) /\ left'[v] = left[v] /\ batch'[v] = batch[v]
        /\ at'[v] = at[v] /\ known'[v] = known[v]
    BY <1>0, <1>18
  <2>2. Left(v)' = Left(v)
    BY <2>1 DEF Left
  <2>3. Placed(v)'
    BY <1>18, <2>1, <2>2 DEF Placed
  <2>4. PathsOf(batch[v]) \subseteq Capture /\ (pc[v] = "write" => Left(v) \subseteq PathsOf(batch[v]))
    BY <1>0, <2>1, CallFacts DEF Placed
  <2>5. /\ pc[v] \in {"check", "write"} /\ c0 \in PathsOf(batch[v]) => ProcessOf[w] # ProcessOf[v]
    BY <1>0, <1>2, <1>18 DEF Locked, Own
  <2>6. ASSUME NEW n, NEW ids, NEW c \in PathsOf(batch[v]), pc[v] \in {"check", "write"}
        PROVE  /\ Sound(ProcessOf[v], file[c], Valid(batch[v]), n, c)
                    => Sound(ProcessOf[v], file'[c], Valid(batch[v]), n, c)
               /\ Knows(ProcessOf[v], file[c], Valid(batch[v]), n, c, ids)
                    => Knows(ProcessOf[v], file'[c], Valid(batch[v]), n, c, ids)
    <3>1. CASE c = c0
      <4>1. ProcessOf[w] # ProcessOf[v]
        BY <2>5, <2>6, <3>1
      <4>2. AllBy(ls, w)
        BY <1>5 DEF AllBy
      <4> HIDE DEF p, b
      <4>3. /\ Sound(ProcessOf[v], f, Valid(batch[v]), n, c0)
                 => Sound(ProcessOf[v], r, Valid(batch[v]), n, c0)
            /\ Knows(ProcessOf[v], f, Valid(batch[v]), n, c0, ids)
                 => Knows(ProcessOf[v], r, Valid(batch[v]), n, c0, ids)
        BY <1>6, <1>8, <4>1, <4>2, OthersAppend
      <4> QED BY <1>10, <3>1, <4>3
    <3>2. CASE c # c0
      BY <1>10, <2>4, <3>2
    <3> QED BY <3>1, <3>2
  <2>7. Checked(v)'
    BY <1>18, <2>1, <2>2, <2>4, <2>6 DEF Checked
  <2>8. \A c \in Capture : NoneBy(file[c], v) => NoneBy(file'[c], v)
    <3> TAKE c \in Capture
    <3>1. CASE c = c0
      <4>1. AllBy(ls, w)
        BY <1>5 DEF AllBy
      <4>2. NoneBy(f, v) => NoneBy(r, v)
        BY <1>6, <1>8, <1>18, <4>1, NoneByAppend
      <4> QED BY <1>10, <3>1, <4>2
    <3>2. CASE c # c0
      BY <1>10, <3>2
    <3> QED BY <3>1, <3>2
  <2>9. \A c \in Capture : c \notin cut' => OnlyBy(file'[c], v) = OnlyBy(file[c], v)
    BY <1>10, <1>16, <1>18
  <2>10. Written(v)'
    <3>1. pc'[v] \in {"idle", "lock", "check", "refused"} => \A c \in Capture : NoneBy(file'[c], v)
      BY <1>18, <2>1, <2>8 DEF Written
    <3>2. pc'[v] = "write" => \A c \in Left(v) : NoneBy(file'[c], v)
      BY <1>18, <2>1, <2>4, <2>8 DEF Written
    <3>3. pc'[v] \in {"write", "ok"} => \A c \in PathsOf(batch[v]) \ cut' :
            c \notin Left(v) => OnlyBy(file'[c], v) = LinesOf(v, batch[v], c)
      BY <1>12, <1>18, <2>1, <2>4, <2>9 DEF Written
    <3> QED BY <2>1, <2>2, <3>1, <3>2, <3>3 DEF Written
  <2> QED BY <2>3, <2>7, <2>10
<1>19. ASSUME NEW v \in Writer, pc'[v] \in {"failed", "killed"}
       PROVE  Placed(v)' /\ Checked(v)' /\ Written(v)'
  BY <1>19 DEF Placed, Checked, Written
<1>20. ASSUME pc'[w] \notin {"failed", "killed"}
       PROVE  Placed(w)' /\ Checked(w)' /\ Written(w)'
  <2>1. /\ part = ls /\ left'[w] = Tail(left[w]) /\ cut' = cut
        /\ pc'[w] = IF Tail(left[w]) = <<>> THEN "ok" ELSE "write"
    BY <1>20 DEF ls
  <2>2. PICK q \in Seq(Capture) : q = Tail(left[w])
    <3>1. Tail(left[w]) \in Seq(Capture)
      BY <1>1, HeadTailProperties
    <3> QED BY <3>1
  <2>3. /\ Left(w)' = {q[i] : i \in 1..Len(q)}
        /\ \A i, j \in 1..Len(q) : i # j => q[i] # q[j]
    <3>1. Left(w)' = {q[i] : i \in 1..Len(q)}
      BY <2>1, <2>2 DEF Left
    <3>2. PICK l \in Seq(Capture) : l = left[w]
      BY <1>1
    <3>3. /\ Len(l) \in Nat /\ Len(q) = Len(l) - 1 /\ \A i \in 1..Len(l) - 1 : q[i] = l[i + 1]
      BY <1>1, <2>2, <3>2
    <3>4. \A i, j \in 1..Len(q) : i # j => /\ i + 1 \in 1..Len(l) /\ j + 1 \in 1..Len(l)
                                           /\ i + 1 # j + 1
      BY <3>3
    <3>5. \A i, j \in 1..Len(q) : i # j => q[i] # q[j]
      BY <1>1, <3>2, <3>3, <3>4
    <3> QED BY <3>1, <3>5
  <2>4. /\ \A c \in Left(w)' : c \in Left(w) /\ c # c0 /\ c \in Capture /\ c \in PathsOf(b)
        /\ \A c : c \notin Left(w)' => c = c0 \/ c \notin Left(w)
        /\ q = <<>> => Left(w)' = {}
    <3>1. \A i \in 1..Len(q) : q[i] \in Left(w) /\ q[i] # c0
      BY <1>2, <2>2
    <3>2. \A c \in Left(w) : c = c0 \/ \E i \in 1..Len(q) : q[i] = c
      BY <1>2, <2>2
    <3>3. \A c \in Left(w)' : c \in Left(w) /\ c # c0
      BY <2>3, <3>1
    <3>4. \A c \in Left(w) : c \in Capture /\ c \in PathsOf(b)
      BY <1>1, <1>2
    <3>5. \A c : c \notin Left(w)' => c = c0 \/ c \notin Left(w)
      BY <2>3, <3>2
    <3>6. q = <<>> => Left(w)' = {}
      BY <2>3
    <3> QED BY <3>3, <3>4, <3>5, <3>6
  <2>5. batch'[w] = b /\ at'[w] = at[w] /\ left'[w] = q /\ pc'[w] \in {"ok", "write"}
    BY <2>1, <2>2
  <2>6. Placed(w)'
    <3>1. pc'[w] = "ok" => q = <<>>
      BY <2>1, <2>2
    <3>2. pc'[w] = "write" => q # <<>>
      BY <2>1, <2>2
    <3>3. at'[w] = Len(b) + 1
      BY <1>0, <2>5 DEF Placed
    <3>4. Left(w)' \subseteq PathsOf(b)
      BY <2>4
    <3> QED BY <1>1, <2>3, <2>5, <3>1, <3>2, <3>3, <3>4 DEF Placed
  <2>7. Checked(w)'
    <3>1. \A c \in Left(w)' : Sound(p, file'[c], b, Len(b), c)
      BY <1>0, <1>1, <1>10, <2>4 DEF Checked
    <3> QED BY <1>1, <1>14, <2>5, <3>1 DEF Checked
  <2>8. Written(w)'
    <3>1. \A c \in Left(w)' : NoneBy(file'[c], w)
      BY <1>0, <1>10, <2>4 DEF Written
    <3>2. \A c \in PathsOf(b) \ cut' : c \notin Left(w)' => OnlyBy(file'[c], w) = LinesOf(w, b, c)
      <4> SUFFICES ASSUME NEW c \in PathsOf(b), c \notin cut', c \notin Left(w)'
                   PROVE  OnlyBy(file'[c], w) = LinesOf(w, b, c)
        OBVIOUS
      <4>1. CASE c = c0
        BY <1>3, <1>10, <1>16, <4>1
      <4>2. CASE c # c0
        <5>1. c \in Capture /\ c \notin Left(w) /\ c \notin cut
          BY <1>0, <2>1, <2>4, <4>2, CallFacts
        <5> QED BY <1>0, <1>10, <4>2, <5>1 DEF Written
      <4> QED BY <4>1, <4>2
    <3> QED BY <2>5, <3>1, <3>2 DEF Written
  <2> QED BY <2>6, <2>7, <2>8
<1>21. \A v \in Writer : Placed(v)' /\ Checked(v)' /\ Written(v)'
  <2> TAKE v \in Writer
  <2>1. CASE v # w
    BY <1>18, <1>19, <2>1
  <2>2. CASE v = w
    BY <1>19, <1>20, <2>2
  <2> QED BY <2>1, <2>2
<1> QED BY <1>10, <1>17, <1>21
----------------------------------------------------------------------------
(* A call that took no step, when the files are as they were; and one that *)
(* was killed.                                                             *)
LEMMA Unmoved ==
  ASSUME file' = file, cut' = cut, NEW v,
         pc'[v] = pc[v], batch'[v] = batch[v], at'[v] = at[v], known'[v] = known[v],
         left'[v] = left[v], Placed(v), Checked(v), Written(v)
  PROVE  Placed(v)' /\ Checked(v)' /\ Written(v)'
<1>1. Left(v)' = Left(v)
  BY DEF Left
<1>2. Placed(v)'
  BY <1>1 DEF Placed
<1>3. Checked(v)'
  BY <1>1 DEF Checked
<1>4. Written(v)'
  BY <1>1 DEF Written
<1> QED BY <1>2, <1>3, <1>4

LEMMA Killed ==
  ASSUME NEW v, pc'[v] \in {"failed", "killed"}
  PROVE  Placed(v)' /\ Checked(v)' /\ Written(v)'
BY DEF Placed, Checked, Written

(* The locks a call gives back are its own.                                *)
LEMMA Released ==
  ASSUME Typed, Locked, NEW w \in Writer, Release(w), batch' = batch, pc'[w] \in Ended,
         \A v \in Writer : v # w => pc'[v] = pc[v]
  PROVE  lock' \in [Process -> [Capture -> Writer \cup {None}]] /\ Locked'
<1>1. /\ lock \in [Process -> [Capture -> Writer \cup {None}]] /\ ProcessOf[w] \in Process
      /\ None \notin Writer
  BY RecordAssumption, CallFacts DEF Typed
<1> DEFINE row == [c \in Capture |-> IF lock[ProcessOf[w]][c] = w THEN None
                                    ELSE lock[ProcessOf[w]][c]]
<1>2. row \in [Capture -> Writer \cup {None}]
  BY <1>1
<1>3. lock' = [lock EXCEPT ![ProcessOf[w]] = row]
  BY DEF Release
<1>4. \A c \in Capture : row[c] = IF lock[ProcessOf[w]][c] = w THEN None
                                  ELSE lock[ProcessOf[w]][c]
  OBVIOUS
<1> HIDE DEF row
<1>5. lock' \in [Process -> [Capture -> Writer \cup {None}]]
  BY <1>1, <1>2, <1>3
<1>6. \A q \in Process, c \in Capture :
        lock'[q][c] = IF q = ProcessOf[w] /\ lock[q][c] = w THEN None ELSE lock[q][c]
  BY <1>1, <1>3, <1>4
<1>7. \A v \in Writer, c \in Capture : v # w =>
        /\ Own(v, c) = v => Own(v, c)' = v
        /\ Own(v, c) # v => Own(v, c)' # v
  <2>1. \A v \in Writer : ProcessOf[v] \in Process
    BY DEF Process
  <2> QED BY <1>1, <1>6, <2>1 DEF Own
<1>8. \A c \in Capture : Own(w, c)' # w
  BY <1>1, <1>6 DEF Own
<1>9. \A q \in Process, c \in Capture :
        lock'[q][c] \in {v \in Writer : ProcessOf[v] = q} \cup {None}
  BY <1>6 DEF Locked
<1>10. ASSUME NEW v \in Writer
       PROVE  /\ pc'[v] = "lock" => \E c \in PathsOf(batch[v]) : Own(v, c)' # v
              /\ pc'[v] \in {"check", "write"} => \A c \in PathsOf(batch[v]) : Own(v, c)' = v
              /\ pc'[v] \in Ended \cup {"idle"} => \A c \in Capture : Own(v, c)' # v
  <2>1. PathsOf(batch[v]) \subseteq Capture
    BY CallFacts
  <2>2. CASE v = w
    BY <1>8, <2>2 DEF Ended
  <2>3. CASE v # w
    BY <1>7, <2>1, <2>3 DEF Locked
  <2> QED BY <2>2, <2>3
<1> QED BY <1>5, <1>9, <1>10 DEF Locked

(* The lock a call waits for.                                              *)
LEMMA AwaitedFacts ==
  ASSUME IInv, NEW w \in Writer, pc[w] = "lock"
  PROVE  Awaited(w) \in PathsOf(batch[w]) /\ Awaited(w) \in Capture /\ Own(w, Awaited(w)) # w
<1> DEFINE T == {c \in PathsOf(batch[w]) : Own(w, c) # w}
<1>1. PathsOf(batch[w]) \subseteq Capture /\ Capture \subseteq Nat
  BY CallFacts, RecordAssumption DEF IInv
<1>2. T # {} /\ T \in SUBSET Nat
  BY <1>1 DEF IInv, Locked
<1>3. Min(T) \in T
  <2> HIDE DEF T
  <2> QED BY <1>2, MinOfNaturals
<1> QED BY <1>1, <1>3 DEF Awaited

----------------------------------------------------------------------------
(* One step of the check: of the entry, and of the captures it is not in.  *)
LEMMA CheckedNext ==
  ASSUME NEW p, NEW f \in Seq(Line), FilledIn(f), NEW b \in Seq(Asked), NEW n \in Nat,
         n + 1 <= Len(b), NEW e, e = b[n + 1], NEW c, c = e.capture,
         NEW k \in (SUBSET Id) \cup {None}, NEW ids,
         ids = IF k = None THEN Ids(f) ELSE k,
         k = None => Readable(f), e.id \notin ids, e.supersedes # None => e.supersedes \in ids,
         DistinctIds(b, n), Sound(p, f, b, n, c), Knows(p, f, b, n, c, k)
  PROVE  /\ DistinctIds(b, n + 1) /\ Sound(p, f, b, n + 1, c)
         /\ Knows(p, f, b, n + 1, c, ids \cup {e.id})
         /\ ids \cup {e.id} \in SUBSET Id
<1>1. /\ Len(f) \in Nat /\ DOMAIN f = 1..Len(f) /\ Len(b) \in Nat /\ e \in Asked
  BY LenProperties, ElementOfSeq
<1>2. e.id \in Id
  BY <1>1 DEF Asked
<1>3. ids \in SUBSET Id
  <2>1. CASE k = None
    BY <1>1, <2>1 DEF FilledIn, Readable, Ids
  <2>2. CASE k # None
    BY <2>2
  <2> QED BY <2>1, <2>2
<1>4. /\ \A i \in 1..n : b[i].capture = c => b[i].id \in ids
      /\ \A i \in 1..Len(f) : f[i].ok /\ ProcessOf[f[i].by] = p => f[i].id \in ids
      /\ Readable(f) => \A id \in ids :
           id \in Ids(f) \/ \E i \in 1..n : b[i].capture = c /\ b[i].id = id
  <2>1. CASE k = None
    BY <1>1, <2>1 DEF Knows, Ids
  <2>2. CASE k # None
    BY <2>2 DEF Knows
  <2> QED BY <2>1, <2>2
<1>5. \A i \in 1..(n + 1) : i \in 1..n \/ (i = n + 1 /\ b[i] = e)
  OBVIOUS
<1>6. n + 1 \in 1..(n + 1) /\ \A i \in 1..n : i \in 1..(n + 1)
  OBVIOUS
<1>7. DistinctIds(b, n + 1)
  BY <1>4, <1>5 DEF DistinctIds
<1>8. Sound(p, f, b, n + 1, c)
  <2> SUFFICES ASSUME NEW i \in 1..(n + 1), b[i].capture = c
               PROVE  /\ \A j \in 1..Len(f) : f[j].ok /\ ProcessOf[f[j].by] = p => f[j].id # b[i].id
                      /\ b[i].supersedes # None /\ Readable(f) =>
                           \/ b[i].supersedes \in Ids(f)
                           \/ \E j \in 1..i - 1 : b[j].capture = c /\ b[j].id = b[i].supersedes
    BY DEF Sound
  <2>1. CASE i \in 1..n
    BY <2>1 DEF Sound
  <2>2. CASE i = n + 1
    <3>1. b[i] = e /\ i - 1 = n
      BY <2>2
    <3> QED BY <1>4, <3>1
  <2> QED BY <1>5, <2>1, <2>2
<1>9. ids \cup {e.id} # None
  BY <1>2, <1>3, RecordAssumption
<1>10. Knows(p, f, b, n + 1, c, ids \cup {e.id})
  BY <1>4, <1>5, <1>6, <1>9 DEF Knows
<1> QED BY <1>2, <1>3, <1>7, <1>8, <1>10

LEMMA CheckedOther ==
  ASSUME NEW p, NEW f, NEW b, NEW n \in Nat, NEW c, b[n + 1].capture # c, NEW k
  PROVE  /\ Sound(p, f, b, n, c) => Sound(p, f, b, n + 1, c)
         /\ Knows(p, f, b, n, c, k) => Knows(p, f, b, n + 1, c, k)
<1>1. \A i \in 1..(n + 1) : i \in 1..n \/ i = n + 1
  OBVIOUS
<1>2. \A i \in 1..n : i \in 1..(n + 1)
  OBVIOUS
<1>3. Sound(p, f, b, n, c) => Sound(p, f, b, n + 1, c)
  BY <1>1 DEF Sound
<1>4. Knows(p, f, b, n, c, k) => Knows(p, f, b, n + 1, c, k)
  BY <1>1, <1>2 DEF Knows
<1> QED BY <1>3, <1>4
----------------------------------------------------------------------------
(* The invariant, action by action.                                        *)
LEMMA Start == Init => IInv
<1> SUFFICES ASSUME Init PROVE IInv
  OBVIOUS
<1>1. None \notin Writer
  BY RecordAssumption
<1>2. Typed
  BY DEF Init, Typed
<1>3. Files
  <2> SUFFICES ASSUME NEW c \in Capture
               PROVE  /\ FilledIn(file[c]) /\ UniqueIn(file[c]) /\ ParentsIn(file[c])
                      /\ c \notin cut => ClosedIn(file[c])
    BY DEF Files
  <2>1. file[c] = <<>> /\ \A i \in 1..Len(file[c]) : FALSE
    BY DEF Init
  <2> QED BY <2>1 DEF FilledIn, UniqueIn, ParentsIn, ClosedIn
<1>4. Locked
  <2>1. \A q \in Process, c \in Capture : lock[q][c] = None
    BY DEF Init
  <2>2. \A w \in Writer, c \in Capture : Own(w, c) = None
    BY <2>1 DEF Own, Process
  <2>3. \A w \in Writer : pc[w] = "idle"
    BY DEF Init
  <2> QED BY <1>1, <2>1, <2>2, <2>3 DEF Locked
<1>5. ASSUME NEW w \in Writer
      PROVE  Placed(w) /\ Checked(w) /\ Written(w)
  <2>1. pc[w] = "idle" /\ at[w] = 1 /\ \A c \in Capture : known[w][c] = None
    BY DEF Init
  <2>2. \A c \in Capture : NoneBy(file[c], w)
    BY DEF Init, NoneBy
  <2> QED BY <2>1, <2>2 DEF Placed, Checked, Written
<1> QED BY <1>2, <1>3, <1>4, <1>5 DEF IInv

LEMMA BeginKeeps ==
  ASSUME IInv, NEW w \in Writer, NEW b \in Batches, Begin(w, b)
  PROVE  IInv'
<1>0. Typed /\ Files /\ Locked /\ \A v \in Writer : Placed(v) /\ Checked(v) /\ Written(v)
  BY DEF IInv
<1>1. /\ pc[w] = "idle" /\ batch' = [batch EXCEPT ![w] = b]
      /\ pc' = [pc EXCEPT ![w] = IF PathsOf(b) = {} THEN "refused" ELSE "lock"]
      /\ file' = file /\ lock' = lock /\ at' = at /\ known' = known /\ left' = left /\ cut' = cut
  BY DEF Begin, Goto
<1>2. /\ \A v \in Writer : v # w => pc'[v] = pc[v] /\ batch'[v] = batch[v]
      /\ batch'[w] = b /\ pc'[w] = (IF PathsOf(b) = {} THEN "refused" ELSE "lock")
  BY <1>0, <1>1 DEF Typed
<1>3. Typed'
  <2>1. batch' \in [Writer -> Batches \cup {<<>>}]
    BY <1>0, <1>1 DEF Typed
  <2>2. pc' \in [Writer -> {"idle", "lock", "check", "write"} \cup Ended]
    BY <1>0, <1>1 DEF Typed, Ended
  <2> QED BY <1>0, <1>1, <2>1, <2>2 DEF Typed
<1>4. Files'
  BY <1>0, <1>1 DEF Files
<1>5. PathsOf(b) \subseteq Capture
  BY BatchTyped, PathsFacts
<1>6. Locked'
  <2>1. \A v \in Writer, c \in Capture : Own(v, c)' = Own(v, c)
    BY <1>1 DEF Own
  <2>2. \A q \in Process, c \in Capture :
          lock'[q][c] \in {v \in Writer : ProcessOf[v] = q} \cup {None}
    BY <1>0, <1>1 DEF Locked
  <2>3. ASSUME NEW v \in Writer
        PROVE  /\ pc'[v] = "lock" => \E c \in PathsOf(batch'[v]) : Own(v, c)' # v
               /\ pc'[v] \in {"check", "write"} => \A c \in PathsOf(batch'[v]) : Own(v, c)' = v
               /\ pc'[v] \in Ended \cup {"idle"} => \A c \in Capture : Own(v, c)' # v
    <3>1. CASE v # w
      <4>1. PathsOf(batch[v]) \subseteq Capture
        BY <1>0, CallFacts
      <4> QED BY <1>0, <1>2, <2>1, <3>1, <4>1 DEF Locked
    <3>2. CASE v = w
      <4>1. \A c \in Capture : Own(w, c) # w
        BY <1>0, <1>1 DEF Locked
      <4> QED BY <1>2, <1>5, <2>1, <3>2, <4>1
    <3> QED BY <3>1, <3>2
  <2> QED BY <2>2, <2>3 DEF Locked
<1>7. ASSUME NEW v \in Writer
      PROVE  Placed(v)' /\ Checked(v)' /\ Written(v)'
  <2>1. CASE v # w
    BY <1>0, <1>1, <1>2, <2>1, Unmoved
  <2>2. CASE v = w
    <3>1. Placed(w) /\ Written(w)
      BY <1>0
    <3>2. pc'[w] \in {"refused", "lock"}
      BY <1>2
    <3> QED BY <1>1, <2>2, <3>1, <3>2 DEF Placed, Checked, Written
  <2> QED BY <2>1, <2>2
<1> QED BY <1>3, <1>4, <1>6, <1>7 DEF IInv

LEMMA LockKeeps ==
  ASSUME IInv, NEW w \in Writer, Lock(w)
  PROVE  IInv'
<1> DEFINE a == Awaited(w)
           to == IF \A c \in PathsOf(batch[w]) \ {a} : Own(w, c) = w THEN "check" ELSE "lock"
<1>0. Typed /\ Files /\ Locked /\ \A v \in Writer : Placed(v) /\ Checked(v) /\ Written(v)
  BY DEF IInv
<1>1. /\ pc[w] = "lock" /\ Own(w, a) = None
      /\ lock' = [lock EXCEPT ![ProcessOf[w]][a] = w]
      /\ pc' = [pc EXCEPT ![w] = to]
      /\ file' = file /\ batch' = batch /\ at' = at /\ known' = known /\ left' = left /\ cut' = cut
  BY DEF Lock, Goto
<1>2. a \in PathsOf(batch[w]) /\ a \in Capture
  BY <1>1, AwaitedFacts
<1> HIDE DEF a
<1>3. /\ \A v \in Writer : v # w => pc'[v] = pc[v]
      /\ pc'[w] = to /\ to \in {"check", "lock"}
  BY <1>0, <1>1 DEF Typed
<1>4. /\ lock' \in [Process -> [Capture -> Writer \cup {None}]]
      /\ \A q \in Process, c \in Capture :
           lock'[q][c] = IF q = ProcessOf[w] /\ c = a THEN w ELSE lock[q][c]
  BY <1>0, <1>1, <1>2 DEF Typed, Process
<1>5. Typed'
  <2>1. pc' \in [Writer -> {"idle", "lock", "check", "write"} \cup Ended]
    BY <1>0, <1>1, <1>3 DEF Typed
  <2> QED BY <1>0, <1>1, <1>4, <2>1 DEF Typed
<1>6. Files'
  BY <1>0, <1>1 DEF Files
<1>7. None \notin Writer /\ \A v \in Writer : ProcessOf[v] \in Process
  BY RecordAssumption DEF Process
<1>8. Locked'
  <2>1. \A q \in Process, c \in Capture :
          lock'[q][c] \in {v \in Writer : ProcessOf[v] = q} \cup {None}
    BY <1>0, <1>4 DEF Locked
  <2>2. ASSUME NEW v \in Writer
        PROVE  /\ pc'[v] = "lock" => \E c \in PathsOf(batch[v]) : Own(v, c)' # v
               /\ pc'[v] \in {"check", "write"} => \A c \in PathsOf(batch[v]) : Own(v, c)' = v
               /\ pc'[v] \in Ended \cup {"idle"} => \A c \in Capture : Own(v, c)' # v
    <3>0. PathsOf(batch[v]) \subseteq Capture
      BY <1>0, CallFacts
    <3>1. CASE v # w
      <4>1. \A c \in Capture : Own(v, c)' = IF ProcessOf[v] = ProcessOf[w] /\ c = a THEN w
                                            ELSE Own(v, c)
        BY <1>4, <1>7 DEF Own
      <4>2. ProcessOf[v] = ProcessOf[w] => Own(v, a) = None
        BY <1>1 DEF Own
      <4>3. \A c \in Capture : (Own(v, c) = v => Own(v, c)' = v) /\ (Own(v, c) # v => Own(v, c)' # v)
        BY <1>7, <3>1, <4>1, <4>2
      <4> QED BY <1>0, <1>3, <3>0, <3>1, <4>3 DEF Locked
    <3>2. CASE v = w
      <4>1. \A c \in Capture : Own(w, c)' = IF c = a THEN w ELSE Own(w, c)
        BY <1>4, <1>7 DEF Own
      <4>2. pc'[w] = "lock" => \E c \in PathsOf(batch[w]) : c # a /\ Own(w, c) # w
        BY <1>3
      <4>3. pc'[w] = "check" => \A c \in PathsOf(batch[w]) : c = a \/ Own(w, c) = w
        BY <1>3
      <4>4. pc'[w] \in {"check", "lock"}
        BY <1>3
      <4> HIDE DEF to
      <4> QED BY <3>0, <3>2, <4>1, <4>2, <4>3, <4>4 DEF Ended
    <3> QED BY <3>1, <3>2
  <2> QED BY <1>1, <2>1, <2>2 DEF Locked
<1>9. ASSUME NEW v \in Writer
      PROVE  Placed(v)' /\ Checked(v)' /\ Written(v)'
  <2>1. CASE v # w
    BY <1>0, <1>1, <1>3, <2>1, Unmoved
  <2>2. CASE v = w
    <3>1. Placed(w) /\ Written(w)
      BY <1>0
    <3>2. pc'[w] \in {"check", "lock"}
      BY <1>3
    <3>3. at[w] = 1 /\ \A c \in Capture : known[w][c] = None
      BY <1>1, <3>1 DEF Placed
    <3>4. PathsOf(batch[w]) \subseteq Capture /\ Len(Valid(batch[w])) >= 1
      BY <1>0, <1>2, CallFacts, PathsFacts
    <3>5. Placed(w)'
      BY <1>1, <3>2, <3>3, <3>4 DEF Placed
    <3>6. Checked(w)'
      <4>1. at[w] - 1 = 0 /\ \A i \in 1..0 : FALSE
        BY <3>3
      <4> QED BY <1>1, <3>2, <3>3, <3>4, <4>1 DEF Checked, DistinctIds, Sound, Knows
    <3>7. Written(w)'
      BY <1>1, <3>1, <3>2 DEF Written
    <3> QED BY <2>2, <3>5, <3>6, <3>7
  <2> QED BY <2>1, <2>2
<1> QED BY <1>5, <1>6, <1>8, <1>9 DEF IInv
LEMMA CheckKeeps ==
  ASSUME IInv, NEW w \in Writer, Check(w)
  PROVE  IInv'
<1> DEFINE b == Valid(batch[w])
           n == at[w] - 1
           p == ProcessOf[w]
<1>0. Typed /\ Files /\ Locked /\ \A v \in Writer : Placed(v) /\ Checked(v) /\ Written(v)
  BY DEF IInv
<1>1. PICK e, c, ids :
        /\ e = b[at[w]] /\ c = e.capture
        /\ ids = IF known[w][c] = None THEN Ids(file[c]) ELSE known[w][c]
  OBVIOUS
<1> DEFINE sound == /\ known[w][c] = None => Readable(file[c])
                    /\ e.id \notin ids
                    /\ e.supersedes # None => e.supersedes \in ids
<1>2. /\ pc[w] = "check" /\ file' = file /\ batch' = batch /\ cut' = cut
      /\ \/ ~ sound /\ Goto(w, "refused") /\ Release(w) /\ UNCHANGED <<at, known, left>>
         \/ /\ sound
            /\ at' = [at EXCEPT ![w] = @ + 1]
            /\ known' = [known EXCEPT ![w][c] = ids \cup {e.id}]
            /\ \/ at[w] < Len(b) /\ UNCHANGED <<pc, lock, left>>
               \/ ~ (at[w] < Len(b)) /\ b # batch[w] /\ Goto(w, "refused") /\ Release(w) /\ UNCHANGED left
               \/ /\ ~ (at[w] < Len(b)) /\ b = batch[w] /\ Goto(w, "write") /\ lock' = lock
                  /\ left' = [left EXCEPT ![w] = Order(b)]
  BY <1>1 DEF Check
<1>3. /\ batch[w] \in Seq(Asked) /\ at[w] \in Nat \ {0} /\ b \in Seq(Asked) /\ Len(b) \in Nat
      /\ PathsOf(batch[w]) = {b[i].capture : i \in 1..Len(b)}
      /\ PathsOf(batch[w]) \subseteq Capture
  BY <1>0, CallFacts, ValidPrefix, PathsFacts
<1>4. /\ at[w] <= Len(b) /\ n \in Nat /\ n + 1 = at[w] /\ n + 1 <= Len(b)
      /\ at[w] \in 1..Len(b) /\ e = b[n + 1]
  <2>1. at[w] <= Len(b)
    BY <1>0, <1>2 DEF Placed
  <2> QED BY <1>1, <1>3, <2>1
<1>5. c \in PathsOf(batch[w]) /\ c \in Capture
  BY <1>1, <1>3, <1>4
<1>6. /\ DistinctIds(b, n)
      /\ \A d \in PathsOf(batch[w]) : Sound(p, file[d], b, n, d) /\ Knows(p, file[d], b, n, d, known[w][d])
  BY <1>0, <1>2 DEF Checked
<1>7. /\ known \in [Writer -> [Capture -> (SUBSET Id) \cup {None}]]
      /\ known[w][c] \in (SUBSET Id) \cup {None} /\ file[c] \in Seq(Line) /\ FilledIn(file[c])
  BY <1>0, <1>5 DEF Typed, Files
<1> HIDE DEF b, n, p
<1>8. ASSUME sound
      PROVE  /\ DistinctIds(b, n + 1)
             /\ \A d \in PathsOf(batch[w]) : Sound(p, file[d], b, n + 1, d)
             /\ Knows(p, file[c], b, n + 1, c, ids \cup {e.id})
             /\ \A d \in PathsOf(batch[w]) : d # c => Knows(p, file[d], b, n + 1, d, known[w][d])
             /\ ids \cup {e.id} \in SUBSET Id
  <2>1. PICK k \in (SUBSET Id) \cup {None} : k = known[w][c]
    BY <1>7
  <2>2. PICK f \in Seq(Line) : f = file[c] /\ FilledIn(f)
    BY <1>7
  <2>3. /\ ids = IF k = None THEN Ids(f) ELSE k
        /\ k = None => Readable(f)
        /\ e.id \notin ids /\ (e.supersedes # None => e.supersedes \in ids)
        /\ Sound(p, f, b, n, c) /\ Knows(p, f, b, n, c, k)
    BY <1>1, <1>5, <1>6, <1>8, <2>1, <2>2
  <2>4. /\ DistinctIds(b, n + 1) /\ Sound(p, f, b, n + 1, c)
        /\ Knows(p, f, b, n + 1, c, ids \cup {e.id})
        /\ ids \cup {e.id} \in SUBSET Id
    <3>1. /\ FilledIn(f) /\ b \in Seq(Asked) /\ n \in Nat /\ n + 1 <= Len(b)
          /\ e = b[n + 1] /\ c = e.capture /\ DistinctIds(b, n)
      BY <1>1, <1>3, <1>4, <1>6, <2>2
    <3> HIDE DEF sound
    <3> QED BY <2>3, <3>1, CheckedNext
  <2>5. \A d \in PathsOf(batch[w]) : d # c =>
          /\ Sound(p, file[d], b, n + 1, d) /\ Knows(p, file[d], b, n + 1, d, known[w][d])
    BY <1>1, <1>4, <1>6, CheckedOther
  <2> QED BY <2>2, <2>4, <2>5
<1> HIDE DEF sound
<1>9. \A v \in Writer : v # w =>
        pc'[v] = pc[v] /\ at'[v] = at[v] /\ known'[v] = known[v] /\ left'[v] = left[v] /\ batch'[v] = batch[v]
  BY <1>0, <1>2 DEF Typed, Goto
<1>10. \A v \in Writer : v # w => Placed(v)' /\ Checked(v)' /\ Written(v)'
  BY <1>0, <1>2, <1>9, Unmoved
<1>11. Files'
  BY <1>0, <1>2 DEF Files
<1>12. ASSUME sound
       PROVE  /\ at' \in [Writer -> Nat \ {0}] /\ at'[w] = n + 2 /\ at'[w] - 1 = n + 1
              /\ known' \in [Writer -> [Capture -> (SUBSET Id) \cup {None}]]
              /\ known'[w][c] = ids \cup {e.id}
              /\ \A d \in Capture : d # c => known'[w][d] = known[w][d]
  <2>1. at' = [at EXCEPT ![w] = @ + 1] /\ known' = [known EXCEPT ![w][c] = ids \cup {e.id}]
    BY <1>2, <1>12
  <2>2. at \in [Writer -> Nat \ {0}]
    BY <1>0 DEF Typed
  <2>3. at' \in [Writer -> Nat \ {0}] /\ at'[w] = at[w] + 1
    BY <2>1, <2>2
  <2>4. at'[w] = n + 2 /\ at'[w] - 1 = n + 1
    BY <1>4, <2>3
  <2>5. PICK x : x = ids \cup {e.id}
    OBVIOUS
  <2>6. x \in (SUBSET Id) \cup {None}
    BY <1>8, <1>12, <2>5
  <2>7. known' = [known EXCEPT ![w][c] = x]
    BY <2>1, <2>5
  <2>8. /\ known' \in [Writer -> [Capture -> (SUBSET Id) \cup {None}]] /\ known'[w][c] = x
        /\ \A d \in Capture : d # c => known'[w][d] = known[w][d]
    BY <1>5, <1>7, <2>6, <2>7
  <2> QED BY <2>3, <2>4, <2>5, <2>8
<1>13. CASE Goto(w, "refused")
  <2>1. pc' \in [Writer -> {"idle", "lock", "check", "write"} \cup Ended] /\ pc'[w] = "refused"
    BY <1>0, <1>13 DEF Typed, Goto, Ended
  <2>2. Release(w) /\ left' = left
    <3>1. pc'[w] # pc[w] /\ pc'[w] # "write"
      BY <1>2, <2>1
    <3> QED BY <1>0, <1>2, <3>1 DEF Goto, Typed
  <2>3. lock' \in [Process -> [Capture -> Writer \cup {None}]] /\ Locked'
    BY <1>0, <1>2, <1>9, <2>1, <2>2, Released DEF Ended
  <2>4. /\ at' \in [Writer -> Nat \ {0}]
        /\ known' \in [Writer -> [Capture -> (SUBSET Id) \cup {None}]]
    <3>1. CASE sound
      BY <1>12, <3>1
    <3>2. CASE ~ sound
      BY <1>0, <1>2, <3>2 DEF Typed
    <3> QED BY <3>1, <3>2
  <2>5. Typed'
    BY <1>0, <1>2, <2>1, <2>2, <2>3, <2>4 DEF Typed
  <2>6. Placed(w)' /\ Checked(w)' /\ Written(w)'
    <3>1. Written(w)
      BY <1>0
    <3> QED BY <1>2, <2>1, <3>1 DEF Placed, Checked, Written
  <2> QED BY <1>10, <1>11, <2>3, <2>5, <2>6 DEF IInv
<1>14. CASE sound /\ at[w] < Len(b) /\ UNCHANGED <<pc, lock, left>>
  <2>1. Typed'
    BY <1>0, <1>2, <1>12, <1>14 DEF Typed
  <2>2. Locked'
    BY <1>0, <1>2, <1>14 DEF Locked, Own
  <2>3. Placed(w)'
    <3>1. at'[w] <= Len(b)
      BY <1>3, <1>4, <1>12, <1>14
    <3> QED BY <1>2, <1>14, <3>1 DEF Placed, b
  <2>4. Checked(w)'
    <3>1. \A d \in PathsOf(batch[w]) : Knows(p, file[d], b, n + 1, d, known'[w][d])
      BY <1>3, <1>8, <1>12, <1>14
    <3>2. /\ DistinctIds(b, at'[w] - 1)
          /\ \A d \in PathsOf(batch[w]) : /\ Sound(p, file[d], b, at'[w] - 1, d)
                                          /\ Knows(p, file[d], b, at'[w] - 1, d, known'[w][d])
      BY <1>8, <1>12, <1>14, <3>1
    <3>3. pc'[w] = "check" /\ batch'[w] = batch[w]
      BY <1>2, <1>14
    <3> QED BY <1>2, <3>2, <3>3 DEF Checked, b, p
  <2>5. Written(w)'
    BY <1>0, <1>2, <1>14 DEF Written
  <2> QED BY <1>10, <1>11, <2>1, <2>2, <2>3, <2>4, <2>5 DEF IInv
<1>15. CASE /\ sound /\ ~ (at[w] < Len(b)) /\ b = batch[w] /\ Goto(w, "write") /\ lock' = lock
            /\ left' = [left EXCEPT ![w] = Order(b)]
  <2>1. pc' \in [Writer -> {"idle", "lock", "check", "write"} \cup Ended] /\ pc'[w] = "write"
    BY <1>0, <1>15 DEF Typed, Goto
  <2>2. \A i \in 1..Len(b) : b[i].capture \in Capture
    BY <1>3
  <2>3. PICK o \in Seq(Capture) : o = Order(b)
    BY <1>3, <2>2, OrderFacts
  <2>4. /\ \A i, j \in 1..Len(o) : i # j => o[i] # o[j]
        /\ \A i \in 1..Len(b) : \E k \in 1..Len(o) : o[k] = b[i].capture
        /\ \A k \in 1..Len(o) : \E i \in 1..Len(b) : o[k] = b[i].capture
    BY <1>3, <2>2, <2>3, OrderFacts
  <2>5. left' \in [Writer -> Seq(Capture)] /\ left'[w] = o
    BY <1>0, <1>15, <2>3 DEF Typed
  <2>6. Typed'
    BY <1>0, <1>2, <1>12, <1>15, <2>1, <2>5 DEF Typed
  <2>7. Locked'
    <3>1. \A v \in Writer, d \in Capture : Own(v, d)' = Own(v, d)
      BY <1>15 DEF Own
    <3>2. ASSUME NEW v \in Writer
          PROVE  /\ pc'[v] = "lock" => \E d \in PathsOf(batch[v]) : Own(v, d)' # v
                 /\ pc'[v] \in {"check", "write"} => \A d \in PathsOf(batch[v]) : Own(v, d)' = v
                 /\ pc'[v] \in Ended \cup {"idle"} => \A d \in Capture : Own(v, d)' # v
      <4>1. PathsOf(batch[v]) \subseteq Capture
        BY <1>0, CallFacts
      <4>2. CASE v # w
        BY <1>0, <1>9, <3>1, <4>1, <4>2 DEF Locked
      <4>3. CASE v = w
        BY <1>0, <1>2, <2>1, <3>1, <4>1, <4>3 DEF Locked, Ended
      <4> QED BY <4>2, <4>3
    <3>3. \A q \in Process, d \in Capture :
            lock'[q][d] \in {v \in Writer : ProcessOf[v] = q} \cup {None}
      BY <1>0, <1>15 DEF Locked
    <3> QED BY <1>2, <3>2, <3>3 DEF Locked
  <2>8. Left(w)' = PathsOf(batch[w])
    <3>1. Left(w)' = {o[k] : k \in 1..Len(o)}
      BY <2>5 DEF Left
    <3>2. PathsOf(batch[w]) = {b[i].capture : i \in 1..Len(b)}
      BY <1>3
    <3>3. \A k \in 1..Len(o) : o[k] \in PathsOf(batch[w])
      BY <2>4, <3>2
    <3>4. \A i \in 1..Len(b) : b[i].capture \in Left(w)'
      BY <2>4, <3>1
    <3> QED BY <3>1, <3>2, <3>3, <3>4
  <2>9. at[w] = Len(b) /\ at'[w] = Len(b) + 1
    BY <1>3, <1>4, <1>12, <1>15
  <2>10. Placed(w)'
    <3>1. o # <<>>
      <4>1. PICK k \in 1..Len(o) : o[k] = b[at[w]].capture
        BY <1>4, <2>4
      <4> QED BY <4>1
    <3>2. Valid(batch'[w]) = batch'[w] /\ at'[w] = Len(batch'[w]) + 1 /\ PathsOf(batch'[w]) = PathsOf(batch[w])
      BY <1>2, <1>15, <2>9 DEF b
    <3> QED BY <2>1, <2>4, <2>5, <2>8, <3>1, <3>2 DEF Placed
  <2>11. Checked(w)'
    <3>1. /\ DistinctIds(b, at'[w] - 1)
          /\ \A d \in PathsOf(batch[w]) : Sound(p, file[d], b, at'[w] - 1, d)
      BY <1>8, <1>12, <1>15
    <3> QED BY <1>2, <2>1, <2>8, <3>1 DEF Checked, b, p
  <2>12. Written(w)'
    <3>1. \A d \in Capture : NoneBy(file[d], w)
      BY <1>0, <1>2 DEF Written
    <3> QED BY <1>2, <1>3, <2>1, <2>8, <3>1 DEF Written
  <2> QED BY <1>10, <1>11, <2>6, <2>7, <2>10, <2>11, <2>12 DEF IInv
<1> QED BY <1>2, <1>13, <1>14, <1>15
LEMMA WriteKeeps ==
  ASSUME IInv, NEW w \in Writer, Write(w)
  PROVE  IInv'
<1> DEFINE c0 == Head(left[w])
           ls == Lines(w, c0)
           q == Tail(left[w])
<1>0. Typed /\ Files /\ Locked /\ \A v \in Writer : Placed(v) /\ Checked(v) /\ Written(v)
  BY DEF IInv
<1>1. /\ pc[w] = "write" /\ file' = [file EXCEPT ![c0] = AppendTo(@, ls)]
      /\ left' = [left EXCEPT ![w] = Tail(@)]
      /\ IF left'[w] = <<>> THEN Goto(w, "ok") /\ Release(w) ELSE UNCHANGED <<pc, lock>>
      /\ batch' = batch /\ at' = at /\ known' = known /\ cut' = cut
  BY DEF Write
<1>2. left[w] \in Seq(Capture) /\ left[w] # <<>>
  BY <1>0, <1>1, CallFacts DEF Placed
<1>3. /\ left' \in [Writer -> Seq(Capture)] /\ left'[w] = q
      /\ \A v \in Writer : v # w => left'[v] = left[v]
  <2>1. PICK t \in Seq(Capture) : t = Tail(left[w])
    BY <1>2, HeadTailProperties
  <2>2. left' = [left EXCEPT ![w] = t] /\ left \in [Writer -> Seq(Capture)]
    BY <1>0, <1>1, <2>1 DEF Typed
  <2> QED BY <2>1, <2>2
<1> HIDE DEF q
<1>4. /\ pc' \in [Writer -> {"idle", "lock", "check", "write"} \cup Ended]
      /\ pc'[w] = (IF q = <<>> THEN "ok" ELSE "write")
      /\ \A v \in Writer : v # w => pc'[v] = pc[v]
  <2>1. CASE q = <<>>
    BY <1>0, <1>1, <1>3, <2>1 DEF Typed, Goto, Ended
  <2>2. CASE q # <<>>
    BY <1>0, <1>1, <1>3, <2>2 DEF Typed
  <2> QED BY <2>1, <2>2
<1>5. lock' \in [Process -> [Capture -> Writer \cup {None}]] /\ Locked'
  <2>1. CASE q = <<>>
    BY <1>0, <1>1, <1>3, <1>4, <2>1, Released DEF Ended
  <2>2. CASE q # <<>>
    <3>1. pc' = pc /\ lock' = lock /\ batch' = batch
      BY <1>1, <1>3, <2>2
    <3>2. Locked'
      BY <1>0, <3>1 DEF Locked, Own
    <3> QED BY <1>0, <3>1, <3>2 DEF Typed
  <2> QED BY <2>1, <2>2
<1>6. /\ file' \in [Capture -> Seq(Line)] /\ Files'
      /\ \A v \in Writer : Placed(v)' /\ Checked(v)' /\ Written(v)'
  <2>1. \A v \in Writer : v # w => left'[v] = left[v] /\ pc'[v] \in {pc[v], "killed"}
    BY <1>3, <1>4
  <2>2. /\ left'[w] = Tail(left[w]) /\ pc'[w] = (IF Tail(left[w]) = <<>> THEN "ok" ELSE "write")
    BY <1>3, <1>4 DEF q
  <2>3. ls \in Parts(ls) \cup {ls}
    OBVIOUS
  <2> QED BY <1>1, <2>1, <2>2, <2>3, FileWritten
<1>7. Typed'
  BY <1>0, <1>1, <1>3, <1>4, <1>5, <1>6 DEF Typed
<1> QED BY <1>5, <1>6, <1>7 DEF IInv

LEMMA WriteFailsKeeps ==
  ASSUME IInv, NEW w \in Writer, WriteFails(w)
  PROVE  IInv'
<1> DEFINE c0 == Head(left[w])
<1>0. Typed /\ Files /\ Locked /\ \A v \in Writer : Placed(v) /\ Checked(v) /\ Written(v)
  BY DEF IInv
<1>1. PICK part \in Parts(Lines(w, c0)) :
        /\ pc[w] = "write" /\ file' = [file EXCEPT ![c0] = AppendTo(@, part)]
        /\ cut' = cut \cup {c0}
        /\ pc' = [pc EXCEPT ![w] = "failed"] /\ Release(w)
        /\ batch' = batch /\ at' = at /\ known' = known /\ left' = left
  BY DEF WriteFails, CutShort, Goto
<1>2. /\ pc' \in [Writer -> {"idle", "lock", "check", "write"} \cup Ended] /\ pc'[w] = "failed"
      /\ \A v \in Writer : v # w => pc'[v] = pc[v] /\ left'[v] = left[v]
  BY <1>0, <1>1 DEF Typed, Ended
<1>3. lock' \in [Process -> [Capture -> Writer \cup {None}]] /\ Locked'
  BY <1>0, <1>1, <1>2, Released DEF Ended
<1>4. /\ file' \in [Capture -> Seq(Line)] /\ Files'
      /\ \A v \in Writer : Placed(v)' /\ Checked(v)' /\ Written(v)'
  <2>1. /\ \A v \in Writer : v # w => left'[v] = left[v] /\ pc'[v] \in {pc[v], "killed"}
        /\ pc'[w] \in {"failed", "killed"}
        /\ part \in Parts(Lines(w, c0)) \cup {Lines(w, c0)}
    BY <1>2
  <2> QED BY <1>1, <2>1, FileWritten
<1>5. cut' \in SUBSET Capture
  <2>1. left[w] \in Seq(Capture) /\ left[w] # <<>>
    BY <1>0, <1>1, CallFacts DEF Placed
  <2>2. c0 \in Capture
    BY <2>1, HeadTailProperties
  <2> QED BY <1>0, <1>1, <2>2 DEF Typed
<1>6. Typed'
  BY <1>0, <1>1, <1>2, <1>3, <1>4, <1>5 DEF Typed
<1> QED BY <1>3, <1>4, <1>6 DEF IInv

LEMMA CrashKeeps ==
  ASSUME IInv, NEW p \in Process, Crash(p)
  PROVE  IInv'
<1> DEFINE busy == {w \in Writer : ProcessOf[w] = p /\ pc[w] \notin Ended \cup {"idle"}}
<1>0. Typed /\ Files /\ Locked /\ \A v \in Writer : Placed(v) /\ Checked(v) /\ Written(v)
  BY DEF IInv
<1>1. /\ pc' = [w \in Writer |-> IF w \in busy THEN "killed" ELSE pc[w]]
      /\ lock' = [lock EXCEPT ![p] = [c \in Capture |-> None]]
      /\ \/ file' = file /\ cut' = cut
         \/ \E w \in busy : pc[w] = "write" /\ CutShort(w)
      /\ batch' = batch /\ at' = at /\ known' = known /\ left' = left
  BY DEF Crash
<1>2. /\ pc' \in [Writer -> {"idle", "lock", "check", "write"} \cup Ended]
      /\ \A v \in Writer : pc'[v] = IF v \in busy THEN "killed" ELSE pc[v]
  BY <1>0, <1>1 DEF Typed, Ended
<1>3. lock' \in [Process -> [Capture -> Writer \cup {None}]]
  <2> DEFINE row == [c \in Capture |-> None]
  <2>1. row \in [Capture -> Writer \cup {None}]
    OBVIOUS
  <2> HIDE DEF row
  <2> QED BY <1>0, <1>1, <2>1 DEF Typed, row
<1>4. \A q \in Process, c \in Capture : lock'[q][c] = IF q = p THEN None ELSE lock[q][c]
  <2>1. lock \in [Process -> [Capture -> Writer \cup {None}]]
    BY <1>0 DEF Typed
  <2> QED BY <1>1, <2>1
<1>5. Locked'
  <2>1. \A q \in Process, c \in Capture :
          lock'[q][c] \in {v \in Writer : ProcessOf[v] = q} \cup {None}
    BY <1>0, <1>4 DEF Locked
  <2>2. ASSUME NEW v \in Writer
        PROVE  /\ pc'[v] = "lock" => \E c \in PathsOf(batch[v]) : Own(v, c)' # v
               /\ pc'[v] \in {"check", "write"} => \A c \in PathsOf(batch[v]) : Own(v, c)' = v
               /\ pc'[v] \in Ended \cup {"idle"} => \A c \in Capture : Own(v, c)' # v
    <3>1. PathsOf(batch[v]) \subseteq Capture /\ ProcessOf[v] \in Process /\ None # v
      BY <1>0, CallFacts, RecordAssumption
    <3>2. CASE ProcessOf[v] = p
      <4>1. \A c \in Capture : Own(v, c)' # v
        BY <1>4, <3>1, <3>2 DEF Own
      <4>2. pc'[v] \in Ended \cup {"idle"}
        BY <1>2, <3>2 DEF Ended
      <4> QED BY <4>1, <4>2 DEF Ended
    <3>3. CASE ProcessOf[v] # p
      <4>1. \A c \in Capture : Own(v, c)' = Own(v, c)
        BY <1>4, <3>1, <3>3 DEF Own
      <4>2. pc'[v] = pc[v]
        BY <1>2, <3>3
      <4> QED BY <1>0, <3>1, <4>1, <4>2 DEF Locked
    <3> QED BY <3>2, <3>3
  <2> QED BY <1>1, <2>1, <2>2 DEF Locked
<1>6. /\ file' \in [Capture -> Seq(Line)] /\ cut' \in SUBSET Capture /\ Files'
      /\ \A v \in Writer : Placed(v)' /\ Checked(v)' /\ Written(v)'
  <2>1. CASE file' = file /\ cut' = cut
    <3>1. Files'
      BY <1>0, <2>1 DEF Files
    <3>2. \A v \in Writer : Placed(v)' /\ Checked(v)' /\ Written(v)'
      <4> TAKE v \in Writer
      <4>1. CASE v \in busy
        BY <1>2, <4>1, Killed
      <4>2. CASE v \notin busy
        BY <1>0, <1>1, <1>2, <2>1, <4>2, Unmoved
      <4> QED BY <4>1, <4>2
    <3> QED BY <1>0, <2>1, <3>1, <3>2 DEF Typed
  <2>2. ASSUME NEW w \in busy, pc[w] = "write", CutShort(w)
        PROVE  /\ file' \in [Capture -> Seq(Line)] /\ cut' \in SUBSET Capture /\ Files'
               /\ \A v \in Writer : Placed(v)' /\ Checked(v)' /\ Written(v)'
    <3> DEFINE c0 == Head(left[w])
    <3>1. PICK part \in Parts(Lines(w, c0)) :
            file' = [file EXCEPT ![c0] = AppendTo(@, part)] /\ cut' = cut \cup {c0}
      BY <2>2 DEF CutShort
    <3>2. w \in Writer
      OBVIOUS
    <3>3. /\ \A v \in Writer : v # w => left'[v] = left[v] /\ pc'[v] \in {pc[v], "killed"}
          /\ pc'[w] \in {"failed", "killed"}
          /\ part \in Parts(Lines(w, c0)) \cup {Lines(w, c0)}
      BY <1>1, <1>2, <3>2
    <3>4. /\ file' \in [Capture -> Seq(Line)] /\ Files'
          /\ \A v \in Writer : Placed(v)' /\ Checked(v)' /\ Written(v)'
      BY <1>1, <2>2, <3>1, <3>2, <3>3, FileWritten
    <3>5. cut' \in SUBSET Capture
      <4>1. left[w] \in Seq(Capture) /\ left[w] # <<>>
        BY <1>0, <2>2, <3>2, CallFacts DEF Placed
      <4>2. c0 \in Capture
        BY <4>1, HeadTailProperties
      <4> QED BY <1>0, <3>1, <4>2 DEF Typed
    <3> QED BY <3>4, <3>5
  <2> QED BY <1>1, <2>1, <2>2
<1>7. Typed'
  BY <1>0, <1>1, <1>2, <1>3, <1>6 DEF Typed
<1> QED BY <1>5, <1>6, <1>7 DEF IInv

LEMMA StutterKeeps ==
  ASSUME IInv, UNCHANGED vars
  PROVE  IInv'
<1>0. Typed /\ Files /\ Locked /\ \A v \in Writer : Placed(v) /\ Checked(v) /\ Written(v)
  BY DEF IInv
<1>1. /\ file' = file /\ lock' = lock /\ pc' = pc /\ batch' = batch /\ at' = at /\ known' = known
      /\ left' = left /\ cut' = cut
  BY DEF vars
<1>2. Typed'
  BY <1>0, <1>1 DEF Typed
<1>3. Files'
  BY <1>0, <1>1 DEF Files
<1>4. Locked'
  BY <1>0, <1>1 DEF Locked, Own
<1>5. \A v \in Writer : Placed(v)' /\ Checked(v)' /\ Written(v)'
  BY <1>0, <1>1, Unmoved
<1> QED BY <1>2, <1>3, <1>4, <1>5 DEF IInv

(* What the invariant is for.                                              *)
LEMMA InvTyped == IInv => TypeOK
<1> SUFFICES ASSUME IInv PROVE TypeOK
  OBVIOUS
<1>0. Typed /\ Files /\ Locked
  BY DEF IInv
<1>1. file \in [Capture -> Seq(Line)] /\ cut \subseteq Capture
  BY <1>0 DEF Typed
<1>2. \A c \in Capture : \A i \in DOMAIN file[c] :
        file[c][i].ok => file[c][i].by \in Writer /\ file[c][i].id \in Id
  <2> TAKE c \in Capture
  <2>1. DOMAIN file[c] = 1..Len(file[c])
    BY <1>1, LenProperties
  <2> QED BY <1>0, <2>1 DEF Files, FilledIn
<1>3. \A q \in Process, c \in Capture :
        lock[q][c] \in {w \in Writer : ProcessOf[w] = q} \cup {None}
  BY <1>0 DEF Locked
<1>4. pc \in [Writer -> {"idle", "lock", "check", "write"} \cup Ended]
  BY <1>0 DEF Typed
<1>5. \A w \in Writer :
        /\ batch[w] \in Batches \cup {<<>>}
        /\ left[w] \in Seq(Capture)
        /\ pc[w] \in {"check", "write"} => \A c \in PathsOf(batch[w]) : Own(w, c) = w
        /\ pc[w] \in Ended \cup {"idle"} => \A c \in Capture : Own(w, c) # w
  BY <1>0 DEF Typed, Locked
<1> QED BY <1>1, <1>2, <1>3, <1>4, <1>5 DEF TypeOK

LEMMA InvSound == IInv => RecordSound
<1> SUFFICES ASSUME IInv PROVE RecordSound
  OBVIOUS
<1>0. Typed /\ Files /\ \A v \in Writer : Placed(v) /\ Checked(v) /\ Written(v)
  BY DEF IInv
<1>1. \A c \in Capture : DOMAIN file[c] = 1..Len(file[c])
  <2> TAKE c \in Capture
  <2>1. file[c] \in Seq(Line)
    BY <1>0 DEF Typed
  <2> QED BY <2>1, LenProperties
<1>2. IdsUnique
  BY <1>0, <1>1 DEF IdsUnique, Files, UniqueIn
<1>3. ParentsFirst
  BY <1>0, <1>1 DEF ParentsFirst, Files, ParentsIn
<1>4. WholeBatches
  <2> SUFFICES ASSUME NEW w \in Writer
               PROVE  /\ pc[w] = "refused" => \A c \in Capture : \A i \in DOMAIN file[c] : file[c][i].by # w
                      /\ pc[w] = "ok" => \A c \in PathsOf(batch[w]) \ cut :
                           Only(file[c], {l \in ToSet(file[c]) : l.by = w}) = Lines(w, c)
    BY DEF WholeBatches
  <2>1. ASSUME pc[w] = "refused"
        PROVE  \A c \in Capture : \A i \in DOMAIN file[c] : file[c][i].by # w
    BY <1>0, <1>1, <2>1 DEF Written, NoneBy
  <2>2. ASSUME pc[w] = "ok", NEW c \in PathsOf(batch[w]) \ cut
        PROVE  Only(file[c], {l \in ToSet(file[c]) : l.by = w}) = Lines(w, c)
    <3>1. left[w] = <<>>
      BY <1>0, <2>2 DEF Placed
    <3>2. c \notin Left(w)
      BY <3>1 DEF Left
    <3>3. OnlyBy(file[c], w) = LinesOf(w, batch[w], c)
      BY <1>0, <2>2, <3>2 DEF Written
    <3>4. Lines(w, c) = LinesOf(w, batch[w], c)
      BY DEF Lines, Group, LinesOf
    <3> QED BY <3>3, <3>4 DEF OnlyBy
  <2> QED BY <2>1, <2>2
<1> QED BY <1>2, <1>3, <1>4 DEF RecordSound

----------------------------------------------------------------------------
LEMMA Preserved == IInv /\ [Next]_vars => IInv'
<1> SUFFICES ASSUME IInv, [Next]_vars PROVE IInv'
  OBVIOUS
<1>1. ASSUME NEW w \in Writer, NEW b \in Batches, Begin(w, b)
      PROVE  IInv'
  BY <1>1, BeginKeeps
<1>2. ASSUME NEW w \in Writer, Step(w)
      PROVE  IInv'
  BY <1>2, LockKeeps, CheckKeeps, WriteKeeps, WriteFailsKeeps DEF Step
<1>3. ASSUME NEW p \in Process, Crash(p)
      PROVE  IInv'
  BY <1>3, CrashKeeps
<1>4. CASE UNCHANGED vars
  BY <1>4, StutterKeeps
<1> QED BY <1>1, <1>2, <1>3, <1>4 DEF Next

(* Whatever calls run at once, fail or are killed, the invariant holds.    *)
THEOREM Invariance == Spec => []IInv
<1>1. Init => IInv
  BY Start
<1>2. IInv /\ [Next]_vars => IInv'
  BY Preserved
<1> QED BY <1>1, <1>2, PTL DEF Spec

(* The variables keep to their types; a call that checks or writes holds   *)
(* the locks of all its files, and one that has ended holds none           *)
(* (append_many).                                                          *)
THEOREM TypeCorrect == Spec => []TypeOK
BY Invariance, InvTyped, PTL

(* Within a process no id is filed twice, a parent stands above what       *)
(* supersedes it, nothing of a refused batch is filed and all of one that  *)
(* was (append_many), for any number of captures, calls and processes.     *)
THEOREM RecordIsSound == Spec => []RecordSound
BY Invariance, InvSound, PTL
=============================================================================
