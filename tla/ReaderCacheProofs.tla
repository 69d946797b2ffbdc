-------------------------- MODULE ReaderCacheProofs --------------------------
(***************************************************************************)
(* Proofs about ReaderCache, for every finite set of threads, every set of *)
(* paths and every size of the cache.                                      *)
(*                                                                         *)
(* Inv is the inductive invariant.  A reader is in at most one map (OneMap)*)
(* and open while it is there (Listed); the refcount is the number of its  *)
(* holders (Counted); an open reader is in a map or was evicted while in   *)
(* use and waits for its last holder (Kept); and only readers opened too   *)
(* late are in a map that was shut down (Retired).                         *)
(***************************************************************************)
EXTENDS ReaderCache, FiniteSetTheorems, SequenceTheorems, TLAPS

Counted == \A r \in Reader : refs[r] = Cardinality(Holders(r))

Known == /\ \A th \in Thread : held[th] <= opens
         /\ open \subseteq 1..opens /\ evicted \subseteq 1..opens

Listed == \A k \in Cache : ToSet(lru[k]) \subseteq open \ evicted

OneMap == \A j, k \in Cache : j # k => ToSet(lru[j]) \cap ToSet(lru[k]) = {}

Kept == \A r \in open : \/ \E k \in Cache : r \in ToSet(lru[k])
                        \/ r \in evicted /\ refs[r] > 0

Retired == /\ \A k \in Cache : k # default => ToSet(lru[k]) \subseteq late
           /\ \A k \in Cache : k > caches => lru[k] = <<>>

Replaced == \A p \in Path : valid[p] <= file[p]

Inv == /\ TypeOK /\ Counted /\ Known /\ NeverClosedInUse
       /\ BoundedAndUnique /\ Listed /\ OneMap /\ Kept /\ Retired
       /\ Replaced /\ ServesValid
-----------------------------------------------------------------------------
(* Sequences whose entries f tells apart, with an entry removed, added, or *)
(* pushed out.                                                             *)

(* Distinct positions of s hold values that f tells apart.                 *)
Apart(f, s) == \A i, j \in DOMAIN s : f[s[i]] = f[s[j]] => i = j

(* RemoveAt drops one entry and keeps the order of the others.             *)
LEMMA RemoveAtProperties ==
  ASSUME NEW S, NEW s \in Seq(S), NEW i \in 1..Len(s)
  PROVE  /\ RemoveAt(s, i) \in Seq(S)
         /\ Len(RemoveAt(s, i)) = Len(s) - 1
         /\ \A j \in 1..(Len(s) - 1) :
              RemoveAt(s, i)[j] = IF j < i THEN s[j] ELSE s[j + 1]
<1> DEFINE a == SubSeq(s, 1, i - 1)
           b == SubSeq(s, i + 1, Len(s))
<1>1. a \in Seq(S) /\ Len(a) = i - 1 /\ \A j \in 1..(i - 1) : a[j] = s[j]
  OBVIOUS
<1>2. /\ b \in Seq(S) /\ Len(b) = Len(s) - i
      /\ \A j \in 1..(Len(s) - i) : b[j] = s[j + i]
  OBVIOUS
<1>3. RemoveAt(s, i) = a \o b /\ Len(s) \in Nat
  BY DEF RemoveAt
<1> HIDE DEF a, b
<1>4. a \o b \in Seq(S) /\ Len(a \o b) = Len(a) + Len(b)
  <2>1. a \in Seq(S) /\ b \in Seq(S)
    BY <1>1, <1>2
  <2> QED BY <2>1
<1>5. ASSUME NEW j \in 1..(Len(s) - 1)
      PROVE  (a \o b)[j] = IF j < i THEN s[j] ELSE s[j + 1]
  <2>1. CASE j < i
    BY <1>1, <1>2, <1>3, <2>1
  <2>2. CASE ~(j < i)
    <3>1. /\ j - (i - 1) \in 1..(Len(s) - i)
          /\ j \in (Len(a) + 1)..(Len(a) + Len(b))
      BY <1>1, <1>2, <1>3, <2>2
    <3>2. (a \o b)[j] = b[j - Len(a)]
      BY <1>1, <1>2, <1>3, <3>1
    <3>3. j - Len(a) = j - (i - 1) /\ (j - (i - 1)) + i = j + 1
      BY <1>1, <1>3
    <3> QED
      BY <1>2, <2>2, <3>1, <3>2, <3>3
  <2> QED BY <2>1, <2>2
<1> QED BY <1>1, <1>2, <1>3, <1>4, <1>5

(* What is left once an entry is gone: the others, still apart.            *)
LEMMA Removed ==
  ASSUME NEW S, NEW s \in Seq(S), NEW i \in 1..Len(s), NEW f, Apart(f, s)
  PROVE  /\ RemoveAt(s, i) \in Seq(S)
         /\ Len(RemoveAt(s, i)) = Len(s) - 1
         /\ ToSet(RemoveAt(s, i)) = ToSet(s) \ {s[i]}
         /\ Apart(f, RemoveAt(s, i))
<1> DEFINE t == RemoveAt(s, i)
           At(j) == IF j < i THEN j ELSE j + 1
<1>1. /\ t \in Seq(S) /\ Len(t) = Len(s) - 1 /\ Len(s) \in Nat
      /\ \A j \in 1..(Len(s) - 1) : t[j] = s[At(j)]
  BY RemoveAtProperties
<1>2. DOMAIN s = 1..Len(s) /\ DOMAIN t = 1..(Len(s) - 1)
  BY <1>1
<1> HIDE DEF t
<1>3. \A j \in DOMAIN t : At(j) \in DOMAIN s /\ At(j) # i /\ t[j] = s[At(j)]
  BY <1>1, <1>2
<1>4. \A j, l \in DOMAIN t : At(j) = At(l) => j = l
  BY <1>1, <1>2
<1>5. \A m \in DOMAIN s : m # i => \E j \in DOMAIN t : t[j] = s[m]
  <2> TAKE m \in DOMAIN s
  <2> HAVE m # i
  <2>1. CASE m < i
    BY <1>1, <1>2, <2>1
  <2>2. CASE m > i
    <3>1. m - 1 \in DOMAIN t /\ At(m - 1) = m
      BY <1>1, <1>2, <2>2
    <3> QED BY <1>3, <3>1
  <2> QED BY <1>2, <2>1, <2>2
<1>6. \A m \in DOMAIN s : s[m] = s[i] => m = i
  BY <1>2 DEF Apart
<1>7. ToSet(t) = ToSet(s) \ {s[i]}
  <2> HIDE DEF At
  <2> QED BY <1>2, <1>3, <1>5, <1>6 DEF ToSet
<1>8. Apart(f, t)
  <2> HIDE DEF At
  <2> QED BY <1>3, <1>4 DEF Apart
<1> QED BY <1>1, <1>7, <1>8 DEF t

(* A new entry at the end: still apart if f tells it from the others.       *)
LEMMA Appended ==
  ASSUME NEW S, NEW s \in Seq(S), NEW e \in S, NEW f, Apart(f, s),
         \A x \in ToSet(s) : f[x] # f[e]
  PROVE  /\ Append(s, e) \in Seq(S)
         /\ Len(Append(s, e)) = Len(s) + 1
         /\ ToSet(Append(s, e)) = ToSet(s) \cup {e}
         /\ Apart(f, Append(s, e))
<1> DEFINE t == Append(s, e)
<1>1. /\ t \in Seq(S) /\ Len(t) = Len(s) + 1 /\ Len(s) \in Nat
      /\ \A j \in 1..Len(s) : t[j] = s[j]
      /\ t[Len(s) + 1] = e
  OBVIOUS
<1>2. DOMAIN s = 1..Len(s) /\ DOMAIN t = 1..(Len(s) + 1)
  BY <1>1
<1> HIDE DEF t
<1>3. DOMAIN t = DOMAIN s \cup {Len(s) + 1}
  BY <1>1, <1>2
<1>4. ToSet(t) = ToSet(s) \cup {e}
  BY <1>1, <1>2, <1>3 DEF ToSet
<1>5. Apart(f, t)
  BY <1>1, <1>2, <1>3 DEF Apart, ToSet
<1> QED BY <1>1, <1>4, <1>5 DEF t

(* The first n entries are pushed out.                                     *)
LEMMA Trimmed ==
  ASSUME NEW S, NEW s \in Seq(S), NEW n \in 0..Len(s), NEW f, Apart(f, s)
  PROVE  /\ SubSeq(s, n + 1, Len(s)) \in Seq(S)
         /\ Len(SubSeq(s, n + 1, Len(s))) = Len(s) - n
         /\ ToSet(SubSeq(s, n + 1, Len(s))) = ToSet(s) \ {s[i] : i \in 1..n}
         /\ Apart(f, SubSeq(s, n + 1, Len(s)))
<1> DEFINE t == SubSeq(s, n + 1, Len(s))
<1>1. /\ t \in Seq(S) /\ Len(t) = Len(s) - n /\ Len(s) \in Nat
      /\ \A j \in 1..(Len(s) - n) : t[j] = s[j + n]
  OBVIOUS
<1>2. DOMAIN s = 1..Len(s) /\ DOMAIN t = 1..(Len(s) - n)
  BY <1>1
<1> HIDE DEF t
<1>3. \A j \in DOMAIN t : j + n \in DOMAIN s /\ j + n \notin 1..n
                          /\ t[j] = s[j + n]
  BY <1>1, <1>2
<1>4. \A m \in DOMAIN s : m \notin 1..n => \E j \in DOMAIN t : t[j] = s[m]
  <2> TAKE m \in DOMAIN s
  <2> HAVE m \notin 1..n
  <2>1. m - n \in DOMAIN t /\ (m - n) + n = m
    BY <1>1, <1>2
  <2> QED BY <1>3, <2>1
<1>5. \A l, m \in DOMAIN s : s[l] = s[m] => l = m
  BY DEF Apart
<1>6. 1..n \subseteq DOMAIN s
  BY <1>1, <1>2
<1>7. ToSet(t) = ToSet(s) \ {s[i] : i \in 1..n}
  <2>1. ASSUME NEW x \in ToSet(t)
        PROVE  x \in ToSet(s) \ {s[i] : i \in 1..n}
    <3>1. PICK j \in DOMAIN t : x = t[j]
      BY DEF ToSet
    <3>2. j + n \in DOMAIN s /\ j + n \notin 1..n /\ x = s[j + n]
      BY <1>3, <3>1
    <3> QED BY <1>5, <1>6, <3>2 DEF ToSet
  <2>2. ASSUME NEW x \in ToSet(s) \ {s[i] : i \in 1..n}
        PROVE  x \in ToSet(t)
    <3>1. PICK m \in DOMAIN s : x = s[m]
      BY DEF ToSet
    <3> QED BY <1>4, <3>1 DEF ToSet
  <2> QED BY <2>1, <2>2
<1>8. Apart(f, t)
  <2> SUFFICES ASSUME NEW j \in DOMAIN t, NEW l \in DOMAIN t,
                      f[t[j]] = f[t[l]]
               PROVE  j = l
    BY DEF Apart
  <2>1. j + n = l + n
    BY <1>3 DEF Apart
  <2> QED BY <1>1, <1>2, <2>1
<1> QED BY <1>1, <1>7, <1>8 DEF t
-----------------------------------------------------------------------------
(* If every count is the number of holders, a held reader has a count.     *)
LEMMA HeldCounts ==
  ASSUME NEW h, NEW count, NEW th \in Thread, h[th] \in Reader,
         \A r \in Reader : count[r] = Cardinality({u \in Thread : h[u] = r})
  PROVE  count[h[th]] \in Nat \ {0}
<1> DEFINE H == {u \in Thread : h[u] = h[th]}
<1>1. IsFiniteSet(H)
  BY ReaderCacheAssumption, FS_Subset
<1>2. Cardinality(H) # 0
  BY <1>1, FS_EmptySet
<1>3. Cardinality(H) \in Nat
  BY <1>1, FS_CardinalityType
<1>4. count[h[th]] = Cardinality(H)
  OBVIOUS
<1> QED BY <1>2, <1>3, <1>4

LEMMA InvInit == Init => Inv
<1> SUFFICES ASSUME Init PROVE Inv
  OBVIOUS
<1>1. TypeOK
  <2>1. (CHOOSE p \in Path : TRUE) \in Path
    BY ReaderCacheAssumption
  <2>2. path \in [Reader -> Path]
    BY <2>1 DEF Init
  <2>3. lru \in [Cache -> Seq(Reader)]
    BY DEF Init
  <2> QED
    BY <2>2, <2>3, ReaderCacheAssumption
       DEF Init, TypeOK, NoCache, NoReader, Reader
<1>2. ASSUME NEW r \in Reader PROVE refs[r] = Cardinality(Holders(r))
  <2>1. Holders(r) = {}
    BY DEF Init, Holders, NoReader, Reader
  <2> QED BY <2>1, FS_EmptySet DEF Init
<1>3. \A k \in Cache : /\ ToSet(lru[k]) = {} /\ DOMAIN lru[k] = {}
                     /\ Len(lru[k]) = 0
  BY DEF Init, ToSet
<1>4. Known /\ NeverClosedInUse /\ Kept /\ Replaced
  BY ReaderCacheAssumption
     DEF Init, Known, NeverClosedInUse, Kept, Replaced, NoReader
<1>5. Listed /\ OneMap
  BY <1>3 DEF Listed, OneMap
<1>6. BoundedAndUnique
  BY <1>3, ReaderCacheAssumption DEF BoundedAndUnique
<1>7. Retired /\ ServesValid
  BY <1>3 DEF Init, Retired, ServesValid
<1> QED BY <1>1, <1>2, <1>4, <1>5, <1>6, <1>7 DEF Inv, Counted

(* No reader changes hands and no map changes.                             *)
LEMMA LookUpKeeps ==
  ASSUME Inv, NEW th \in Thread, LookUp(th)
  PROVE  Inv'
<1> USE ReaderCacheAssumption DEF Inv, LookUp, entryVars
<1>1. TypeOK'
  BY DEF TypeOK, NoCache
<1>2. Counted'
  BY DEF Counted, Holders
<1>3. Known' /\ NeverClosedInUse' /\ BoundedAndUnique'
  BY DEF Known, NeverClosedInUse, BoundedAndUnique
<1>4. Listed' /\ OneMap' /\ Kept' /\ Replaced'
  BY DEF Listed, OneMap, Kept, Replaced
<1>5. CASE default # NoCache
  BY <1>1, <1>2, <1>3, <1>4, <1>5 DEF Retired, ServesValid
<1>6. CASE default = NoCache
  <2>1. /\ default' = caches + 1 /\ caches' = caches + 1 /\ caches \in Nat
        /\ default' \in Cache
    BY <1>6 DEF TypeOK, Cache
  <2>2. lru[default'] = <<>> /\ ToSet(lru[default']) = {}
    BY <2>1 DEF Retired, ToSet
  <2>3. \A k \in Cache : k # default
    BY <1>6 DEF Cache, NoCache
  <2>4. Retired'
    BY <2>1, <2>2, <2>3 DEF Retired, Cache
  <2>5. ServesValid'
    BY <2>2 DEF ServesValid
  <2> QED BY <1>1, <1>2, <1>3, <1>4, <2>4, <2>5
<1> QED BY <1>5, <1>6

LEMMA ReplaceFileKeeps ==
  ASSUME Inv, NEW p \in Path, ReplaceFile(p)
  PROVE  Inv'
<1> USE ReaderCacheAssumption DEF Inv, ReplaceFile, entryVars
<1>1. TypeOK'
  BY DEF TypeOK
<1>2. Counted' /\ Known' /\ NeverClosedInUse' /\ BoundedAndUnique'
  BY DEF Counted, Holders, Known, NeverClosedInUse, BoundedAndUnique
<1>3. Listed' /\ OneMap' /\ Kept' /\ Retired' /\ ServesValid'
  BY DEF Listed, OneMap, Kept, Retired, ServesValid
<1>4. Replaced'
  BY DEF TypeOK, Replaced
<1> QED BY <1>1, <1>2, <1>3, <1>4

LEMMA OpenFailsKeeps ==
  ASSUME Inv, NEW th \in Thread, NEW p \in Path, OpenFails(th, p)
  PROVE  Inv'
<1> USE DEF Inv, OpenFails, entryVars
<1>1. TypeOK'
  BY DEF TypeOK, NoCache
<1>2. Counted' /\ Known' /\ NeverClosedInUse' /\ BoundedAndUnique'
  BY DEF Counted, Holders, Known, NeverClosedInUse, BoundedAndUnique
<1>3. Listed' /\ OneMap' /\ Kept' /\ Retired' /\ Replaced' /\ ServesValid'
  BY DEF Listed, OneMap, Kept, Retired, Replaced, ServesValid
<1> QED BY <1>1, <1>2, <1>3

(* A cache that was looked up exists.                                      *)
LEMMA UsedExists ==
  ASSUME TypeOK, NEW th \in Thread, using[th] # NoCache
  PROVE  using[th] \in Cache /\ using[th] <= caches
BY ReaderCacheAssumption DEF TypeOK, NoCache, Cache

(* The thread counts itself in: everything else about the map is as before.*)
LEMMA HitKeeps ==
  ASSUME Inv, NEW th \in Thread, NEW i \in 1..MaxSize, Hit(th, i)
  PROVE  Inv'
<1> DEFINE k == using[th]
           e == lru[k][i]
<1>1. /\ k \in Cache /\ k <= caches /\ lru[k] \in Seq(Reader)
      /\ i \in 1..Len(lru[k]) /\ DOMAIN lru[k] = 1..Len(lru[k])
  BY UsedExists DEF Inv, Hit, TypeOK
<1>2. e \in Reader /\ e \in ToSet(lru[k]) /\ e \in open \ evicted
  BY <1>1 DEF Inv, Listed, ToSet
<1>3. Apart(path, lru[k])
  BY <1>1 DEF Inv, BoundedAndUnique, Apart
<1>4. \A x \in ToSet(lru[k]) \ {e} : path[x] # path[e]
  BY <1>1, <1>3 DEF Apart, ToSet
<1> DEFINE t == RemoveAt(lru[k], i)
<1>5. /\ t \in Seq(Reader) /\ Len(t) = Len(lru[k]) - 1
      /\ ToSet(t) = ToSet(lru[k]) \ {e} /\ Apart(path, t)
  BY <1>1, <1>3, Removed
<1> HIDE DEF t
<1>6. /\ Append(t, e) \in Seq(Reader) /\ Len(Append(t, e)) = Len(t) + 1
      /\ ToSet(Append(t, e)) = ToSet(t) \cup {e} /\ Apart(path, Append(t, e))
  BY <1>2, <1>4, <1>5, Appended
<1>7. /\ lru \in [Cache -> Seq(Reader)]
      /\ lru' = [lru EXCEPT ![k] = Append(t, e)]
  BY DEF Hit, Inv, TypeOK, t
<1>8. /\ lru' \in [Cache -> Seq(Reader)]
      /\ \A j \in Cache : /\ ToSet(lru'[j]) = ToSet(lru[j])
                          /\ Len(lru'[j]) = Len(lru[j])
                          /\ Apart(path, lru'[j])
  <2>1. lru' \in [Cache -> Seq(Reader)]
    BY <1>6, <1>7
  <2>2. ToSet(lru'[k]) = ToSet(lru[k]) /\ Len(lru'[k]) = Len(lru[k])
    <3>1. lru'[k] = Append(t, e)
      BY <1>1, <1>7
    <3>2. ToSet(Append(t, e)) = ToSet(lru[k])
      BY <1>2, <1>5, <1>6
    <3>3. Len(lru[k]) \in Nat
      BY <1>1
    <3>4. Len(Append(t, e)) = Len(lru[k])
      BY <1>5, <1>6, <3>3
    <3> QED BY <3>1, <3>2, <3>4
  <2>3. Apart(path, lru'[k])
    BY <1>1, <1>6, <1>7
  <2>4. \A j \in Cache : j # k => lru'[j] = lru[j]
    BY <1>7
  <2>5. \A j \in Cache : Apart(path, lru[j])
    BY DEF Inv, BoundedAndUnique, Apart
  <2> QED BY <2>1, <2>2, <2>3, <2>4, <2>5
<1>9. /\ refs' = [refs EXCEPT ![e] = @ + 1] /\ held' = [held EXCEPT ![th] = e]
      /\ held[th] = NoReader
      /\ UNCHANGED <<default, caches, opens, path, content, evicted, open,
                     using, file, valid, late>>
  BY DEF Hit, entryVars
<1> HIDE DEF e, k
<1>10. TypeOK'
  BY <1>2, <1>8, <1>9 DEF Inv, TypeOK
<1>11. Counted'
  <2> SUFFICES ASSUME NEW r \in Reader
               PROVE  refs'[r] = Cardinality(Holders(r)')
    BY DEF Counted
  <2>1. refs[r] = Cardinality(Holders(r)) /\ refs \in [Reader -> Nat]
    BY DEF Inv, Counted, TypeOK
  <2>2. CASE r = e
    <3>1. Holders(r)' = Holders(r) \cup {th} /\ th \notin Holders(r)
      BY <1>2, <1>9, <2>2 DEF Holders, Inv, TypeOK, NoReader, Reader
    <3>2. IsFiniteSet(Holders(r))
      BY ReaderCacheAssumption, FS_Subset DEF Holders
    <3> QED
      BY <1>9, <2>1, <2>2, <3>1, <3>2, FS_AddElement
  <2>3. CASE r # e
    <3>1. Holders(r)' = Holders(r)
      BY <1>2, <1>9, <2>3 DEF Holders, Inv, TypeOK, NoReader, Reader
    <3> QED BY <1>9, <2>1, <2>3, <3>1
  <2> QED BY <2>2, <2>3
<1>12. Known' /\ NeverClosedInUse'
  BY <1>2, <1>9 DEF Inv, TypeOK, Known, NeverClosedInUse
<1>13. BoundedAndUnique'
  BY <1>8, <1>9 DEF Inv, BoundedAndUnique, Apart
<1>14. Listed' /\ OneMap'
  BY <1>8, <1>9 DEF Inv, Listed, OneMap
<1>15. Kept'
  BY <1>2, <1>8, <1>9 DEF Inv, Kept, TypeOK
<1>16. Retired'
  <2>1. \A j \in Cache : j > caches => lru'[j] = lru[j]
    BY <1>1, <1>7 DEF Inv, TypeOK, Cache
  <2> QED BY <1>8, <1>9, <2>1 DEF Inv, Retired
<1>17. Replaced' /\ ServesValid'
  <2>1. default # NoCache => default \in Cache
    BY ReaderCacheAssumption DEF Inv, TypeOK, NoCache, Cache
  <2> QED BY <1>8, <1>9, <2>1 DEF Inv, Replaced, ServesValid
<1> QED
  BY <1>10, <1>11, <1>12, <1>13, <1>14, <1>15, <1>16, <1>17 DEF Inv

(* The thread counts itself out; a reader that was evicted while in use is *)
(* closed by its last holder.                                              *)
LEMMA ReleaseKeeps ==
  ASSUME Inv, NEW th \in Thread, Release(th)
  PROVE  Inv'
<1> DEFINE e == held[th]
<1>1. /\ e # NoReader
      /\ refs' = [refs EXCEPT ![e] = @ - 1]
      /\ open' = IF refs'[e] = 0 /\ e \in evicted THEN open \ {e} ELSE open
      /\ held' = [held EXCEPT ![th] = NoReader]
      /\ using' = [using EXCEPT ![th] = NoCache]
      /\ UNCHANGED <<lru, default, caches, opens, path, content, evicted, file,
                     valid, late>>
  BY DEF Release, entryVars
<1>2. e \in Reader /\ refs[e] \in Nat \ {0} /\ refs \in [Reader -> Nat]
  <2>1. e \in Reader /\ refs \in [Reader -> Nat]
    BY <1>1 DEF Inv, TypeOK
  <2> QED BY <2>1, HeldCounts DEF Inv, Counted, Holders
<1>3. held \in [Thread -> Reader \cup {NoReader}] /\ e # NoReader
  BY <1>1 DEF Inv, TypeOK
<1>4. held[th] = e
  OBVIOUS
<1> HIDE DEF e
<1>5. TypeOK'
  BY <1>1, <1>2 DEF Inv, TypeOK, NoCache, NoReader
<1>6. Counted'
  <2> SUFFICES ASSUME NEW r \in Reader
               PROVE  refs'[r] = Cardinality(Holders(r)')
    BY DEF Counted
  <2>1. refs[r] = Cardinality(Holders(r)) /\ IsFiniteSet(Holders(r))
    BY ReaderCacheAssumption, FS_Subset DEF Inv, Counted, Holders
  <2>2. CASE r = e
    <3>1. Holders(r)' = Holders(r) \ {th} /\ th \in Holders(r)
      BY <1>1, <1>3, <1>4, <2>2 DEF Holders
    <3> QED
      BY <1>1, <1>2, <2>1, <2>2, <3>1, FS_RemoveElement
  <2>3. CASE r # e
    <3>1. Holders(r)' = Holders(r)
      BY <1>1, <1>3, <1>4, <2>3 DEF Holders, NoReader, Reader
    <3> QED BY <1>1, <1>2, <2>1, <2>3, <3>1
  <2> QED BY <2>2, <2>3
<1>7. Known'
  <2>1. opens' = opens /\ opens \in Nat /\ evicted' = evicted
    BY <1>1, ReaderCacheAssumption DEF Inv, TypeOK
  <2>2. \A u \in Thread : held'[u] = held[u] \/ held'[u] = 0
    BY <1>1, <1>3 DEF NoReader
  <2>3. open' \subseteq open
    BY <1>1
  <2> QED BY <2>1, <2>2, <2>3 DEF Inv, Known
<1>8. NeverClosedInUse'
  <2> SUFFICES ASSUME NEW u \in Thread, held'[u] # NoReader
               PROVE  held'[u] \in open'
    BY DEF NeverClosedInUse
  <2>1. held'[u] = held[u] /\ held[u] \in open
    BY <1>1, <1>3 DEF Inv, NeverClosedInUse
  <2>2. held'[u] \in Reader
    BY <1>5 DEF TypeOK
  <2>3. refs'[held'[u]] \in Nat \ {0}
    BY <1>6, <2>2, HeldCounts DEF Counted, Holders
  <2> QED BY <1>1, <2>1, <2>3
<1>9. BoundedAndUnique' /\ OneMap' /\ Retired' /\ Replaced' /\ ServesValid'
  BY <1>1 DEF Inv, BoundedAndUnique, OneMap, Retired, Replaced, ServesValid
<1>10. Listed'
  BY <1>1 DEF Inv, Listed
<1>11. Kept'
  BY <1>1, <1>2 DEF Inv, Kept, TypeOK
<1> QED
  BY <1>5, <1>6, <1>7, <1>8, <1>9, <1>10, <1>11 DEF Inv

(* Entries leave a map, and what nobody holds of them is closed.           *)
LEMMA DropKeeps ==
  ASSUME Inv, NEW k \in Cache, NEW gone \in SUBSET ToSet(lru[k]),
         NEW t \in Seq(Reader), Len(t) <= Len(lru[k]), Apart(path, t),
         ToSet(t) = ToSet(lru[k]) \ gone,
         lru' = [lru EXCEPT ![k] = t], Drop(gone, open, refs),
         UNCHANGED <<opens, path, refs, held>>
  PROVE  /\ lru' \in [Cache -> Seq(Reader)]
         /\ open' \subseteq open /\ evicted' \subseteq Reader
         /\ \A j \in Cache : ToSet(lru'[j]) \subseteq ToSet(lru[j])
         /\ Counted' /\ Known' /\ NeverClosedInUse' /\ BoundedAndUnique'
         /\ Listed' /\ OneMap' /\ Kept'
<1>1. /\ lru \in [Cache -> Seq(Reader)] /\ lru' \in [Cache -> Seq(Reader)]
      /\ lru'[k] = t /\ \A j \in Cache : j # k => lru'[j] = lru[j]
  BY DEF Inv, TypeOK
<1>2. gone \subseteq open \ evicted /\ open \subseteq Reader
  BY DEF Inv, Listed, TypeOK
<1>3. \A j \in Cache : j # k => ToSet(lru[j]) \cap gone = {}
  BY DEF Inv, OneMap
<1>4. \A j \in Cache : ToSet(lru'[j]) = ToSet(lru[j]) \ gone
  BY <1>1, <1>3
<1>5. /\ evicted' = evicted \cup {r \in gone : refs[r] > 0}
      /\ open' = open \ {r \in gone : refs[r] = 0}
  BY DEF Drop
<1>6. \A r \in gone : refs[r] \in Nat
  BY <1>2 DEF Inv, TypeOK
<1>7. Counted'
  BY DEF Inv, Counted, Holders
<1>8. Known'
  BY <1>2, <1>5 DEF Inv, Known
<1>9. NeverClosedInUse'
  <2> SUFFICES ASSUME NEW u \in Thread, held[u] # NoReader
               PROVE  held[u] \in open'
    BY DEF NeverClosedInUse
  <2>1. held[u] \in Reader /\ held[u] \in open
    BY DEF Inv, TypeOK, NeverClosedInUse
  <2>2. refs[held[u]] \in Nat \ {0}
    BY <2>1, HeldCounts DEF Inv, Counted, Holders
  <2> QED BY <1>5, <2>1, <2>2
<1>10. BoundedAndUnique'
  <2>1. \A j \in Cache : Len(lru[j]) \in Nat /\ Len(lru'[j]) \in Nat
    BY <1>1
  <2>2. \A j \in Cache : Len(lru'[j]) <= Len(lru[j]) /\ Apart(path, lru'[j])
    BY <1>1, <2>1 DEF Inv, BoundedAndUnique, Apart
  <2> QED
    BY <2>1, <2>2, ReaderCacheAssumption DEF Inv, BoundedAndUnique, Apart
<1>11. Listed'
  BY <1>4, <1>5 DEF Inv, Listed
<1>12. OneMap'
  BY <1>4 DEF Inv, OneMap
<1>13. Kept'
  <2> SUFFICES ASSUME NEW r \in open'
               PROVE  \/ \E j \in Cache : r \in ToSet(lru'[j])
                      \/ r \in evicted' /\ refs[r] > 0
    BY DEF Kept
  <2>1. CASE r \in gone
    BY <1>5, <1>6, <2>1
  <2>2. CASE r \notin gone
    BY <1>4, <1>5, <2>2 DEF Inv, Kept
  <2> QED BY <2>1, <2>2
<1>14. evicted' \subseteq Reader
  BY <1>2, <1>5 DEF Inv, TypeOK
<1>15. /\ open' \subseteq open
       /\ \A j \in Cache : ToSet(lru'[j]) \subseteq ToSet(lru[j])
  BY <1>4, <1>5
<1> QED
  BY <1>1, <1>7, <1>8, <1>9, <1>10, <1>11, <1>12, <1>13, <1>14, <1>15

(* The entry of p leaves the map; the version on disk is the one to serve. *)
LEMMA InvalidateKeeps ==
  ASSUME Inv, NEW p \in Path, Invalidate(p)
  PROVE  Inv'
<1>1. /\ default # NoCache /\ default \in Cache /\ lru[default] \in Seq(Reader)
      /\ lru \in [Cache -> Seq(Reader)] /\ valid \in [Path -> 0..MaxReplaced]
      /\ file \in [Path -> 0..MaxReplaced] /\ path \in [Reader -> Path]
      /\ Apart(path, lru[default]) /\ ToSet(lru[default]) \subseteq Reader
  <2>1. default # NoCache /\ default \in Cache
    BY ReaderCacheAssumption DEF Invalidate, Inv, TypeOK, NoCache, Cache
  <2>2. /\ lru \in [Cache -> Seq(Reader)] /\ valid \in [Path -> 0..MaxReplaced]
        /\ file \in [Path -> 0..MaxReplaced] /\ path \in [Reader -> Path]
        /\ open \subseteq Reader
    BY DEF Inv, TypeOK
  <2>3. Apart(path, lru[default])
    BY <2>1 DEF Inv, BoundedAndUnique, Apart
  <2>4. ToSet(lru[default]) \subseteq Reader
    BY <2>1, <2>2 DEF Inv, Listed
  <2> QED BY <2>1, <2>2, <2>3, <2>4
<1>2. /\ valid' = [valid EXCEPT ![p] = file[p]]
      /\ UNCHANGED <<default, caches, opens, path, content, refs, using, held,
                     file, late>>
  BY DEF Invalidate, entryVars
<1>3. Replaced'
  BY <1>1, <1>2, ReaderCacheAssumption DEF Inv, Replaced
<1>4. valid' \in [Path -> 0..MaxReplaced]
  BY <1>1, <1>2
<1>5. CASE UNCHANGED <<lru, evicted, open>>
           /\ \A r \in ToSet(lru[default]) : path[r] # p
  <2>1. TypeOK'
    BY <1>2, <1>4, <1>5 DEF Inv, TypeOK
  <2>2. Counted' /\ Known' /\ NeverClosedInUse' /\ BoundedAndUnique'
    BY <1>2, <1>5
       DEF Inv, Counted, Holders, Known, NeverClosedInUse, BoundedAndUnique
  <2>3. Listed' /\ OneMap' /\ Kept' /\ Retired'
    BY <1>2, <1>5 DEF Inv, Listed, OneMap, Kept, Retired
  <2>4. ServesValid'
    BY <1>1, <1>2, <1>5 DEF Inv, ServesValid
  <2> QED BY <1>3, <2>1, <2>2, <2>3, <2>4 DEF Inv
<1>6. ASSUME NEW i \in DOMAIN lru[default], path[lru[default][i]] = p,
             lru' = [lru EXCEPT ![default] = RemoveAt(@, i)],
             Drop({lru[default][i]}, open, refs)
      PROVE  Inv'
  <2> DEFINE e == lru[default][i]
             t == RemoveAt(lru[default], i)
  <2>1. i \in 1..Len(lru[default]) /\ e \in ToSet(lru[default])
    BY <1>1 DEF ToSet
  <2>2. /\ t \in Seq(Reader) /\ Len(t) = Len(lru[default]) - 1
        /\ ToSet(t) = ToSet(lru[default]) \ {e} /\ Apart(path, t)
    BY <1>1, <2>1, Removed
  <2>3. Len(t) <= Len(lru[default])
    <3>1. Len(lru[default]) \in Nat
      BY <1>1
    <3> HIDE DEF t
    <3> QED BY <2>2, <3>1
  <2>4. lru' = [lru EXCEPT ![default] = t] /\ Drop({e}, open, refs)
    BY <1>1, <1>6
  <2>5. path[e] = p
    BY <1>6
  <2> HIDE DEF e, t
  <2>6. /\ lru' \in [Cache -> Seq(Reader)]
        /\ open' \subseteq open /\ evicted' \subseteq Reader
        /\ \A j \in Cache : ToSet(lru'[j]) \subseteq ToSet(lru[j])
        /\ Counted' /\ Known' /\ NeverClosedInUse' /\ BoundedAndUnique'
        /\ Listed' /\ OneMap' /\ Kept'
    BY <1>1, <1>2, <2>1, <2>2, <2>3, <2>4, DropKeeps
  <2>7. TypeOK'
    BY <1>2, <1>4, <2>6 DEF Inv, TypeOK
  <2>8. Retired'
    <3>1. \A j \in Cache : j > caches => lru'[j] = lru[j]
      BY <1>1, <2>4, ReaderCacheAssumption DEF Inv, TypeOK, Cache
    <3> QED BY <1>2, <2>6, <3>1 DEF Inv, Retired
  <2>9. ServesValid'
    <3> SUFFICES ASSUME NEW r \in ToSet(lru'[default])
                 PROVE  content[r] >= valid'[path[r]]
      BY <1>2 DEF ServesValid
    <3>1. r \in ToSet(lru[default]) /\ r # e /\ r \in Reader
      BY <1>1, <2>2, <2>4
    <3>2. path[r] # p
      BY <1>1, <2>1, <2>5, <3>1 DEF Apart, ToSet
    <3> QED BY <1>1, <1>2, <3>1, <3>2 DEF Inv, ServesValid
  <2> QED BY <1>3, <2>6, <2>7, <2>8, <2>9 DEF Inv
<1> QED
  BY <1>5, <1>6 DEF Invalidate

(* Every entry leaves the map of the singleton, which is then forgotten.   *)
LEMMA ShutdownKeeps ==
  ASSUME Inv, Shutdown
  PROVE  Inv'
<1>1. /\ default # NoCache /\ default \in Cache /\ lru[default] \in Seq(Reader)
      /\ lru \in [Cache -> Seq(Reader)] /\ caches \in Nat /\ default <= caches
  BY ReaderCacheAssumption DEF Shutdown, Inv, TypeOK, NoCache, Cache
<1>2. /\ lru' = [lru EXCEPT ![default] = <<>>] /\ default' = NoCache
      /\ Drop(ToSet(lru[default]), open, refs)
      /\ UNCHANGED <<caches, opens, path, content, refs, using, held, file,
                     valid, late>>
  BY DEF Shutdown, entryVars
<1>3. /\ <<>> \in Seq(Reader) /\ Len(<<>>) = 0 /\ ToSet(<<>>) = {}
      /\ Apart(path, <<>>)
  BY DEF ToSet, Apart
<1>4. Len(<<>>) <= Len(lru[default])
  BY <1>1
<1>5. /\ lru' \in [Cache -> Seq(Reader)]
      /\ open' \subseteq open /\ evicted' \subseteq Reader
      /\ \A j \in Cache : ToSet(lru'[j]) \subseteq ToSet(lru[j])
      /\ Counted' /\ Known' /\ NeverClosedInUse' /\ BoundedAndUnique'
      /\ Listed' /\ OneMap' /\ Kept'
  BY <1>1, <1>2, <1>3, <1>4, DropKeeps
<1>6. TypeOK'
  BY <1>1, <1>2, <1>5 DEF Inv, TypeOK, NoCache
<1>7. Retired'
  <2>1. /\ ToSet(lru'[default]) = {}
        /\ \A j \in Cache : j # default => lru'[j] = lru[j]
    BY <1>1, <1>2, <1>3
  <2>2. \A j \in Cache : j > caches => j # default
    BY <1>1 DEF Cache
  <2> QED BY <1>2, <2>1, <2>2 DEF Inv, Retired
<1>8. Replaced' /\ ServesValid'
  BY <1>2 DEF Inv, Replaced, ServesValid
<1> QED BY <1>5, <1>6, <1>7, <1>8 DEF Inv

(* A new reader enters the map, held once; the entries in front of it make *)
(* room.                                                                   *)
LEMMA MissKeeps ==
  ASSUME Inv, NEW th \in Thread, NEW p \in Path, Miss(th, p)
  PROVE  Inv'
<1> DEFINE k == using[th]
           r == opens + 1
           all == Append(lru[k], r)
           n == IF Len(all) > MaxSize THEN Len(all) - MaxSize ELSE 0
           gone == {all[i] : i \in 1..n}
           t == SubSeq(all, n + 1, Len(all))
<1>1. /\ k \in Cache /\ k <= caches /\ lru \in [Cache -> Seq(Reader)]
      /\ held[th] = NoReader /\ \A x \in ToSet(lru[k]) : path[x] # p
      /\ opens' = r /\ path' = [path EXCEPT ![r] = p]
      /\ content' = [content EXCEPT ![r] = file[p]]
      /\ refs' = [refs EXCEPT ![r] = 1] /\ held' = [held EXCEPT ![th] = r]
      /\ lru' = [lru EXCEPT ![k] = t]
      /\ late' = IF k = default THEN late ELSE late \cup {r}
      /\ UNCHANGED <<default, caches, using, file, valid>>
  BY UsedExists DEF Inv, TypeOK, Miss
<1>2. /\ evicted' = evicted \cup {x \in gone : refs'[x] > 0}
      /\ open' = (open \cup {r}) \ {x \in gone : refs'[x] = 0}
  BY DEF Miss, Drop
<1>3. r \in Reader /\ r \notin 1..opens /\ r > opens /\ opens \in Nat
  BY ReaderCacheAssumption DEF Miss, Inv, TypeOK, Reader
<1>4. \A j \in Cache : ToSet(lru[j]) \subseteq open \ evicted
  BY DEF Inv, Listed
<1>5. open \subseteq 1..opens /\ evicted \subseteq 1..opens
  BY DEF Inv, Known
<1>6. /\ path \in [Reader -> Path] /\ refs \in [Reader -> Nat]
      /\ held \in [Thread -> Reader \cup {NoReader}] /\ open \subseteq Reader
      /\ content \in [Reader -> 0..MaxReplaced]
      /\ file \in [Path -> 0..MaxReplaced] /\ valid \in [Path -> 0..MaxReplaced]
  BY DEF Inv, TypeOK
<1>7. \A u \in Thread : held[u] <= opens
  BY DEF Inv, Known
<1>8. \A j \in Cache : Len(lru[j]) \in Nat /\ Len(lru[j]) <= MaxSize
  BY <1>1 DEF Inv, BoundedAndUnique
<1> HIDE DEF k, r
<1>9. /\ path'[r] = p
      /\ \A x \in open : path'[x] = path[x] /\ x # r /\ x \in Reader
  BY <1>1, <1>3, <1>5, <1>6
<1>10. \A j \in Cache : Apart(path', lru[j])
  <2> SUFFICES ASSUME NEW j \in Cache, NEW a \in DOMAIN lru[j],
                      NEW b \in DOMAIN lru[j],
                      path'[lru[j][a]] = path'[lru[j][b]]
               PROVE  a = b
    BY DEF Apart
  <2>1. lru[j][a] \in open /\ lru[j][b] \in open
    BY <1>4 DEF ToSet
  <2>2. path[lru[j][a]] = path[lru[j][b]]
    BY <1>9, <2>1
  <2> QED BY <2>2 DEF Inv, BoundedAndUnique
<1>11. \A x \in ToSet(lru[k]) : path'[x] # path'[r]
  BY <1>1, <1>4, <1>9
<1>12. lru[k] \in Seq(Reader) /\ Apart(path', lru[k]) /\ Len(lru[k]) \in Nat
  BY <1>1, <1>8, <1>10
<1>13. /\ all \in Seq(Reader) /\ Len(all) = Len(lru[k]) + 1
       /\ ToSet(all) = ToSet(lru[k]) \cup {r} /\ Apart(path', all)
  BY <1>3, <1>11, <1>12, Appended
<1>14. \A i \in 1..Len(lru[k]) : all[i] = lru[k][i]
  BY <1>3, <1>12
<1> HIDE DEF all
<1>15. n \in 0..Len(lru[k]) /\ n \in 0..Len(all) /\ Len(all) - n <= MaxSize
  BY <1>1, <1>8, <1>13, ReaderCacheAssumption
<1> HIDE DEF n
<1>16. /\ t \in Seq(Reader) /\ Len(t) = Len(all) - n
       /\ ToSet(t) = ToSet(all) \ gone /\ Apart(path', t)
  BY <1>13, <1>15, Trimmed
<1>17. gone \subseteq ToSet(lru[k])
  BY <1>12, <1>14, <1>15 DEF ToSet
<1> HIDE DEF gone, t
<1>18. r \notin gone /\ ToSet(t) = (ToSet(lru[k]) \ gone) \cup {r}
  BY <1>1, <1>4, <1>9, <1>13, <1>16, <1>17
<1>19. /\ lru' \in [Cache -> Seq(Reader)] /\ lru'[k] = t
       /\ \A j \in Cache : j # k => lru'[j] = lru[j]
  BY <1>1, <1>16
<1>20. \A j \in Cache : j # k => ToSet(lru[j]) \cap ToSet(lru[k]) = {}
  BY <1>1 DEF Inv, OneMap
<1>21. \A x \in open : refs'[x] = refs[x] /\ refs[x] \in Nat
  BY <1>1, <1>6, <1>9
<1>22. open' \subseteq open \cup {r} /\ evicted' \subseteq evicted \cup gone
       /\ r \in open' /\ r \notin evicted' /\ gone \subseteq open
  BY <1>1, <1>2, <1>3, <1>4, <1>5, <1>17, <1>18
<1>23. TypeOK'
  <2>1. opens' \in 0..MaxOpens
    BY <1>1, <1>3, ReaderCacheAssumption DEF Reader
  <2>2. path' \in [Reader -> Path] /\ content' \in [Reader -> 0..MaxReplaced]
    BY <1>1, <1>6
  <2>3. /\ refs' \in [Reader -> Nat]
        /\ held' \in [Thread -> Reader \cup {NoReader}]
    BY <1>1, <1>3, <1>6
  <2>4. /\ open' \subseteq Reader /\ evicted' \subseteq Reader
        /\ late' \subseteq Reader
    BY <1>1, <1>3, <1>6, <1>22 DEF Inv, TypeOK
  <2> QED BY <1>1, <1>19, <2>1, <2>2, <2>3, <2>4 DEF Inv, TypeOK
<1>24. Counted'
  <2> SUFFICES ASSUME NEW x \in Reader
               PROVE  refs'[x] = Cardinality(Holders(x)')
    BY DEF Counted
  <2>1. CASE x = r
    <3>1. \A u \in Thread : held[u] # r
      BY <1>3, <1>6, <1>7 DEF NoReader, Reader
    <3>2. \A u \in Thread : held'[u] = r <=> u = th
      BY <1>1, <1>6, <3>1
    <3>3. Holders(x)' = {u \in Thread : held'[u] = r}
      BY <2>1 DEF Holders
    <3>4. Holders(x)' = {th}
      BY <3>2, <3>3
    <3> QED BY <1>1, <1>3, <1>6, <2>1, <3>4, FS_Singleton
  <2>2. CASE x # r
    <3>1. Holders(x)' = Holders(x)
      BY <1>1, <1>6, <2>2 DEF Holders, NoReader, Reader
    <3> QED BY <1>1, <2>2, <3>1 DEF Inv, Counted
  <2> QED BY <2>1, <2>2
<1>25. Known'
  <2>1. \A u \in Thread : held'[u] <= opens'
    BY <1>1, <1>3, <1>6, <1>7 DEF r, Reader, NoReader
  <2>2. open' \subseteq 1..opens' /\ evicted' \subseteq 1..opens'
    BY <1>1, <1>3, <1>5, <1>22 DEF r
  <2> QED BY <2>1, <2>2 DEF Known
<1>26. NeverClosedInUse'
  <2> SUFFICES ASSUME NEW u \in Thread, held'[u] # NoReader
               PROVE  held'[u] \in open'
    BY DEF NeverClosedInUse
  <2>1. CASE u = th
    BY <1>1, <1>6, <1>22, <2>1
  <2>2. CASE u # th
    <3>1. held'[u] = held[u] /\ held[u] \in Reader /\ held[u] \in open
      BY <1>1, <1>6, <2>2 DEF Inv, NeverClosedInUse
    <3>2. refs[held[u]] \in Nat \ {0}
      BY <3>1, HeldCounts DEF Inv, Counted, Holders
    <3> QED BY <1>2, <1>21, <3>1, <3>2
  <2> QED BY <2>1, <2>2
<1>27. BoundedAndUnique'
  <2>1. \A j \in Cache : Len(lru'[j]) <= MaxSize /\ Apart(path', lru'[j])
    BY <1>8, <1>10, <1>13, <1>15, <1>16, <1>19
  <2> QED BY <2>1 DEF BoundedAndUnique, Apart
<1>28. Listed'
  <2> SUFFICES ASSUME NEW j \in Cache, NEW x \in ToSet(lru'[j])
               PROVE  x \in open' /\ x \notin evicted'
    BY DEF Listed
  <2>1. CASE j = k
    BY <1>1, <1>2, <1>4, <1>18, <1>19, <1>22, <2>1
  <2>2. CASE j # k
    BY <1>2, <1>4, <1>17, <1>19, <1>20, <1>22, <2>2
  <2> QED BY <2>1, <2>2
<1>29. OneMap'
  <2>1. \A j \in Cache : r \notin ToSet(lru[j])
    BY <1>4, <1>9
  <2>2. \A j \in Cache : j # k => ToSet(lru'[j]) \cap ToSet(lru'[k]) = {}
    BY <1>1, <1>18, <1>19, <1>20, <2>1
  <2>3. \A i, j \in Cache : i # k /\ j # k /\ i # j =>
          ToSet(lru'[i]) \cap ToSet(lru'[j]) = {}
    BY <1>19 DEF Inv, OneMap
  <2> QED BY <2>2, <2>3 DEF OneMap
<1>30. Kept'
  <2> SUFFICES ASSUME NEW x \in open'
               PROVE  \/ \E j \in Cache : x \in ToSet(lru'[j])
                      \/ x \in evicted' /\ refs'[x] > 0
    BY DEF Kept
  <2>1. CASE x = r
    BY <1>1, <1>18, <1>19, <2>1
  <2>2. CASE x \in gone
    BY <1>2, <1>21, <1>22, <2>2
  <2>3. CASE x # r /\ x \notin gone
    <3>1. x \in open /\ refs'[x] = refs[x]
      BY <1>21, <1>22, <2>3
    <3>2. CASE x \in evicted /\ refs[x] > 0
      BY <1>2, <3>1, <3>2
    <3>3. CASE \E j \in Cache : x \in ToSet(lru[j])
      BY <1>1, <1>18, <1>19, <2>3, <3>3
    <3> QED BY <3>1, <3>2, <3>3 DEF Inv, Kept
  <2> QED BY <2>1, <2>2, <2>3
<1>31. Retired'
  <2>1. \A j \in Cache : j # default => ToSet(lru'[j]) \subseteq late'
    BY <1>1, <1>18, <1>19 DEF Inv, Retired
  <2>2. \A j \in Cache : j > caches => j # k
    BY <1>1, ReaderCacheAssumption DEF Inv, TypeOK, Cache
  <2> QED BY <1>1, <1>19, <2>1, <2>2 DEF Inv, Retired
<1>32. Replaced'
  BY <1>1 DEF Inv, Replaced
<1>33. ServesValid'
  <2> SUFFICES ASSUME default # NoCache, NEW x \in ToSet(lru'[default])
               PROVE  content'[x] >= valid[path'[x]]
    BY <1>1 DEF ServesValid
  <2>1. default \in Cache
    BY ReaderCacheAssumption DEF Inv, TypeOK, NoCache, Cache
  <2>2. CASE x = r
    BY <1>1, <1>3, <1>6, <1>9, <2>2 DEF Inv, Replaced
  <2>3. CASE x # r
    <3>1. x \in ToSet(lru[default])
      BY <1>1, <1>18, <1>19, <2>1, <2>3
    <3>2. content'[x] = content[x] /\ path'[x] = path[x]
      BY <1>1, <1>4, <1>6, <1>9, <2>1, <2>3, <3>1
    <3> QED BY <3>1, <3>2 DEF Inv, ServesValid
  <2> QED BY <2>2, <2>3
<1> QED
  BY <1>23, <1>24, <1>25, <1>26, <1>27, <1>28, <1>29, <1>30, <1>31, <1>32,
     <1>33 DEF Inv

LEMMA InvNext == Inv /\ [Next]_vars => Inv'
<1> SUFFICES ASSUME Inv, [Next]_vars PROVE Inv'
  OBVIOUS
<1>1. ASSUME NEW th \in Thread, LookUp(th) PROVE Inv'
  BY <1>1, LookUpKeeps
<1>2. ASSUME NEW th \in Thread, Release(th) PROVE Inv'
  BY <1>2, ReleaseKeeps
<1>3. ASSUME NEW th \in Thread, NEW i \in 1..MaxSize, Hit(th, i) PROVE Inv'
  BY <1>3, HitKeeps
<1>4. ASSUME NEW th \in Thread, NEW p \in Path, Miss(th, p) PROVE Inv'
  BY <1>4, MissKeeps
<1>5. ASSUME NEW th \in Thread, NEW p \in Path, OpenFails(th, p) PROVE Inv'
  BY <1>5, OpenFailsKeeps
<1>6. ASSUME NEW p \in Path, Invalidate(p) PROVE Inv'
  BY <1>6, InvalidateKeeps
<1>7. ASSUME NEW p \in Path, ReplaceFile(p) PROVE Inv'
  BY <1>7, ReplaceFileKeeps
<1>8. CASE Shutdown
  BY <1>8, ShutdownKeeps
<1>9. CASE UNCHANGED vars
  <2> USE <1>9 DEF Inv, vars, entryVars
  <2>1. TypeOK' /\ Counted' /\ Known' /\ NeverClosedInUse'
    BY DEF TypeOK, Counted, Holders, Known, NeverClosedInUse
  <2>2. BoundedAndUnique' /\ Listed' /\ OneMap' /\ Kept' /\ Retired'
    BY DEF BoundedAndUnique, Listed, OneMap, Kept, Retired
  <2>3. Replaced' /\ ServesValid'
    BY DEF Replaced, ServesValid
  <2> QED BY <2>1, <2>2, <2>3
<1> QED
  BY <1>1, <1>2, <1>3, <1>4, <1>5, <1>6, <1>7, <1>8, <1>9 DEF Next, Use
-----------------------------------------------------------------------------
(* Inv holds in every reachable state.                                     *)
THEOREM Invariance == Spec => []Inv
  BY InvInit, InvNext, PTL DEF Spec

(* Every variable keeps its type.                                          *)
THEOREM TypeCorrect == Spec => []TypeOK
<1>1. Inv => TypeOK
  BY DEF Inv
<1> QED BY <1>1, Invariance, PTL

(* _acquire and _release, whatever is evicted, invalidated or shut down    *)
(* between them: a reader some thread holds is never closed.               *)
THEOREM HeldReadersAreOpen == Spec => []NeverClosedInUse
<1>1. Inv => NeverClosedInUse
  BY DEF Inv
<1> QED BY <1>1, Invariance, PTL

(* The LRU map never outgrows its bound and never holds a file twice.      *)
THEOREM MapsAreBounded == Spec => []BoundedAndUnique
<1>1. Inv => BoundedAndUnique
  BY DEF Inv
<1> QED BY <1>1, Invariance, PTL

(* invalidate is kept: what the cache hands out is never older.            *)
THEOREM InvalidatedIsGone == Spec => []ServesValid
<1>1. Inv => ServesValid
  BY DEF Inv
<1> QED BY <1>1, Invariance, PTL

(* No reader is left open that neither a thread holds nor the cache lists, *)
(* but for those opened through a cache that was already shut down.        *)
THEOREM ReadersAreClosed == Spec => []NothingLeaks
<1>1. ASSUME Inv PROVE NothingLeaks
  <2> SUFFICES ASSUME NEW r \in open \ late, Holders(r) = {}
               PROVE  default # NoCache /\ r \in ToSet(lru[default])
    BY DEF NothingLeaks
  <2>1. refs[r] = 0
    BY <1>1, FS_EmptySet DEF Inv, TypeOK, Counted
  <2>2. PICK k \in Cache : r \in ToSet(lru[k])
    BY <1>1, <2>1 DEF Inv, Kept
  <2>3. k = default
    BY <1>1, <2>2 DEF Inv, Retired
  <2> QED BY <2>2, <2>3 DEF Cache, NoCache
<1> QED BY <1>1, Invariance, PTL
=============================================================================
