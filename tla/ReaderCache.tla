----------------------------- MODULE ReaderCache -----------------------------
(***************************************************************************)
(* app/reader_cache.py: the process-wide cache of opened MslReaders that   *)
(* the HTTP and MCP threads share - a path-keyed LRU map, a reference      *)
(* count per reader, and a close that is deferred while a reader is held - *)
(* and the singleton behind it, which a shutdown replaces.                 *)
(*                                                                         *)
(* Every method of a cache runs under its lock and is one action here; so  *)
(* does each access to the singleton, under a lock of its own.             *)
(***************************************************************************)
EXTENDS Naturals, Sequences, FiniteSets, SequencesExt

CONSTANTS Thread,       (* request threads                                 *)
          Path,         (* resolved paths of .msl files                    *)
          MaxSize,      (* entries a cache keeps                           *)
          MaxOpens,     (* bound: readers opened                           *)
          MaxCaches,    (* bound: caches created                           *)
          MaxReplaced   (* bound: how often a file is replaced             *)

Reader == 1..MaxOpens
Cache  == 1..MaxCaches
NoReader == 0
NoCache  == 0

ASSUME ReaderCacheAssumption ==
  /\ IsFiniteSet(Thread) /\ Path # {}
  /\ MaxSize \in Nat \ {0}
  /\ MaxOpens \in Nat /\ MaxCaches \in Nat /\ MaxReplaced \in Nat

VARIABLES
  lru,       (* lru[k]: the map of cache k, oldest use first               *)
  default,   (* the singleton, or NoCache                                  *)
  caches,    (* caches created so far                                      *)
  opens,     (* readers opened so far: 1..opens                            *)
  path,      (* path[r], content[r]: the file reader r has mapped, and     *)
  content,   (*   which version of it                                      *)
  refs,      (* refs[r]: the entry's refcount                              *)
  evicted,   (* readers whose entry left a map while in use                *)
  open,      (* readers that are open                                      *)
  using,     (* using[th]: the cache thread th looked up, or NoCache       *)
  held,      (* held[th]: the reader th holds, or NoReader                 *)
  file,      (* file[p]: the version of p on disk                          *)
  valid,     (* valid[p]: the version on disk when p was last invalidated  *)
  late       (* readers opened through a cache that was already shut down  *)

entryVars == <<opens, path, content>>
vars == <<lru, default, caches, opens, path, content, refs, evicted, open,
          using, held, file, valid, late>>
-----------------------------------------------------------------------------
Init ==
  /\ lru = [k \in Cache |-> <<>>]
  /\ default = NoCache /\ caches = 0
  /\ opens = 0
  /\ path = [r \in Reader |-> CHOOSE p \in Path : TRUE]
  /\ content = [r \in Reader |-> 0]
  /\ refs = [r \in Reader |-> 0]
  /\ evicted = {} /\ open = {}
  /\ using = [th \in Thread |-> NoCache]
  /\ held = [th \in Thread |-> NoReader]
  /\ file = [p \in Path |-> 0]
  /\ valid = [p \in Path |-> 0]
  /\ late = {}

(* get_default_cache: the first step of cached_msl_reader.  The thread     *)
(* keeps the cache it got, whatever happens to the singleton.              *)
LookUp(th) ==
  /\ using[th] = NoCache
  /\ IF default = NoCache
     THEN /\ caches < MaxCaches
          /\ caches' = caches + 1
          /\ default' = caches + 1
     ELSE UNCHANGED <<default, caches>>
  /\ using' = [using EXCEPT ![th] = default']
  /\ UNCHANGED <<lru, entryVars, refs, evicted, open, held, file, valid, late>>

(* Fault: what leaves the map is closed, held or not.                      *)
DropAll(gone, stillOpen, count) ==
  /\ evicted' = evicted \cup {r \in gone : count[r] > 0}
  /\ open' = stillOpen \ gone

(* What leaves the map is closed if nobody holds it, else marked.          *)
Drop(gone, stillOpen, count) ==
  /\ evicted' = evicted \cup {r \in gone : count[r] > 0}
  /\ open' = stillOpen \ {r \in gone : count[r] = 0}

(* Fault: a hit is not counted.                                            *)
HitUncounted(th, i) ==
  LET k == using[th] IN
    /\ k # NoCache /\ held[th] = NoReader
    /\ i \in DOMAIN lru[k]
    /\ lru' = [lru EXCEPT ![k] = Append(RemoveAt(@, i), @[i])]
    /\ held' = [held EXCEPT ![th] = lru[k][i]]
    /\ UNCHANGED <<default, caches, entryVars, refs, evicted, open, using, file,
                   valid, late>>

(* _acquire, a hit on the entry at position i: it moves to the end of the  *)
(* order.                                                                  *)
Hit(th, i) ==
  LET k == using[th] IN
    /\ k # NoCache /\ held[th] = NoReader
    /\ i \in DOMAIN lru[k]
    /\ lru' = [lru EXCEPT ![k] = Append(RemoveAt(@, i), @[i])]
    /\ refs' = [refs EXCEPT ![lru[k][i]] = @ + 1]
    /\ held' = [held EXCEPT ![th] = lru[k][i]]
    /\ UNCHANGED <<default, caches, entryVars, evicted, open, using, file,
                   valid, late>>

(* Fault: room for one entry too many.                                     *)
MissKeepsOneMore(th, p) ==
  LET k   == using[th]
      r   == opens + 1
      all == Append(lru[k], r)
      n   == IF Len(all) > MaxSize + 1 THEN Len(all) - MaxSize ELSE 0
  IN
    /\ k # NoCache /\ held[th] = NoReader
    /\ \A x \in ToSet(lru[k]) : path[x] # p
    /\ opens < MaxOpens
    /\ opens' = r
    /\ path' = [path EXCEPT ![r] = p]
    /\ content' = [content EXCEPT ![r] = file[p]]
    /\ refs' = [refs EXCEPT ![r] = 1]
    /\ held' = [held EXCEPT ![th] = r]
    /\ lru' = [lru EXCEPT ![k] = SubSeq(all, n + 1, Len(all))]
    /\ Drop({all[i] : i \in 1..n}, open \cup {r}, refs')
    /\ late' = IF k = default THEN late ELSE late \cup {r}
    /\ UNCHANGED <<default, caches, using, file, valid>>

(* _acquire, a miss: open the file as it is now and make room.             *)
Miss(th, p) ==
  LET k   == using[th]
      r   == opens + 1
      all == Append(lru[k], r)
      n   == IF Len(all) > MaxSize THEN Len(all) - MaxSize ELSE 0
  IN
    /\ k # NoCache /\ held[th] = NoReader
    /\ \A x \in ToSet(lru[k]) : path[x] # p
    /\ opens < MaxOpens
    /\ opens' = r
    /\ path' = [path EXCEPT ![r] = p]
    /\ content' = [content EXCEPT ![r] = file[p]]
    /\ refs' = [refs EXCEPT ![r] = 1]
    /\ held' = [held EXCEPT ![th] = r]
    /\ lru' = [lru EXCEPT ![k] = SubSeq(all, n + 1, Len(all))]
    /\ Drop({all[i] : i \in 1..n}, open \cup {r}, refs')
    /\ late' = IF k = default THEN late ELSE late \cup {r}
    /\ UNCHANGED <<default, caches, using, file, valid>>

(* The file cannot be opened: the error reaches the caller.                *)
OpenFails(th, p) ==
  /\ using[th] # NoCache /\ held[th] = NoReader
  /\ \A x \in ToSet(lru[using[th]]) : path[x] # p
  /\ using' = [using EXCEPT ![th] = NoCache]
  /\ UNCHANGED <<lru, default, caches, entryVars, refs, evicted, open, held,
                 file, valid, late>>

(* Fault: the last holder of an evicted reader forgets to close it.        *)
ReleaseWithoutClose(th) ==
  LET r == held[th] IN
    /\ r # NoReader
    /\ refs' = [refs EXCEPT ![r] = @ - 1]
    /\ held' = [held EXCEPT ![th] = NoReader]
    /\ using' = [using EXCEPT ![th] = NoCache]
    /\ UNCHANGED <<lru, default, caches, entryVars, evicted, open, file, valid,
                   late>>

(* _release, on leaving the with block, also by an exception.              *)
Release(th) ==
  LET r == held[th] IN
    /\ r # NoReader
    /\ refs' = [refs EXCEPT ![r] = @ - 1]
    /\ open' = IF refs'[r] = 0 /\ r \in evicted THEN open \ {r} ELSE open
    /\ held' = [held EXCEPT ![th] = NoReader]
    /\ using' = [using EXCEPT ![th] = NoCache]
    /\ UNCHANGED <<lru, default, caches, entryVars, evicted, file, valid, late>>

(* Fault: an entry in use is spared.                                       *)
InvalidateIdle(p) ==
  /\ default # NoCache
  /\ \/ \E i \in DOMAIN lru[default] :
          /\ path[lru[default][i]] = p /\ refs[lru[default][i]] = 0
          /\ lru' = [lru EXCEPT ![default] = RemoveAt(@, i)]
          /\ Drop({lru[default][i]}, open, refs)
     \/ /\ \A r \in ToSet(lru[default]) : path[r] # p \/ refs[r] > 0
        /\ UNCHANGED <<lru, evicted, open>>
  /\ valid' = [valid EXCEPT ![p] = file[p]]
  /\ UNCHANGED <<default, caches, entryVars, refs, using, held, file, late>>

(* invalidate: pop the entry of p, if there is one.                        *)
Invalidate(p) ==
  /\ default # NoCache
  /\ \/ \E i \in DOMAIN lru[default] :
          /\ path[lru[default][i]] = p
          /\ lru' = [lru EXCEPT ![default] = RemoveAt(@, i)]
          /\ Drop({lru[default][i]}, open, refs)
     \/ /\ \A r \in ToSet(lru[default]) : path[r] # p
        /\ UNCHANGED <<lru, evicted, open>>
  /\ valid' = [valid EXCEPT ![p] = file[p]]
  /\ UNCHANGED <<default, caches, entryVars, refs, using, held, file, late>>

(* shutdown_default_cache: drop every entry, then forget the cache.        *)
Shutdown ==
  /\ default # NoCache
  /\ Drop(ToSet(lru[default]), open, refs)
  /\ lru' = [lru EXCEPT ![default] = <<>>]
  /\ default' = NoCache
  /\ UNCHANGED <<caches, entryVars, refs, using, held, file, valid, late>>

(* Somebody replaces the file.                                             *)
ReplaceFile(p) ==
  /\ file[p] < MaxReplaced
  /\ file' = [file EXCEPT ![p] = @ + 1]
  /\ UNCHANGED <<lru, default, caches, entryVars, refs, evicted, open, using,
                 held, valid, late>>

Use(th) == \/ LookUp(th) \/ Release(th)
           \/ \E i \in 1..MaxSize : Hit(th, i)
           \/ \E p \in Path : Miss(th, p) \/ OpenFails(th, p)

Next == \/ \E th \in Thread : Use(th)
        \/ \E p \in Path : Invalidate(p) \/ ReplaceFile(p)
        \/ Shutdown

Spec == Init /\ [][Next]_vars
-----------------------------------------------------------------------------
TypeOK ==
  /\ lru \in [Cache -> Seq(Reader)]
  /\ caches \in 0..MaxCaches /\ default \in 0..caches
  /\ opens \in 0..MaxOpens
  /\ path \in [Reader -> Path] /\ content \in [Reader -> 0..MaxReplaced]
  /\ refs \in [Reader -> Nat]
  /\ evicted \subseteq Reader /\ open \subseteq Reader /\ late \subseteq Reader
  /\ using \in [Thread -> 0..caches]
  /\ held \in [Thread -> Reader \cup {NoReader}]
  /\ file \in [Path -> 0..MaxReplaced] /\ valid \in [Path -> 0..MaxReplaced]

(* The close-while-reading race is closed: a reader some thread holds is   *)
(* open, whatever is evicted, invalidated or shut down meanwhile.          *)
NeverClosedInUse == \A th \in Thread : held[th] # NoReader => held[th] \in open

(* A cache holds at most MaxSize readers, one per file.                    *)
BoundedAndUnique ==
  \A k \in Cache :
    /\ Len(lru[k]) <= MaxSize
    /\ \A i, j \in DOMAIN lru[k] : path[lru[k][i]] = path[lru[k][j]] => i = j

(* No descriptor is lost: an open reader nobody holds waits in the current *)
(* cache for its next use.  The exception is a thread that had looked up a *)
(* cache before it was shut down and opens a file through it afterwards.   *)
Holders(r) == {th \in Thread : held[th] = r}
NothingLeaks ==
  \A r \in open \ late :
    Holders(r) = {} => default # NoCache /\ r \in ToSet(lru[default])

(* After invalidate(p) the cache never again hands out an older p.         *)
ServesValid ==
  default # NoCache =>
    \A r \in ToSet(lru[default]) : content[r] >= valid[path[r]]
=============================================================================
