----------------------------- MODULE BruteForce -----------------------------
(***************************************************************************)
(* The brute-force engine (engine/brute_force.py): the candidate grid of   *)
(* engine/candidate_grid.py is fed to an oracle, one candidate after the   *)
(* other (_run_serial) or in chunks through a process pool with a bounded  *)
(* window (_run_parallel), and the hits are sorted for the plugin that     *)
(* anchors on the first of them.                                           *)
(*                                                                         *)
(* The oracle is the set of candidates it accepts: a call that raises is a *)
(* refusal.  Its calls return.  Of the emitted events none is kept.        *)
(***************************************************************************)
EXTENDS Integers, SequencesExt, Lists

CONSTANTS
  Inputs,         (* grids: records of regions, sizes, stride, dump        *)
  JobSettings,    (* values of the jobs setting, 0 is auto                 *)
  Cpus,           (* os.cpu_count()                                        *)
  Chunk,          (* _CHUNK, 1024                                          *)
  PerJob,         (* chunks in flight per worker, 4                        *)
  ProgressEvery,  (* _PROGRESS_EVERY, 256                                  *)
  ParallelMin,    (* PARALLEL_MIN_CANDIDATES, 20000                        *)
  ParallelMaxJobs,(* PARALLEL_MAX_JOBS, 4                                  *)
  Searched        (* bound: the grids that are searched, all are counted   *)

ASSUME BruteForceAssumption ==
  /\ JobSettings \subseteq Int
  /\ \A in \in Inputs :
       /\ in.regions \in Seq([offset : Nat, length : Nat])
       /\ in.sizes \in Seq(Int) /\ in.stride \in Nat \ {0} /\ in.dump \in Nat
  /\ {Cpus, Chunk, PerJob, ProgressEvery, ParallelMin, ParallelMaxJobs} \subseteq Nat \ {0}
  /\ Searched \subseteq Inputs

VARIABLES
  input,     (* the grid: never changes                                    *)
  conf,      (* the settings, and the candidates the oracle accepts        *)
  total,     (* total_estimate                                             *)
  cand,      (* the candidates job_iter yields                             *)
  pc,        (* where the main thread is                                   *)
  cancel,    (* the cancel event is set                                    *)
  fut,       (* fut[k]: the future of chunk k                              *)
  broken,    (* a worker process died: the pool is broken                  *)
  next,      (* the next chunk _take_chunk pulls off the generator         *)
  inFlight,  (* chunks in in_flight                                        *)
  todo,      (* chunks in done, still to be walked                         *)
  draining, tried,
  hits,      (* candidates accepted, in the order of discovery             *)
  outcome    (* "none", "returned", "cancelled" or "failed"                *)

pool == <<fut, broken>>
given == <<input, conf, total, cand>>
vars == <<given, pc, cancel, pool, next, inFlight, todo, draining, tried, hits, outcome>>

----------------------------------------------------------------------------
(* The grid.                                                               *)

FirstOffset(r, stride) == ((r.offset + stride - 1) \div stride) * stride
End(r) == r.offset + r.length

(* iter_region_grid: the offsets, and at each of them every size that fits.*)
Offsets(r, in) ==
  LET first == FirstOffset(r, in.stride)
      steps == IF first >= End(r) THEN 0 ELSE (End(r) - 1 - first) \div in.stride + 1
  IN [k \in 1..steps |-> first + (k - 1) * in.stride]
Sizes(o, r, in) ==
  Only(in.sizes, {size \in ToSet(in.sizes) : o + size <= End(r) /\ o + size <= in.dump})

(* iter_candidate_slices, the bytes left out: the candidates of a region   *)
(* at an offset, of a region, and all.                                     *)
At(i, o, in) ==
  LET sizes == Sizes(o, in.regions[i], in)
  IN [j \in DOMAIN sizes |-> [region |-> i, offset |-> o, size |-> sizes[j]]]
RegionGrid(i, in) ==
  LET offsets == Offsets(in.regions[i], in)
  IN Joined([k \in DOMAIN offsets |-> At(i, offsets[k], in)])
Grid(in) == Joined([i \in DOMAIN in.regions |-> RegionGrid(i, in)])

(* count_region_grid and count_candidate_slices, the closed form.          *)
RegionCount(r, in) ==
  LET first == FirstOffset(r, in.stride)
      last(size) == Min({Min({End(r), in.dump}) - size, End(r) - 1})
  IN IF first >= End(r) THEN 0
     ELSE Total([t \in DOMAIN in.sizes |->
            IF last(in.sizes[t]) < first THEN 0
            ELSE (last(in.sizes[t]) - first) \div in.stride + 1])
Count(in) == Total([i \in DOMAIN in.regions |-> RegionCount(in.regions[i], in)])

----------------------------------------------------------------------------
Chunks == 1..((Len(cand) + Chunk - 1) \div Chunk)
Members(k) == ((k - 1) * Chunk + 1)..Min({k * Chunk, Len(cand)})

(* resolve_jobs                                                            *)
ResolveJobs(jobs, n, exhaustive) ==
  IF jobs > 0 THEN jobs
  ELSE IF ~exhaustive \/ n < ParallelMin THEN 1
  ELSE Max({1, Min({ParallelMaxJobs, Cpus - 1})})
Jobs == ResolveJobs(conf.jobs, total, conf.exhaustive)
MaxInFlight == Max({1, Jobs * PerJob})

(* The final sort, by (offset, region_index, size); the plugin anchors on  *)
(* the first of the hits.                                                  *)
Before(a, b) ==
  \/ a.offset < b.offset
  \/ a.offset = b.offset /\ a.region < b.region
  \/ a.offset = b.offset /\ a.region = b.region /\ a.size < b.size
Anchor == CHOOSE h \in ToSet(hits) : \A g \in ToSet(hits) : ~ Before(cand[g], cand[h])
(* _worker_verify_chunk: the hits of chunk k, in its order.                *)
Accepted(k) == Only([i \in 1..Cardinality(Members(k)) |-> (k - 1) * Chunk + i], conf.keys)

Init ==
  /\ input \in Inputs
  /\ conf = [jobs |-> 0, exhaustive |-> TRUE, keys |-> {}]
  /\ total = 0 /\ cand = <<>>
  /\ pc = "start" /\ cancel = FALSE
  /\ fut = <<>> /\ broken = FALSE
  /\ next = 1 /\ inFlight = {} /\ todo = {}
  /\ draining = FALSE /\ tried = 0 /\ hits = <<>> /\ outcome = "none"

(* run_brute_force up to its split; the oracle may be refused.             *)
Start(jobs, exhaustive) ==
  /\ pc = "start" /\ input \in Searched
  /\ total' = Count(input) /\ cand' = Grid(input)
  /\ \E keys \in SUBSET DOMAIN cand' :
       conf' = [jobs |-> jobs, exhaustive |-> exhaustive, keys |-> keys]
  /\ fut' = [k \in Chunks' |-> "none"]
  /\ pc' = IF ResolveJobs(jobs, total', exhaustive) > 1 /\ total' > 1 THEN "refill" ELSE "serial"
  /\ UNCHANGED <<input, cancel, broken, next, inFlight, todo, draining, tried, hits, outcome>>
Refused ==
  /\ pc = "start"
  /\ pc' = "over" /\ outcome' = "failed"
  /\ UNCHANGED <<given, cancel, pool, next, inFlight, todo, draining, tried, hits>>

SetCancel ==
  /\ pc # "over" /\ ~cancel
  /\ cancel' = TRUE
  /\ UNCHANGED <<given, pc, pool, next, inFlight, todo, draining, tried, hits, outcome>>

----------------------------------------------------------------------------
(* _run_serial, a candidate at a time.                                     *)

Stop(how) == pc' = "over" /\ outcome' = how
SerialStep ==
  /\ pc = "serial"
  /\ IF tried = Len(cand)
     THEN Stop("returned") /\ UNCHANGED <<tried, hits>>
     ELSE IF cancel /\ tried % ProgressEvery = 0
     THEN Stop("cancelled") /\ UNCHANGED <<tried, hits>>
     ELSE /\ tried' = tried + 1
          /\ IF tried' \in conf.keys
             THEN /\ hits' = Append(hits, tried')
                  /\ IF conf.exhaustive THEN UNCHANGED <<pc, outcome>> ELSE Stop("returned")
             ELSE UNCHANGED <<hits, pc, outcome>>
  /\ UNCHANGED <<given, cancel, pool, next, inFlight, todo, draining>>

----------------------------------------------------------------------------
(* _run_parallel, the main thread.                                         *)

(* Fault: one chunk more than the window holds.                            *)
RefillOneMore ==
  /\ pc = "refill"
  /\ LET last == Min({next + MaxInFlight - Cardinality(inFlight), Cardinality(Chunks)})
         new == next..last
     IN /\ fut' = [k \in Chunks |-> IF k \in new THEN "queued" ELSE fut[k]]
        /\ next' = last + 1 /\ inFlight' = inFlight \cup new /\ pc' = "wait"
  /\ UNCHANGED <<given, cancel, broken, todo, draining, tried, hits, outcome>>
(* Prime or refill the window; submit raises on a broken pool.             *)
Refill ==
  /\ pc = "refill"
  /\ LET last == Min({next - 1 + MaxInFlight - Cardinality(inFlight), Cardinality(Chunks)})
         new == next..last
     IN IF broken /\ new # {}
        THEN pc' = "leave" /\ outcome' = "failed" /\ UNCHANGED <<fut, next, inFlight>>
        ELSE /\ fut' = [k \in Chunks |-> IF k \in new THEN "queued" ELSE fut[k]]
             /\ next' = last + 1
             /\ inFlight' = inFlight \cup new
             /\ pc' = "wait" /\ UNCHANGED outcome
  /\ UNCHANGED <<given, cancel, broken, todo, draining, tried, hits>>

Settled == {k \in inFlight : fut[k] \in {"done", "broken"}}
(* Fault: of the futures that are done, one is walked.                     *)
WaitOne ==
  /\ pc = "wait" /\ Settled # {}
  /\ todo' = {Min(Settled)} /\ inFlight' = inFlight \ Settled
  /\ pc' = "walk"
  /\ UNCHANGED <<given, cancel, pool, next, draining, tried, hits, outcome>>
Wait ==
  /\ pc = "wait" /\ Settled # {}
  /\ todo' = Settled /\ inFlight' = inFlight \ Settled
  /\ pc' = "walk"
  /\ UNCHANGED <<given, cancel, pool, next, draining, tried, hits, outcome>>
Finish ==
  /\ pc = "wait" /\ inFlight = {}
  /\ pc' = "leave" /\ outcome' = "returned"
  /\ UNCHANGED <<given, cancel, pool, next, inFlight, todo, draining, tried, hits>>

(* Fault: Cancelled drops the futures and is not raised again.             *)
WalkCancelledSwallowed(k) ==
  /\ pc = "walk" /\ k \in todo /\ cancel
  /\ fut' = [c \in Chunks |-> IF c \in inFlight /\ fut[c] = "queued" THEN "dropped" ELSE fut[c]]
  /\ pc' = "leave" /\ outcome' = "returned"
  /\ UNCHANGED <<given, cancel, broken, next, inFlight, todo, draining, tried, hits>>
(* check_cancel: Cancelled drops the futures no worker has begun.          *)
WalkCancelled(k) ==
  /\ pc = "walk" /\ k \in todo /\ cancel
  /\ fut' = [c \in Chunks |-> IF c \in inFlight /\ fut[c] = "queued" THEN "dropped" ELSE fut[c]]
  /\ pc' = "leave" /\ outcome' = "cancelled"
  /\ UNCHANGED <<given, cancel, broken, next, inFlight, todo, draining, tried, hits>>
WalkBroken(k) ==
  /\ pc = "walk" /\ k \in todo /\ ~cancel /\ fut[k] = "broken"
  /\ pc' = "leave" /\ outcome' = "failed"
  /\ UNCHANGED <<given, cancel, pool, next, inFlight, todo, draining, tried, hits>>
(* Fault: the first hit that arrives ends the search, nothing is drained.  *)
WalkFirstHit(k) ==
  /\ pc = "walk" /\ k \in todo /\ ~cancel /\ fut[k] = "done"
  /\ todo' = todo \ {k}
  /\ tried' = tried + Cardinality(Members(k))
  /\ hits' = hits \o Accepted(k)
  /\ IF ~conf.exhaustive /\ Members(k) \cap conf.keys # {}
     THEN pc' = "leave" /\ outcome' = "returned"
     ELSE pc' = (IF todo' # {} THEN "walk" ELSE "refill") /\ UNCHANGED outcome
  /\ UNCHANGED <<given, cancel, pool, next, inFlight, draining>>
Walk(k) ==
  /\ pc = "walk" /\ k \in todo /\ ~cancel /\ fut[k] = "done"
  /\ todo' = todo \ {k}
  /\ tried' = tried + Cardinality(Members(k))
  /\ hits' = hits \o Accepted(k)
  /\ draining' = (draining \/ (~conf.exhaustive /\ Members(k) \cap conf.keys # {}))
  /\ pc' = IF todo' # {} THEN "walk" ELSE IF draining' THEN "wait" ELSE "refill"
  /\ UNCHANGED <<given, cancel, pool, next, inFlight, outcome>>

(* The with statement waits for the workers.                               *)
Leave ==
  /\ pc = "leave" /\ \A k \in Chunks : fut[k] \notin {"queued", "running"}
  /\ pc' = "over"
  /\ UNCHANGED <<given, cancel, pool, next, inFlight, todo, draining, tried, hits, outcome>>

Main == SerialStep \/ Refill \/ Wait \/ Finish \/ Leave
          \/ \E k \in todo : WalkCancelled(k) \/ WalkBroken(k) \/ Walk(k)

----------------------------------------------------------------------------
(* The workers (concurrent.futures, external): any may finish first.       *)

Work(k, from, to) ==
  /\ fut[k] = from /\ fut' = [fut EXCEPT ![k] = to]
  /\ UNCHANGED <<given, pc, cancel, broken, next, inFlight, todo, draining, tried, hits, outcome>>
Begin(k) == Work(k, "queued", "running")
Complete(k) == Work(k, "running", "done")
WorkerDies ==
  /\ pc \in {"refill", "wait", "walk", "leave"} /\ ~broken
  /\ broken' = TRUE
  /\ fut' = [k \in Chunks |-> IF fut[k] \in {"queued", "running"} THEN "broken" ELSE fut[k]]
  /\ UNCHANGED <<given, pc, cancel, next, inFlight, todo, draining, tried, hits, outcome>>

Next ==
  \/ \E jobs \in JobSettings, exhaustive \in BOOLEAN : Start(jobs, exhaustive)
  \/ Refused \/ SetCancel \/ Main \/ WorkerDies
  \/ \E k \in Chunks : Begin(k) \/ Complete(k)

(* The main thread and the workers go on.                                  *)
Fairness == WF_vars(Main) /\ WF_vars(\E k \in Chunks : Begin(k) \/ Complete(k))

Spec == Init /\ [][Next]_vars /\ Fairness

----------------------------------------------------------------------------
(* Every variable keeps to its type; what was pulled off the generator is  *)
(* a prefix, in a window of MaxInFlight chunks (_run_parallel: "at most    *)
(* max_in_flight Futures outstanding").                                    *)
TypeOK ==
  /\ input \in Inputs /\ cancel \in BOOLEAN /\ broken \in BOOLEAN /\ draining \in BOOLEAN
  /\ conf \in [jobs : JobSettings \cup {0}, exhaustive : BOOLEAN, keys : SUBSET (1..Len(cand))]
  /\ pc \in {"start", "serial", "refill", "wait", "walk", "leave", "over"}
  /\ fut \in [Chunks -> {"none", "queued", "running", "done", "dropped", "broken"}]
  /\ \A k \in Chunks : fut[k] # "none" <=> k < next
  /\ inFlight \subseteq Chunks /\ todo \subseteq Chunks \ inFlight
  /\ Cardinality({k \in Chunks : fut[k] \in {"queued", "running"}}) <= MaxInFlight
  /\ tried \in 0..Len(cand) /\ hits \in Seq(1..Len(cand))
  /\ outcome \in {"none", "returned", "cancelled", "failed"}

(* A search that returns without a hit, or an exhaustive one, has tried    *)
(* every candidate once: as many as the closed form announced, and its     *)
(* hits are all the candidates the oracle accepts (test_brute_force.py,    *)
(* parallel_exhaustive_finds_all_hits), in whatever order they came.       *)
NothingSkipped ==
  /\ pc = "start" => Count(input) = Len(Grid(input))
  /\ outcome = "returned" /\ (conf.exhaustive \/ hits = <<>>) =>
       /\ tried = total /\ total = Len(cand)
       /\ Len(hits) = Cardinality(conf.keys) /\ ToSet(hits) = conf.keys

(* The regions as search-reduce lists them by default: by offset.          *)
ByOffset == \A i, j \in DOMAIN input.regions :
  i < j => End(input.regions[i]) <= input.regions[j].offset
(* A parallel search that stops at the first hit anchors the plugin on the *)
(* offset a serial one would have found ("so the caller can pick the       *)
(* lowest-offset hit deterministically"), whichever chunk ended first.     *)
BestHitIsSerial ==
  outcome = "returned" /\ conf.keys # {} /\ ByOffset =>
    hits # <<>> /\ cand[Anchor].offset = cand[Min(conf.keys)].offset

(* A search comes to an end, with its workers idle, also when one of them  *)
(* dies; and one that is cancelled while chunks are out never returns a    *)
(* result as if nothing had happened.                                      *)
Ends ==
  /\ pc # "start" ~> (pc = "over" /\ \A k \in Chunks : fut[k] # "running")
  /\ (cancel /\ outcome = "none" /\ inFlight \cup todo # {})
       ~> (pc = "over" /\ outcome # "returned")
=============================================================================
