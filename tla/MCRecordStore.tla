---------------------------- MODULE MCRecordStore ----------------------------
(***************************************************************************)
(* Instance of RecordStore for TLC: two calls of one process and one of    *)
(* another; batches over both captures in either order, one that           *)
(* supersedes its own entry, one that supersedes another call's, and one   *)
(* with an invalid capture id.                                             *)
(***************************************************************************)
EXTENDS RecordStore

CONSTANTS w1, w2, w3, p1, p2, i1, i2, i3

E(id, capture, sup) == [id |-> id, capture |-> capture, supersedes |-> sup]
MCProcessOf == (w1 :> p1) @@ (w2 :> p1) @@ (w3 :> p2)
MCBatches == {
  <<E(i1, 1, None), E(i2, 2, None)>>, <<E(i2, 2, None), E(i3, 1, i1)>>,
  <<E(i1, 1, None), E(i3, 1, i1)>>, <<E(i2, 2, None), E(i1, 0, None)>>}
=============================================================================
