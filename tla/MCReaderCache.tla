---------------------------- MODULE MCReaderCache ----------------------------
(***************************************************************************)
(* Instances of ReaderCache for TLC.                                       *)
(***************************************************************************)
EXTENDS ReaderCache, TLC

CONSTANTS th1, th2, p1, p2

Sym == Permutations({th1, th2})
=============================================================================
