-------------------------- MODULE MCOracleRegistry --------------------------
(***************************************************************************)
(* Instances of OracleRegistry for TLC.                                    *)
(***************************************************************************)
EXTENDS OracleRegistry, TLC

CONSTANTS o1, o2, r1, r2, r3, good, bad

Sym == Permutations({r1, r2, r3}) \cup Permutations({o1, o2})
=============================================================================
