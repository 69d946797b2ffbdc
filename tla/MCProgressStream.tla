--------------------------- MODULE MCProgressStream ---------------------------
(***************************************************************************)
(* Instances of ProgressStream for TLC.                                    *)
(***************************************************************************)
EXTENDS ProgressStream

CONSTANTS a, b, none
=============================================================================
