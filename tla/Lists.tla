-------------------------------- MODULE Lists --------------------------------
(***************************************************************************)
(* Loops over lists, as the other modules use them.  They are recursive    *)
(* functions, which the proof system can reason about, where the library   *)
(* has recursive operators.                                                *)
(***************************************************************************)
EXTENDS Integers, Sequences

(* What of s is in S, in its order.                                        *)
Only(s, S) ==
  LET Kept[n \in 0..Len(s)] == IF n = 0 THEN <<>>
                               ELSE IF s[n] \in S THEN Append(Kept[n - 1], s[n])
                               ELSE Kept[n - 1]
  IN Kept[Len(s)]

(* The lists in ss, one after the other.                                   *)
Joined(ss) ==
  LET Upto[n \in 0..Len(ss)] == IF n = 0 THEN <<>> ELSE Upto[n - 1] \o ss[n]
  IN Upto[Len(ss)]

(* The sum of the numbers in ns.                                           *)
Total(ns) ==
  LET Upto[n \in 0..Len(ns)] == IF n = 0 THEN 0 ELSE Upto[n - 1] + ns[n]
  IN Upto[Len(ns)]
=============================================================================
