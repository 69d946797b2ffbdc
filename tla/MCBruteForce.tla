---------------------------- MODULE MCBruteForce ----------------------------
(***************************************************************************)
(* Instance of BruteForce for TLC: every grid of one or two short disjoint *)
(* regions, in either order, and of one or two key sizes is counted; a  *)
(* few of them are searched: one of a single candidate, one of two regions *)
(* by offset and by rank, one of two sizes in either order.                *)
(***************************************************************************)
EXTENDS BruteForce

Region == [offset : 0..5, length : 1..3]
Disjoint(a, b) == End(a) <= b.offset \/ End(b) <= a.offset
MCInputs ==
  [regions : {<<a>> : a \in Region}
               \cup {rs \in Region \X Region : Disjoint(rs[1], rs[2])},
   sizes : {<<1>>, <<2>>, <<1, 2>>, <<2, 1>>}, stride : {1, 2}, dump : {4, 6}]

Of(regions, sizes) == [regions |-> regions, sizes |-> sizes, stride |-> 1, dump |-> 6]
R(offset, length) == [offset |-> offset, length |-> length]
MCSearched == {
  Of(<<R(0, 1)>>, <<1>>), Of(<<R(0, 2), R(3, 3)>>, <<1>>), Of(<<R(3, 3), R(0, 2)>>, <<1>>),
  Of(<<R(1, 3)>>, <<2, 1>>), Of(<<R(1, 3)>>, <<1, 2>>)}
=============================================================================
