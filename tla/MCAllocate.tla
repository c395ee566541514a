----------------------------- MODULE MCAllocate -----------------------------
(* Instance of Allocate for TLC: four candidates, the documented policy of a *)
(* 40% cap with a 5% floor, and one whose floor four even shares all miss.   *)
EXTENDS Allocate, TLC

const_Policies == {[max |-> 40, min |-> 5], [max |-> 40, min |-> 30]}

Symmetry == Permutations(Candidates)
=============================================================================
