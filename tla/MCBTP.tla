-------------------------------- MODULE MCBTP --------------------------------
(* Instances of BTP for TLC: senders as model values, symmetric for safety. *)
EXTENDS BTP, TLC

CONSTANTS s1, s2

TwoSenders == {s1, s2}
OneSender  == {s1}
Symmetry   == Permutations({s1, s2})
=============================================================================
