----------------------------- MODULE MCExchanges -----------------------------
(* Small instances of Exchanges: goroutines as model values. *)
EXTENDS Exchanges, TLC

CONSTANTS p1, p2

TwoProcs == {p1, p2}
Symmetry == Permutations(TwoProcs)
=============================================================================
