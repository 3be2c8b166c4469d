---------------------------- MODULE MCController ----------------------------
(* A device, another one that may sit at its old address, two addresses. *)
EXTENDS Controller

CONSTANTS d1, d2

MCFabricOf == [n \in {d1, d2} |-> IF n = d1 THEN "f1" ELSE "f2"]
MCPasscode == [n \in {d1, d2} |-> IF n = d1 THEN "c1" ELSE "c2"]
=============================================================================
