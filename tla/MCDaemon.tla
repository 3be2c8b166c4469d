------------------------------ MODULE MCDaemon ------------------------------
(* Small instances of Daemon: commands, nodes and fabrics as model values. *)
EXTENDS Daemon

CONSTANTS p1, p2, n1, f1, f2

TwoProcs == {p1, p2}
=============================================================================
