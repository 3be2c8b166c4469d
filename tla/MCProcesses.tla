---------------------------- MODULE MCProcesses -----------------------------
(***************************************************************************)
(* Instances of Processes: two commands, with or without a daemon left by  *)
(* an earlier one. The workloads are the pairs of commands that can        *)
(* disturb each other; the order in a pair does not matter.                *)
(***************************************************************************)
EXTENDS Processes

CONSTANTS p1, p2

Pair(x, y) == [p \in {p1, p2} |-> IF p = p1 THEN x ELSE y]

(* Every other command against one that writes the store or the devices,   *)
(* and against the life cycle of the daemon.                               *)
MCWorkloads ==
    {Pair(x, "decommission") : x \in {"decommission", "reset", "start", "stop"}}
    \cup {Pair(x, "discover") : x \in {"operate", "start"}}
    \cup {Pair("tree", "renameReset")}
    \cup {Pair(x, "start") : x \in {"start", "stop", "subscribe", "remove", "ls", "info",
                                   "status", "openWindow", "rename"}}
=============================================================================
