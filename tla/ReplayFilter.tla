---------------------------- MODULE ReplayFilter ----------------------------
(***************************************************************************)
(* What protection against replayed messages promises: a counter is        *)
(* accepted at most once, and it is refused only if it was accepted before *)
(* or lies W or more below the largest one accepted.                       *)
(***************************************************************************)
EXTENDS Integers

CONSTANTS Counters, W

VARIABLES
    accepted,   \* the counters accepted so far
    answer      \* the last counter asked about and the answer to it

Fresh(c) ==
    /\ c \notin accepted
    /\ \A a \in accepted : a - c < W

Ask(c) ==
    /\ answer' = [counter |-> c, ok |-> IF Fresh(c) THEN "yes" ELSE "no"]
    /\ accepted' = IF Fresh(c) THEN accepted \cup {c} ELSE accepted

Init ==
    /\ accepted = {}
    /\ answer = [counter |-> 0, ok |-> "none"]

Spec == Init /\ [][\E c \in Counters : Ask(c)]_<<accepted, answer>>
=============================================================================
