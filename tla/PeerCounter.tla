----------------------------- MODULE PeerCounter -----------------------------
(***************************************************************************)
(* The replay protection of a session: peerMessageCounter                  *)
(* (internal/protocol/session.go). The largest counter seen and a bitmap   *)
(* of the W counters up to it, as the set of its bits that are one: bit i  *)
(* stands for counter maxSeen - i. validate holds the mutex throughout.    *)
(***************************************************************************)
EXTENDS Integers

CONSTANTS
    MaxCounter,     \* the largest counter: 2^32 - 1 in the code
    W               \* windowSize: 32 in the code

ASSUME PeerCounterAssumption == MaxCounter \in Nat /\ W \in Nat \ {0}

Counters == 0 .. MaxCounter
Bits     == 0 .. W - 1

VARIABLES
    maxSeen, initiated, bitmap,     \* peerMessageCounter
    accepted,   \* history: the counters accepted
    answer      \* history: the last counter and the answer to it

counterVars == <<maxSeen, initiated, bitmap, accepted, answer>>

-----------------------------------------------------------------------------
Answer(c, ok) ==
    /\ answer' = [counter |-> c, ok |-> ok]
    /\ accepted' = IF ok = "yes" THEN accepted \cup {c} ELSE accepted

(* bitmap <<= n in W bits. *)
ShiftLeft(n) == {i \in Bits : i - n \in bitmap}

ValidateFirst(c) ==
    /\ ~initiated
    /\ maxSeen' = c
    /\ initiated' = TRUE
    /\ bitmap' = {0}
    /\ Answer(c, "yes")

(* A larger counter moves the window. *)
ValidateAbove(c) ==
    /\ initiated
    /\ c > maxSeen
    /\ bitmap' = (IF c - maxSeen >= W THEN {} ELSE ShiftLeft(c - maxSeen)) \cup {0}
    /\ maxSeen' = c
    /\ Answer(c, "yes")
    /\ UNCHANGED initiated

WithinOffByOne(c) ==
    /\ initiated
    /\ c <= maxSeen
    /\ LET diff == maxSeen - c
       IN IF diff > W \/ diff \in bitmap
          THEN Answer(c, "no") /\ UNCHANGED bitmap
          ELSE Answer(c, "yes") /\ bitmap' = bitmap \cup ({diff} \cap Bits)
    /\ UNCHANGED <<maxSeen, initiated>>

(* A counter up to maxSeen is accepted if its bit can be set and is not. *)
ValidateBelow(c) ==
    /\ initiated
    /\ c <= maxSeen
    /\ LET diff == maxSeen - c
       IN IF diff >= W \/ diff \in bitmap
          THEN Answer(c, "no") /\ UNCHANGED bitmap
          ELSE Answer(c, "yes") /\ bitmap' = bitmap \cup {diff}
    /\ UNCHANGED <<maxSeen, initiated>>

Validate(c) == ValidateFirst(c) \/ ValidateAbove(c) \/ ValidateBelow(c)

-----------------------------------------------------------------------------
CounterInit ==
    /\ maxSeen = 0 /\ initiated = FALSE /\ bitmap = {}
    /\ accepted = {}
    /\ answer = [counter |-> 0, ok |-> "none"]

CounterNext == \E c \in Counters : Validate(c)

CounterSpec == CounterInit /\ [][CounterNext]_counterVars

-----------------------------------------------------------------------------
(* Type invariant. *)
CounterTypeOK ==
    /\ maxSeen \in Counters
    /\ initiated \in BOOLEAN
    /\ bitmap \subseteq Bits
    /\ accepted \subseteq Counters

(* The bitmap is an exact record of the window: a bit is set just if its
   counter was accepted, across all the shifts (validate). *)
BitmapExact ==
    /\ initiated => maxSeen \in accepted
    /\ \A a \in accepted : initiated /\ a <= maxSeen
    /\ \A i \in Bits : i \in bitmap <=> maxSeen - i \in accepted

Filter == INSTANCE ReplayFilter

(* validate is a replay filter: no counter is accepted twice, whatever the
   order of arrival, and none is refused but replays and what the window has
   left behind (ValidatePeerCounter: "not a replay"). *)
IsFilter == Filter!Spec
=============================================================================
