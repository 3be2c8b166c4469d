--------------------------- MODULE MCInteraction ---------------------------
EXTENDS Interaction

MCAttrs == {1, 2, 3}
MCLists == {2, 3}
MCValue == [a \in MCAttrs |-> IF a = 1 THEN "on" ELSE IF a = 2 THEN <<"x", "y">> ELSE <<"z">>]
MCHiddenSets == {{}, {2}}

MCOps ==
    [kind : {"read"}, via : {"direct", "daemon"}, attr : {0, 2, 9}]
      \cup [kind : {"read"}, via : {"commissioner"}, attr : {2}]
      \cup [kind : {"write"}, via : {"direct", "daemon"}, attr : {1}]
      \cup [kind : {"invoke", "timed"}, via : {"direct", "daemon", "commissioner"}, attr : {1}]
=============================================================================
