----------------------------- MODULE MCDiscovery -----------------------------
EXTENDS BLEDial, TLC
CONSTANTS d1, d2

D(disc, adv, dns) == [disc |-> disc, adv |-> adv, dns |-> dns]
\* With Short = 4: discriminators 5 and 6 share their upper bits.
MCWorlds ==
  {(d1 :> D(5, {"full"}, "addr")) @@ (d2 :> D(6, {"full"}, "none")),
   (d1 :> D(5, {"full", "bare"}, "none")) @@ (d2 :> D(9, {"other"}, "addr")),
   (d1 :> D(5, {}, "addr")) @@ (d2 :> D(1, {"bare"}, "noaddr"))}
=============================================================================
