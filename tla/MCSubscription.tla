--------------------------- MODULE MCSubscription ---------------------------
(* Small instances of Subscription. *)
EXTENDS Subscription
=============================================================================
