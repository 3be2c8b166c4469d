------------------------------ MODULE LossyFifo ------------------------------
(***************************************************************************)
(* What transport.Conn promises its users (internal/transport/conn.go): a  *)
(* datagram channel. Messages are numbered in the order they are           *)
(* submitted; any of them may be lost, but one that comes out comes out    *)
(* whole, once, and in the order of submission.                            *)
(***************************************************************************)
EXTENDS Naturals, Sequences

VARIABLES
    nSent,    \* messages submitted so far: 1 .. nSent
    rcvd      \* numbers of the messages that came out, oldest first

Last == IF rcvd = <<>> THEN 0 ELSE rcvd[Len(rcvd)]

Submit ==
    /\ nSent' = nSent + 1
    /\ UNCHANGED rcvd

Deliver ==
    /\ \E m \in (Last + 1) .. nSent : rcvd' = Append(rcvd, m)
    /\ UNCHANGED nSent

Init ==
    /\ nSent = 0
    /\ rcvd = <<>>

Spec == Init /\ [][Submit \/ Deliver]_<<nSent, rcvd>>
=============================================================================
