--------------------------- MODULE SecureChannel ---------------------------
(***************************************************************************)
(* The PASE and CASE handshakes (internal/secure) as functions from what a *)
(* party has seen to what it sends next. Cryptography is symbolic: a       *)
(* shared secret, a derived key, a signature and a sealed box are the      *)
(* values they were made from, so that two parties have the same key       *)
(* exactly when they derived it from the same inputs.                      *)
(*                                                                         *)
(* An initiator is a record: the protocol, its own session ID, its fresh   *)
(* randomness n, the peer (the passcode in PASE, the node in CASE) and the *)
(* log of messages sent and received so far.                               *)
(***************************************************************************)
EXTENDS Integers, Sequences

CONSTANTS
    Nodes,      \* devices
    FabricOf,   \* the fabric each device belongs to
    Passcode,   \* the passcode of each device
    OurFabric,  \* the fabric of the controller
    None        \* no message, no device, no salt

(* The nil EncryptKey and DecryptKey of a session without keys. *)
NoKey == <<>>

(* HKDFSHA256 *)
Key(ikm, salt, info) == <<info, ikm, salt>>

(* The shared secret of the initiator's and the responder's ephemeral key. *)
ECDH(i, r) == <<"ECDH", i, r>>

(* AES-CCM: a sealed box is opened by the key it was sealed with. *)
Seal(k, x)  == [key |-> k, body |-> x]
Opens(box, k) == box.key = k

Sign(k, x) == [by |-> k, over |-> x]
Verifies(k, x, sig) == sig = Sign(k, x)

Status(ok)  == [op |-> "StatusReport", ok |-> ok]

-----------------------------------------------------------------------------
(* PASE *)

PBKDFParamRequest(n, sid) == [op |-> "PBKDFParamRequest", rand |-> n, sid |-> sid]

(* DeriveSPAKE2PValues: w0 and w1, from the passcode and the device's salt. *)
W(pass, salt) == Key(pass, salt, "PBKDF2")

(* A public share: the party's scalar, blinded with w0. *)
ComputePublicShare(w, scalar) == <<w, scalar>>

(* computeTranscriptAndKeys: Ke, from the hash of both parameter messages, w0
   and w1, and both shares. *)
Ke(req, resp, pass, pA, pB) ==
    Key(<<W(pass, resp.salt), pA, pB>>, <<req, resp>>, "SPAKE2+")

(* The confirmation values of the prover and the verifier. *)
Confirm(who, ke) == <<who, ke>>

DeriveSessionKeys(ke) == Key(ke, None, "SessionKeys")

PASEInitiatorNew(pass, sid, n) ==
    [proto |-> "PASE", sid |-> sid, n |-> n, peer |-> pass,
     log |-> <<PBKDFParamRequest(n, sid)>>]

ProcessPBKDFParamResponse(h, m) ==
    IF m.op = "PBKDFParamResponse" /\ m.echo = h.n
    THEN [op |-> "PAKE1", pA |-> ComputePublicShare(W(h.peer, m.salt), h.n)]
    ELSE None

PaseKe(log, pass) == Ke(log[1], log[2], pass, log[3].pA, log[4].pB)

ProcessPAKE2(h, m) ==
    IF m.op = "PAKE2" /\ m.cB = Confirm("cB", PaseKe(Append(h.log, m), h.peer))
    THEN [op |-> "PAKE3", cA |-> Confirm("cA", PaseKe(Append(h.log, m), h.peer))]
    ELSE None

(* What the initiator makes of the next message of its exchange: the message
   to send, or that the handshake is over. *)
EstablishPASE(h, m) ==
    LET next == CASE Len(h.log) = 1 -> ProcessPBKDFParamResponse(h, m)
                  [] Len(h.log) = 3 -> ProcessPAKE2(h, m)
                  [] OTHER -> None
    IN  IF Len(h.log) = 5
        THEN [done |-> m.op = "StatusReport", send |-> None]
        ELSE [done |-> FALSE, send |-> next]

PASERespondRequest(dev, m, rsid) ==
    [op |-> "PBKDFParamResponse", echo |-> m.rand, rand |-> rsid, sid |-> rsid,
     salt |-> <<"salt", dev>>]

PASERespondPAKE1(dev, log, m) ==
    LET pB == ComputePublicShare(W(Passcode[dev], log[2].salt), log[2].rand)
    IN  [op |-> "PAKE2", pB |-> pB,
         cB |-> Confirm("cB", Ke(log[1], log[2], Passcode[dev], m.pA, pB))]

PASERespondPAKE3(dev, log, m) == m.cA = Confirm("cA", PaseKe(log, Passcode[dev]))

-----------------------------------------------------------------------------
(* CASE *)

ComputeDestinationID(n, fabric, node) == <<"ipk", fabric, n, node>>

GenerateSigma1(n, sid, node) ==
    [op |-> "Sigma1", rand |-> n, sid |-> sid, eph |-> <<"i", n>>,
     dest |-> ComputeDestinationID(n, OurFabric, node)]

CASEInitiatorNew(node, sid, n) ==
    [proto |-> "CASE", sid |-> sid, n |-> n, peer |-> node,
     log |-> <<GenerateSigma1(n, sid, node)>>]

S2K(fabric, s1, rand, eph) ==
    Key(ECDH(s1.eph, eph), <<"ipk", fabric, rand, eph, s1>>, "Sigma2")

S3K(fabric, s1, s2) ==
    Key(ECDH(s1.eph, s2.eph), <<"ipk", fabric, s1, s2>>, "Sigma3")

(* Sigma2 is believed when it opens under the key of this exchange and the
   certificate inside has signed both ephemeral keys. *)
ProcessSigma2(h, m) ==
    /\ m.op = "Sigma2"
    /\ Opens(m.box, S2K(OurFabric, h.log[1], m.rand, m.eph))
    /\ Verifies(m.box.body.noc, <<m.box.body.noc, m.eph, h.log[1].eph>>, m.box.body.sig)

GenerateSigma3(h, m) ==
    [op |-> "Sigma3",
     box |-> Seal(S3K(OurFabric, h.log[1], m),
                  [noc |-> "controller",
                   sig |-> Sign("controller", <<"controller", h.log[1].eph, m.eph>>)])]

EstablishCASE(h, m) ==
    IF Len(h.log) = 3
    THEN [done |-> m.op = "StatusReport", send |-> None]
    ELSE [done |-> FALSE,
          send |-> IF ProcessSigma2(h, m) THEN GenerateSigma3(h, m) ELSE None]

CASERespondSigma1(dev, m, rsid) ==
    LET eph == <<"r", rsid>>
    IN  [op |-> "Sigma2", rand |-> rsid, sid |-> rsid, eph |-> eph,
         box |-> Seal(S2K(FabricOf[dev], m, rsid, eph),
                      [noc |-> dev, sig |-> Sign(dev, <<dev, eph, m.eph>>)])]

CASERespondSigma3(dev, log, m) ==
    /\ Opens(m.box, S3K(FabricOf[dev], log[1], log[2]))
    /\ Verifies(m.box.body.noc, <<m.box.body.noc, log[1].eph, log[2].eph>>, m.box.body.sig)

-----------------------------------------------------------------------------
(* The keys both sides derive from the transcript. *)
PASESessionKeys(log, pass) == DeriveSessionKeys(PaseKe(log, pass))

CASESessionKeys(fabric, log) ==
    Key(ECDH(log[1].eph, log[2].eph), <<"ipk", fabric, log[1], log[2], log[3]>>,
        "SessionKeys")

SessionKeys(h) ==
    IF h.proto = "PASE" THEN PASESessionKeys(h.log, h.peer)
                        ELSE CASESessionKeys(OurFabric, h.log)

PeerSessionIDOwn(h) == h.sid

PeerSessionID(h) == h.log[2].sid

Establish(h, m) == IF h.proto = "PASE" THEN EstablishPASE(h, m) ELSE EstablishCASE(h, m)
=============================================================================
