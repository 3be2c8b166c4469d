------------------------------ MODULE BTPProof ------------------------------
(***************************************************************************)
(* Proofs about the Bluetooth transport.                                   *)
(*                                                                         *)
(* BTP, for any set of senders, any size of the sequence number space, any *)
(* window and any message length below that size: what is written is       *)
(* sequential, what is acknowledged was received and not acknowledged      *)
(* before, and what comes out of Receive is a lossy FIFO.                  *)
(*                                                                         *)
(* Discovery and the dial of what it found (from "What discovery finds"    *)
(* on), for any devices, codes and timing: what is found is a device that  *)
(* the code is for, and what a device sends reaches BTP once and in order. *)
(***************************************************************************)
EXTENDS BTP, BLEDial, SequenceTheorems, TLAPS

(* Who holds c1Mu, and what the holder has left to do. *)
LockInv ==
    /\ \A s \in Senders : (pc[s] \notin {"idle", "lock"}) <=> (c1Mu = s)
    /\ tick.on <=> (c1Mu = Timer)
    /\ \A s \in Senders :
         c1Mu = s => /\ left[s] >= 1
                     /\ left[s] <= segs[s]
                     /\ msg[s] # 0

(* A sender past waitCanSend still has room in the window: only it can fill
   the window, because only the holder of c1Mu calls markSent. *)
WindowInv ==
    \A s \in Senders : pc[s] \in {"write", "mark"} => txInflight < WindowSize

(* Where the next number on the wire stands between what was
   written to C1 and localSeq, by who holds c1Mu. *)
HolderInv(s) ==
    /\ localSeq = Plus(nextSeq[s], left[s])
    /\ pc[s] # "mark" =>
         /\ wire.expect = nextSeq[s]
         /\ wire.building = IF left[s] = segs[s] THEN 0 ELSE msg[s]
    /\ pc[s] = "mark" =>
         /\ wire.expect = Plus(nextSeq[s], 1)
         /\ wire.building = IF left[s] = 1 THEN 0 ELSE msg[s]

SeqInv ==
    ~gap =>
      /\ wire.ok
      /\ c1Mu = Free => localSeq = wire.expect /\ wire.building = 0
      /\ c1Mu = Timer => /\ tick.seq = wire.expect
                         /\ localSeq = Plus(wire.expect, 1)
                         /\ wire.building = 0
      /\ \A s \in Senders : c1Mu = s => HolderInv(s)

(* The peripheral sees what is written as long as nothing is lost. *)
SightInv ==
    ~wire.missed => /\ peer.ok = wire.ok
                    /\ peer.ok => peer.expect = wire.expect /\ peer.building = wire.building

IndInv == TypeOK /\ LockInv /\ WindowInv /\ SeqInv /\ SightInv

-----------------------------------------------------------------------------
USE BTPAssumption

(* uint8 arithmetic stays in range. *)
LEMMA RingType ==
    ASSUME NEW a \in SeqNums, NEW k \in 0 .. SeqMod - 1
    PROVE  Plus(a, k) \in SeqNums /\ Minus(a, k) \in SeqNums
BY DEF SeqNums, Plus, Minus

(* Dropping the acknowledged prefix keeps a sequence of sequence numbers. *)
LEMMA AfterAckType ==
    ASSUME NEW u \in Seq(SeqNums), NEW a \in SeqNums
    PROVE  AfterAck(u, a) \in Seq(SeqNums)
<1>1. CASE \E i \in 1 .. Len(u) : u[i] = a
  <2>1. PICK i \in 1 .. Len(u) : i = CHOOSE j \in 1 .. Len(u) : u[j] = a
    BY <1>1
  <2>2. 1 + i \in 1 .. Len(u) + 1
    BY <2>1
  <2>3. SubSeq(u, 1 + i, Len(u)) \in Seq(SeqNums)
    BY <2>2, SubSeqProperties
  <2>. QED
    BY <1>1, <2>1, <2>3 DEF AfterAck
<1>2. CASE ~\E i \in 1 .. Len(u) : u[i] = a
  BY <1>2 DEF AfterAck
<1>. QED
  BY <1>1, <1>2

(* processAck never subtracts more than there is. *)
LEMMA NewlyAckedType ==
    ASSUME TypeOK, NEW a \in SeqNums
    PROVE  NewlyAcked(a) \in 0 .. txInflight
<1>1. Minus(localSeq, txInflight) \in SeqNums
  BY RingType DEF TypeOK
<1>2. Minus(a, Minus(localSeq, txInflight)) \in SeqNums
  BY <1>1, RingType DEF SeqNums
<1>3. Plus(Minus(a, Minus(localSeq, txInflight)), 1) \in SeqNums
  BY <1>2, RingType
<1>. QED
  BY <1>3 DEF NewlyAcked, SeqNums, TypeOK

(* Dropping the acknowledged prefix of the history of writes keeps its type. *)
LEMMA AckedSuffixType ==
    ASSUME TypeOK, NEW a \in SeqNums
    PROVE  AckedSuffix(a) \in Seq([seq : SeqNums, data : BOOLEAN])
<1>. DEFINE W == [seq : SeqNums, data : BOOLEAN]
<1>0. unacked \in Seq(W)
  BY DEF TypeOK
<1>. HIDE DEF W
<1>1. CASE \E i \in 1 .. Len(unacked) : unacked[i].seq = a
  <2>1. PICK i \in 1 .. Len(unacked) :
            i = CHOOSE j \in 1 .. Len(unacked) : unacked[j].seq = a
    BY <1>1
  <2>2. \A j \in 1 + i .. Len(unacked) : unacked[j] \in W
    BY <1>0, <2>1
  <2>3. 1 + i \in Int /\ Len(unacked) \in Int
    BY <1>0, <2>1
  <2>4. SubSeq(unacked, 1 + i, Len(unacked)) \in Seq(W)
    BY <2>2, <2>3, SubSeqProperties
  <2>. QED
    BY <1>1, <2>1, <2>4 DEF AckedSuffix, W
<1>2. CASE ~\E i \in 1 .. Len(unacked) : unacked[i].seq = a
  BY <1>0, <1>2 DEF AckedSuffix, W
<1>. QED
  BY <1>1, <1>2 DEF W

(* What the peripheral keeps after a write is of its type. *)
LEMMA PeerTakeType ==
    ASSUME TypeOK,
           NEW seg \in [b : BOOLEAN, e : BOOLEAN, data : BOOLEAN, msg : Nat,
                        seq : SeqNums, ack : SeqNums \cup {NoAck}]
    PROVE  PeerTake(seg) \in Peers
<1>1. peer \in Peers
  BY DEF TypeOK
<1>2. seg.ack # NoAck => AfterAck(peer.unacked, seg.ack) \in Seq(SeqNums)
  BY <1>1, AfterAckType DEF Peers
<1>3. Plus(peer.expect, 1) \in SeqNums
  BY <1>1, RingType DEF Peers
<1>4. (IF seg.data /\ seg.e THEN Append(peer.got, seg.msg) ELSE peer.got) \in Seq(Nat)
  BY <1>1 DEF Peers
<1>5. (IF seg.ack = NoAck THEN peer.unacked ELSE AfterAck(peer.unacked, seg.ack)) \in Seq(SeqNums)
  BY <1>1, <1>2 DEF Peers
<1>. QED
  BY ZenonT(30), <1>1, <1>3, <1>4, <1>5 DEF PeerTake, BuildingAfter, Peers

(* The fields of the peripheral that matter for the order of writes. *)
LEMMA PeerTakeFields ==
    ASSUME TypeOK,
           NEW seg \in [b : BOOLEAN, e : BOOLEAN, data : BOOLEAN, msg : Nat,
                        seq : SeqNums, ack : SeqNums \cup {NoAck}],
           Accepts(peer, seg)
    PROVE  /\ PeerTake(seg).ok = peer.ok
           /\ PeerTake(seg).expect = Plus(peer.expect, 1)
           /\ PeerTake(seg).building = BuildingAfter(peer, seg)
<1>1. peer \in Peers
  BY DEF TypeOK
<1>. QED
  BY <1>1 DEF PeerTake, Peers

(* A write reaches the peripheral or it does not; what was written grows. *)
LEMMA WriteOutFacts ==
    ASSUME TypeOK,
           NEW seg \in [b : BOOLEAN, e : BOOLEAN, data : BOOLEAN, msg : Nat,
                        seq : SeqNums, ack : SeqNums \cup {NoAck}],
           WriteOut(seg)
    PROVE  /\ peer' = peer \/ peer' = PeerTake(seg)
           /\ peer' \in Peers
           /\ wire' \in [expect : SeqNums, building : Nat, ok : BOOLEAN, missed : BOOLEAN]
           /\ unacked' \in Seq([seq : SeqNums, data : BOOLEAN])
           /\ wire'.expect = Plus(seg.seq, 1)
           /\ wire'.building = BuildingAfter(wire, seg)
           /\ wire'.ok = Accepts(wire, seg)
           /\ ~wire'.missed => ~wire.missed /\ peer' = PeerTake(seg)
<1>1. PICK dropped \in BOOLEAN :
         /\ peer' = IF dropped THEN peer ELSE PeerTake(seg)
         /\ wire' = [expect |-> Plus(seg.seq, 1), building |-> BuildingAfter(wire, seg),
                     ok |-> Accepts(wire, seg), missed |-> wire.missed \/ dropped]
  BY DEF WriteOut
<1>2. peer' = peer \/ peer' = PeerTake(seg)
  BY <1>1
<1>3. peer' \in Peers
  BY <1>2, PeerTakeType DEF TypeOK
<1>4. wire.building \in Nat /\ wire.ok \in BOOLEAN /\ wire.missed \in BOOLEAN
  BY DEF TypeOK
<1>5. Plus(seg.seq, 1) \in SeqNums
  BY RingType
<1>6. BuildingAfter(wire, seg) \in Nat
  BY <1>4 DEF BuildingAfter
<1>7. Accepts(wire, seg) \in BOOLEAN
  BY <1>4, Zenon DEF Accepts
<1>8. wire' \in [expect : SeqNums, building : Nat, ok : BOOLEAN, missed : BOOLEAN]
  BY <1>1, <1>4, <1>5, <1>6, <1>7, Zenon
<1>9. unacked' \in Seq([seq : SeqNums, data : BOOLEAN])
  <2>1. [seq |-> seg.seq, data |-> seg.data] \in [seq : SeqNums, data : BOOLEAN]
    OBVIOUS
  <2>2. unacked \in Seq([seq : SeqNums, data : BOOLEAN])
    BY DEF TypeOK
  <2>. QED
    BY <2>1, <2>2 DEF WriteOut
<1>10. /\ wire'.expect = Plus(seg.seq, 1)
       /\ wire'.building = BuildingAfter(wire, seg)
       /\ wire'.ok = Accepts(wire, seg)
       /\ wire'.missed = (wire.missed \/ dropped)
  BY <1>1, Zenon
<1>11. ~wire'.missed => ~wire.missed /\ peer' = PeerTake(seg)
  BY <1>1, <1>10
<1>. QED
  BY <1>2, <1>3, <1>8, <1>9, <1>10, <1>11

(* Type invariant, step by action. *)
LEMMA TypeStep == IndInv /\ [Next]_vars => TypeOK'
<1>. SUFFICES ASSUME IndInv, [Next]_vars PROVE TypeOK'
  OBVIOUS
<1>. TypeOK /\ LockInv /\ WindowInv
  BY DEF IndInv
<1>. USE DEF TypeOK, sessVars, rxVars, sendVars, outVars, SegmentPcs
<1>1. ASSUME NEW s \in Senders, SendCall(s) PROVE TypeOK'
  BY <1>1 DEF SendCall
<1>2. ASSUME NEW s \in Senders, Segment(s) PROVE TypeOK'
  <2>1. PICK n \in 1 .. MaxSegs :
            /\ left' = [left EXCEPT ![s] = n]
            /\ segs' = [segs EXCEPT ![s] = n]
            /\ localSeq' = Plus(localSeq, n)
    BY <1>2 DEF Segment
  <2>2. localSeq' \in SeqNums
    BY <2>1, RingType
  <2>3. left' \in [Senders -> 0 .. MaxSegs] /\ segs' \in [Senders -> 0 .. MaxSegs]
    BY <2>1
  <2>4. segAck' \in [Senders -> SeqNums \cup {NoAck}]
    BY <1>2 DEF Segment
  <2>5. nSent' \in Nat /\ msg' \in [Senders -> Nat]
    BY <1>2 DEF Segment
  <2>6. nextSeq' \in [Senders -> SeqNums] /\ pc' \in [Senders -> SegmentPcs]
    BY <1>2 DEF Segment
  <2>. QED
    BY <1>2, <2>2, <2>3, <2>4, <2>5, <2>6 DEF Segment
<1>0. ASSUME NEW s \in Senders, SendReturn(s)
      PROVE  /\ c1Mu' \in Senders \cup {Free, Timer}
             /\ pc' \in [Senders -> SegmentPcs]
             /\ msg' \in [Senders -> Nat]
             /\ left' \in [Senders -> 0 .. MaxSegs]
             /\ segs' \in [Senders -> 0 .. MaxSegs]
             /\ nextSeq' \in [Senders -> SeqNums]
             /\ segAck' \in [Senders -> SeqNums \cup {NoAck}]
             /\ cancelled' \in [Senders -> BOOLEAN]
  <2>1. cancelled' \in [Senders -> BOOLEAN]
    BY <1>0, Zenon DEF SendReturn
  <2>2. nextSeq' \in [Senders -> SeqNums]
    BY <1>0 DEF SendReturn, SeqNums
  <2>3. segAck' \in [Senders -> SeqNums \cup {NoAck}]
    BY <1>0 DEF SendReturn
  <2>4. left' \in [Senders -> 0 .. MaxSegs] /\ segs' \in [Senders -> 0 .. MaxSegs]
    BY <1>0 DEF SendReturn
  <2>. QED
    BY <1>0, <2>1, <2>2, <2>3, <2>4 DEF SendReturn
<1>3. ASSUME NEW s \in Senders, SendError(s) PROVE TypeOK'
  <2>1. SendReturn(s)
    BY <1>3 DEF SendError
  <2>. QED
    BY <1>3, <2>1, <1>0 DEF SendError
<1>4. ASSUME NEW s \in Senders, WaitCanSend(s) PROVE TypeOK'
  BY <1>4 DEF WaitCanSend
<1>5. ASSUME NEW s \in Senders, Park(s) PROVE TypeOK'
  <2>1. pc' \in [Senders -> SegmentPcs]
    BY <1>5, Zenon DEF Park
  <2>. QED
    BY <1>5, <2>1 DEF Park
<1>6. ASSUME NEW s \in Senders, WriteSegment(s) PROVE TypeOK'
  <2>1. OutSegment(s) \in [b : BOOLEAN, e : BOOLEAN, data : BOOLEAN, msg : Nat,
                           seq : SeqNums, ack : SeqNums \cup {NoAck}]
    BY DEF OutSegment
  <2>2. /\ peer' \in Peers
        /\ wire' \in [expect : SeqNums, building : Nat, ok : BOOLEAN, missed : BOOLEAN]
        /\ unacked' \in Seq([seq : SeqNums, data : BOOLEAN])
    <3>1. TypeOK /\ WriteOut(OutSegment(s))
      BY <1>6 DEF WriteSegment
    <3>. HIDE DEF TypeOK
    <3>. QED
      BY <2>1, <3>1, WriteOutFacts
  <2>. QED
    BY SMTT(30), <1>6, <2>2 DEF WriteSegment
<1>7. ASSUME NEW s \in Senders, MarkSent(s) PROVE TypeOK'
  <2>1. txInflight' \in 0 .. WindowSize
    BY <1>7 DEF MarkSent, WindowInv
  <2>2. CASE left[s] = 1
    <3>1. SendReturn(s)
      BY <1>7, <2>2 DEF MarkSent
    <3>. QED
      BY <1>7, <2>1, <3>1, <1>0 DEF MarkSent
  <2>3. CASE left[s] > 1
    <3>1. left[s] - 1 \in 0 .. MaxSegs
      BY <2>3
    <3>2. Plus(nextSeq[s], 1) \in SeqNums
      BY RingType
    <3>3. /\ pc' = [pc EXCEPT ![s] = "check"]
          /\ left' = [left EXCEPT ![s] = left[s] - 1]
          /\ nextSeq' = [nextSeq EXCEPT ![s] = Plus(nextSeq[s], 1)]
          /\ UNCHANGED <<c1Mu, msg, segs, segAck, cancelled>>
      BY <1>7, <2>3 DEF MarkSent
    <3>4. left' \in [Senders -> 0 .. MaxSegs] /\ nextSeq' \in [Senders -> SeqNums]
      BY <3>1, <3>2, <3>3
    <3>. QED
      BY <1>7, <2>1, <3>3, <3>4 DEF MarkSent
  <2>. QED
    BY <1>7, <2>2, <2>3 DEF MarkSent
<1>8. ASSUME NEW s \in Senders, CtxDone(s) PROVE TypeOK'
  BY <1>8 DEF CtxDone, Broadcast
<1>9. ASSUME StandaloneAck PROVE TypeOK'
  <2>1. Plus(localSeq, 1) \in SeqNums
    BY RingType
  <2>. QED
    BY <1>9, <2>1 DEF StandaloneAck
<1>10. ASSUME WriteAck PROVE TypeOK'
  <2>. DEFINE seg == [b |-> FALSE, e |-> FALSE, data |-> FALSE, msg |-> 0,
                      seq |-> tick.seq, ack |-> tick.ack]
  <2>0. /\ seg \in [b : BOOLEAN, e : BOOLEAN, data : BOOLEAN, msg : Nat,
                    seq : SeqNums, ack : SeqNums \cup {NoAck}]
        /\ WriteOut(seg)
    BY <1>10 DEF WriteAck
  <2>1. /\ peer' \in Peers
        /\ wire' \in [expect : SeqNums, building : Nat, ok : BOOLEAN, missed : BOOLEAN]
        /\ unacked' \in Seq([seq : SeqNums, data : BOOLEAN])
    <3>1. TypeOK
      OBVIOUS
    <3>. HIDE DEF TypeOK, seg
    <3>. QED
      BY <2>0, <3>1, WriteOutFacts
  <2>2. 0 \in SeqNums
    BY BTPAssumption DEF SeqNums
  <2>3. tick' \in [on : BOOLEAN, ack : SeqNums, seq : SeqNums]
    BY <1>10, <2>2 DEF WriteAck, NoTick
  <2>5. c1Mu' \in Senders \cup {Free, Timer}
    BY <1>10 DEF WriteAck
  <2>. QED
    BY <1>10, <2>1, <2>3, <2>5 DEF WriteAck
<1>11. ASSUME RollbackStandaloneAck PROVE TypeOK'
  <2>1. Minus(localSeq, 1) \in SeqNums
    BY RingType
  <2>2. localSeq' \in SeqNums
    BY <1>11, <2>1 DEF RollbackStandaloneAck, RolledBack
  <2>3. 0 \in SeqNums
    BY BTPAssumption DEF SeqNums
  <2>4. tick' \in [on : BOOLEAN, ack : SeqNums, seq : SeqNums]
    BY <1>11, <2>3 DEF RollbackStandaloneAck, NoTick
  <2>5. pendingAck' \in SeqNums /\ hasPendingAck' \in BOOLEAN
    BY <1>11 DEF RollbackStandaloneAck
  <2>6. c1Mu' \in Senders \cup {Free, Timer}
    BY <1>11 DEF RollbackStandaloneAck
  <2>. QED
    BY <1>11, <2>2, <2>4, <2>5, <2>6 DEF RollbackStandaloneAck
<1>12. ASSUME ProcessAck PROVE TypeOK'
  <2>1. /\ rxSeg' = Head(c2) /\ c2' = Tail(c2) /\ c2 # <<>>
    BY <1>12 DEF ProcessAck
  <2>2. rxSeg' \in Indications /\ c2' \in Seq(Indications)
    BY <2>1
  <2>3. rxSeg'.ack # NoAck => rxSeg'.ack \in SeqNums
    BY <2>2 DEF Indications
  <2>4. rxSeg'.ack # NoAck => unacked' \in Seq([seq : SeqNums, data : BOOLEAN])
    <3>1. rxSeg'.ack # NoAck => unacked' = AckedSuffix(rxSeg'.ack)
      BY <1>12 DEF ProcessAck
    <3>2. TypeOK
      OBVIOUS
    <3>. HIDE DEF TypeOK
    <3>. QED
      BY <2>3, <3>1, <3>2, AckedSuffixType
  <2>5. rxSeg'.ack # NoAck => NewlyAcked(rxSeg'.ack) \in 0 .. txInflight
    <3>1. TypeOK
      OBVIOUS
    <3>. HIDE DEF TypeOK
    <3>. QED
      BY <2>3, <3>1, NewlyAckedType
  <2>6. txInflight' \in 0 .. WindowSize
    BY SMTT(30), <1>12, <2>5 DEF ProcessAck
  <2>7. unacked' \in Seq([seq : SeqNums, data : BOOLEAN])
    BY <1>12, <2>4 DEF ProcessAck
  <2>8. pc' \in [Senders -> SegmentPcs]
    BY <1>12 DEF ProcessAck, Broadcast
  <2>. QED
    BY <1>12, <2>2, <2>6, <2>7, <2>8 DEF ProcessAck
<1>13. ASSUME RecordSegment PROVE TypeOK'
  <2>1. /\ rxSeg.seq \in SeqNums /\ rxSeg.len \in Nat /\ rxSeg.msg \in Nat
        /\ rxSeg.e \in BOOLEAN
    BY DEF Indications
  <2>2. NoSeg \in Indications
    BY DEF NoSeg, Indications, SeqNums
  <2>3. rxExpected' \in Nat
    BY <1>13, <2>1 DEF RecordSegment
  <2>6. rxBuf' \in {rxBuf, <<rxSeg.msg>>, Append(rxBuf, rxSeg.msg)}
    BY <1>13 DEF RecordSegment
  <2>7. rxBuf' \in Seq(Nat)
    <3>1. <<rxSeg.msg>> \in Seq(Nat) /\ Append(rxBuf, rxSeg.msg) \in Seq(Nat)
      BY <2>1
    <3>. QED
      BY <2>6, <3>1
  <2>5. rxActive' \in BOOLEAN
    BY <1>13, <2>1, Zenon DEF RecordSegment, ActiveAfter
  <2>4. rxPc' \in {"idle", "record", "deliver"}
    BY <1>13 DEF RecordSegment
  <2>. QED
    BY <1>13, <2>1, <2>2, <2>3, <2>4, <2>5, <2>7 DEF RecordSegment
<1>14. ASSUME DeliverMessage PROVE TypeOK'
  <2>1. messages' \in {messages, Append(messages, rxBuf)}
    BY <1>14 DEF DeliverMessage
  <2>3. messages' \in Seq(Seq(Nat))
    <3>. DEFINE S == Seq(Nat)
    <3>1. rxBuf \in S /\ messages \in Seq(S)
      OBVIOUS
    <3>. HIDE DEF S
    <3>2. Append(messages, rxBuf) \in Seq(S)
      BY <3>1
    <3>3. messages' \in Seq(S)
      BY <2>1, <3>1, <3>2
    <3>. QED
      BY <3>3 DEF S
  <2>2. rxBuf' \in Seq(Nat)
    BY <1>14 DEF DeliverMessage
  <2>. QED
    BY <1>14, <2>2, <2>3 DEF DeliverMessage
<1>15. ASSUME Receive PROVE TypeOK'
  <2>1. messages' \in Seq(Seq(Nat)) /\ rcvd' \in Seq(Seq(Nat))
    <3>. DEFINE S == Seq(Nat)
    <3>1. messages \in Seq(S) /\ rcvd \in Seq(S)
      OBVIOUS
    <3>. HIDE DEF S
    <3>2. messages' = Tail(messages) /\ rcvd' = Append(rcvd, Head(messages)) /\ messages # <<>>
      BY <1>15 DEF Receive, Received
    <3>3. messages' \in Seq(S) /\ rcvd' \in Seq(S)
      BY <3>1, <3>2
    <3>. QED
      BY <3>3 DEF S
  <2>2. UNCHANGED <<sessVars, rxActive, rxExpected, rxBuf, rxPc, rxSeg, lastRx, closed, c1Mu,
                    sendVars, cancelled, tick, c2, peer, nSent, gap, outVars>>
    BY <1>15 DEF Receive
  <2>. QED
    BY <2>1, <2>2
<1>16. ASSUME CloseConn PROVE TypeOK'
  BY <1>16 DEF CloseConn
<1>17. ASSUME CloseSession PROVE TypeOK'
  BY <1>17 DEF CloseSession, Broadcast
<1>18. ASSUME PeerSend \/ PeerAck PROVE TypeOK'
  <2>1. \A m, n, rest \in Nat : PeerSends(m, n, rest) \in Peers
    <3>1. Plus(peer.seq, 1) \in SeqNums /\ Append(peer.unacked, peer.seq) \in Seq(SeqNums)
      BY RingType DEF Peers
    <3>. QED
      BY <3>1 DEF PeerSends, Peers
  <2>2. \A b, e, data \in BOOLEAN, m, n \in Nat :
          PeerIndicate(b, e, data, m, n) => c2' \in Seq(Indications)
    <3>. SUFFICES ASSUME NEW b \in BOOLEAN, NEW e \in BOOLEAN, NEW data \in BOOLEAN,
                         NEW m \in Nat, NEW n \in Nat,
                         PeerIndicate(b, e, data, m, n)
                  PROVE  c2' \in Seq(Indications)
      OBVIOUS
    <3>. DEFINE ind == [b |-> b, e |-> e, data |-> data, msg |-> m, len |-> n,
                        seq |-> peer.seq,
                        ack |-> IF peer.owes THEN peer.last ELSE NoAck]
    <3>1. ind \in Indications
      BY DEF Indications, Peers
    <3>2. c2' = Append(c2, ind)
      BY DEF PeerIndicate
    <3>. QED
      BY <3>1, <3>2
  <2>3. CASE PeerAck
    <3>1. c2' \in Seq(Indications)
      BY <2>2, <2>3 DEF PeerAck
    <3>2. peer' \in Peers
      BY <2>1, <2>3 DEF PeerAck, Peers
    <3>. QED
      BY <2>3, <3>1, <3>2 DEF PeerAck, PeerIndicate
  <2>4. CASE PeerSend
    <3>1. peer.nSent \in Nat /\ peer.left \in Nat /\ peer.len \in Nat
      BY DEF Peers
    <3>2. ASSUME NEW n \in 1 .. PeerSegs,
                 PeerIndicate(TRUE, n = 1, TRUE, peer.nSent + 1, n),
                 peer' = PeerSends(peer.nSent + 1, n, n - 1)
          PROVE  TypeOK'
      <4>1. c2' \in Seq(Indications)
        <5>1. (n = 1) \in BOOLEAN /\ peer.nSent + 1 \in Nat /\ n \in Nat
          BY <3>1
        <5>. QED
          BY <2>2, <3>2, <5>1
      <4>2. peer' \in Peers
        BY <2>1, <3>1, <3>2
      <4>. QED
        BY <3>2, <4>1, <4>2 DEF PeerIndicate
    <3>3. ASSUME peer.left > 0,
                 PeerIndicate(FALSE, peer.left = 1, TRUE, peer.nSent, peer.len),
                 peer' = PeerSends(peer.nSent, peer.len, peer.left - 1)
          PROVE  TypeOK'
      <4>1. c2' \in Seq(Indications)
        BY <2>2, <3>1, <3>3
      <4>2. peer' \in Peers
        BY SMTT(30), <2>1, <3>1, <3>3
      <4>. QED
        BY <3>3, <4>1, <4>2 DEF PeerIndicate
    <3>. QED
      BY <2>4, <3>2, <3>3 DEF PeerSend
  <2>. QED
    BY <1>18, <2>3, <2>4
<1>19. ASSUME UNCHANGED vars PROVE TypeOK'
  BY <1>19 DEF vars
<1>. QED
  BY <1>1, <1>2, <1>3, <1>4, <1>5, <1>6, <1>7, <1>8, <1>9, <1>10, <1>11, <1>12, <1>13,
     <1>14, <1>15, <1>16, <1>17, <1>18, <1>19 DEF Next, SendStep, WaitFails, WriteFails

(* The lock discipline, step by action. *)
LEMMA LockStep == IndInv /\ [Next]_vars => LockInv'
<1>. SUFFICES ASSUME IndInv, [Next]_vars PROVE LockInv'
  OBVIOUS
<1>. TypeOK /\ LockInv
  BY DEF IndInv
<1>. USE DEF TypeOK, LockInv, sessVars, rxVars, sendVars, SegmentPcs
<1>1. ASSUME NEW s \in Senders, SendCall(s) PROVE LockInv'
  BY <1>1 DEF SendCall
<1>2. ASSUME NEW s \in Senders, Segment(s) PROVE LockInv'
  <2>1. \A t \in Senders : pc[t] \in {"idle", "lock"}
    BY <1>2 DEF Segment
  <2>2. /\ pc' = [pc EXCEPT ![s] = "check"]
        /\ c1Mu = Free /\ c1Mu' = s /\ tick' = tick
        /\ msg' = [msg EXCEPT ![s] = nSent + 1]
    BY <1>2 DEF Segment
  <2>3. PICK n \in 1 .. MaxSegs : /\ left' = [left EXCEPT ![s] = n]
                                  /\ segs' = [segs EXCEPT ![s] = n]
    BY <1>2 DEF Segment
  <2>4. ~tick.on
    BY <2>2 DEF Free, Timer
  <2>5. \A t \in Senders : (pc'[t] \notin {"idle", "lock"}) <=> (c1Mu' = t)
    BY <2>1, <2>2
  <2>6. left'[s] >= 1 /\ left'[s] <= segs'[s] /\ msg'[s] # 0
    BY <2>2, <2>3
  <2>. QED
    BY <2>2, <2>4, <2>5, <2>6
<1>0. ASSUME NEW s \in Senders, c1Mu = s, SendReturn(s), UNCHANGED tick PROVE LockInv'
  <2>1. pc' = [pc EXCEPT ![s] = "idle"] /\ c1Mu' = Free
    BY <1>0 DEF SendReturn
  <2>2. \A t \in Senders : pc'[t] \in {"idle", "lock"}
    BY <1>0, <2>1
  <2>3. ~tick'.on
    BY <1>0
  <2>. QED
    BY <2>1, <2>2, <2>3 DEF Free, Timer
<1>3. ASSUME NEW s \in Senders, WaitFails(s) \/ WriteFails(s) PROVE LockInv'
  BY <1>0, <1>3 DEF WaitFails, WriteFails, SendError
<1>4. ASSUME NEW s \in Senders, WaitCanSend(s) PROVE LockInv'
  BY <1>4 DEF WaitCanSend
<1>5. ASSUME NEW s \in Senders, Park(s) PROVE LockInv'
  BY <1>5 DEF Park
<1>6. ASSUME NEW s \in Senders, WriteSegment(s) PROVE LockInv'
  BY <1>6 DEF WriteSegment
<1>7. ASSUME NEW s \in Senders, MarkSent(s) PROVE LockInv'
  <2>1. c1Mu = s
    BY <1>7 DEF MarkSent
  <2>2. CASE left[s] = 1
    BY <1>0, <1>7, <2>1, <2>2 DEF MarkSent
  <2>3. CASE left[s] > 1
    <3>1. /\ pc' = [pc EXCEPT ![s] = "check"]
          /\ left' = [left EXCEPT ![s] = left[s] - 1]
          /\ UNCHANGED <<c1Mu, msg, segs, tick>>
      BY <1>7, <2>3 DEF MarkSent
    <3>. QED
      BY <1>7, <2>1, <2>3, <3>1 DEF MarkSent
  <2>. QED
    BY <1>7, <2>2, <2>3 DEF MarkSent
<1>8. ASSUME NEW s \in Senders, CtxDone(s) PROVE LockInv'
  BY <1>8 DEF CtxDone, Broadcast
<1>9. ASSUME StandaloneAck PROVE LockInv'
  BY <1>9 DEF StandaloneAck
<1>10. ASSUME WriteAck \/ RollbackStandaloneAck PROVE LockInv'
  <2>1. c1Mu = Timer /\ c1Mu' = Free /\ ~tick'.on /\ UNCHANGED sendVars
    BY <1>10 DEF WriteAck, RollbackStandaloneAck, NoTick
  <2>. QED
    BY <2>1 DEF Free, Timer
<1>11. ASSUME ProcessAck \/ CloseSession PROVE LockInv'
  <2>1. /\ pc' = pc \/ pc' = Broadcast(pc)
        /\ UNCHANGED <<c1Mu, tick, left, segs, msg>>
    BY <1>11 DEF ProcessAck, CloseSession
  <2>. QED
    BY <2>1 DEF Broadcast
<1>12. ASSUME \/ RecordSegment \/ DeliverMessage \/ Receive \/ CloseConn
              \/ PeerSend \/ PeerAck \/ UNCHANGED vars
       PROVE  LockInv'
  <2>1. UNCHANGED <<c1Mu, tick, sendVars>>
    BY <1>12 DEF RecordSegment, DeliverMessage, Receive, CloseConn, PeerSend, PeerAck,
                 PeerIndicate, vars
  <2>. QED
    BY <2>1
<1>. QED
  BY <1>1, <1>2, <1>3, <1>4, <1>5, <1>6, <1>7, <1>8, <1>9, <1>10, <1>11, <1>12
     DEF Next, SendStep

(* Room in the window for a sender past waitCanSend, step by action. *)
LEMMA WindowStep == IndInv /\ [Next]_vars => WindowInv'
<1>. SUFFICES ASSUME IndInv, [Next]_vars PROVE WindowInv'
  OBVIOUS
<1>. TypeOK /\ LockInv /\ WindowInv /\ TypeOK' /\ LockInv'
  BY TypeStep, LockStep DEF IndInv
<1>. USE DEF TypeOK, WindowInv, sessVars, rxVars, sendVars, SegmentPcs
<1>1. ASSUME NEW s \in Senders, SendCall(s) PROVE WindowInv'
  BY <1>1 DEF SendCall
<1>2. ASSUME NEW s \in Senders, Segment(s) PROVE WindowInv'
  BY <1>2 DEF Segment
<1>3. ASSUME NEW s \in Senders, SendError(s) PROVE WindowInv'
  BY <1>3 DEF SendError, SendReturn
<1>4. ASSUME NEW s \in Senders, WaitCanSend(s) PROVE WindowInv'
  BY <1>4 DEF WaitCanSend, WindowOpen
<1>5. ASSUME NEW s \in Senders, Park(s) PROVE WindowInv'
  BY <1>5 DEF Park
<1>6. ASSUME NEW s \in Senders, WriteSegment(s) PROVE WindowInv'
  BY <1>6 DEF WriteSegment
<1>7. ASSUME NEW s \in Senders, MarkSent(s) PROVE WindowInv'
  <2>1. \A t \in Senders : t # s => pc[t] \notin {"write", "mark"}
    <3>1. pc[s] = "mark"
      BY <1>7 DEF MarkSent
    <3>. HIDE DEF TypeOK
    <3>2. c1Mu = s
      BY <3>1 DEF LockInv
    <3>. QED
      BY <3>2 DEF LockInv
  <2>2. \A t \in Senders : pc'[t] \notin {"write", "mark"}
    BY <1>7, <2>1 DEF MarkSent, SendReturn
  <2>. QED
    BY <2>2
<1>8. ASSUME NEW s \in Senders, CtxDone(s) PROVE WindowInv'
  BY <1>8 DEF CtxDone, Broadcast
<1>9. ASSUME ProcessAck \/ CloseSession PROVE WindowInv'
  <2>1. pc' = pc \/ pc' = Broadcast(pc)
    BY <1>9 DEF ProcessAck, CloseSession
  <2>2. txInflight' <= txInflight
    <3>1. CASE CloseSession
      BY <3>1 DEF CloseSession
    <3>2. CASE ProcessAck
      <4>1. rxSeg'.ack # NoAck => rxSeg'.ack \in SeqNums
        BY DEF Indications
      <4>2. rxSeg'.ack # NoAck => NewlyAcked(rxSeg'.ack) \in 0 .. txInflight
        <5>1. TypeOK
          OBVIOUS
        <5>. HIDE DEF TypeOK
        <5>. QED
          BY <4>1, <5>1, NewlyAckedType
      <4>. QED
        BY <3>2, <4>2 DEF ProcessAck
    <3>. QED
      BY <1>9, <3>1, <3>2
  <2>3. txInflight \in Int /\ txInflight' \in Int /\ WindowSize \in Int
    OBVIOUS
  <2>. HIDE DEF TypeOK
  <2>4. ASSUME NEW t \in Senders, pc'[t] \in {"write", "mark"}
        PROVE  pc[t] \in {"write", "mark"}
    BY <2>1, <2>4 DEF Broadcast
  <2>. QED
    BY <2>2, <2>3, <2>4
<1>10. ASSUME \/ StandaloneAck \/ WriteAck \/ RollbackStandaloneAck \/ RecordSegment
              \/ DeliverMessage \/ Receive \/ CloseConn \/ PeerSend \/ PeerAck
              \/ UNCHANGED vars
       PROVE  WindowInv'
  <2>1. UNCHANGED <<txInflight, pc>>
    BY <1>10 DEF StandaloneAck, WriteAck, RollbackStandaloneAck, RecordSegment,
                 DeliverMessage, Receive, CloseConn, PeerSend, PeerAck, PeerIndicate, vars
  <2>. QED
    BY <2>1
<1>. QED
  BY <1>1, <1>2, <1>3, <1>4, <1>5, <1>6, <1>7, <1>8, <1>9, <1>10
     DEF Next, SendStep, WaitFails, WriteFails

(* Uint8 facts behind SeqInv. *)
LEMMA RingFacts ==
    ASSUME NEW a \in SeqNums, NEW k \in 1 .. SeqMod - 1
    PROVE  /\ Plus(Plus(a, 1), k - 1) = Plus(a, k)
           /\ Minus(Plus(a, 1), 1) = a
BY DEF Plus, Minus, SeqNums

(* The numbers on the wire, step by action. *)
LEMMA SeqStep == IndInv /\ [Next]_vars => SeqInv'
<1>. SUFFICES ASSUME IndInv, [Next]_vars, ~gap' PROVE SeqInv'
  BY DEF SeqInv
<1>. TypeOK /\ LockInv /\ SeqInv /\ TypeOK' /\ LockInv'
  BY TypeStep, LockStep DEF IndInv
<1>a. Free \notin Senders /\ Timer \notin Senders /\ Free # Timer
  BY DEF Free, Timer
<1>b. ~gap
  BY DEF Next, SendStep, vars, SendCall, Segment, WaitFails, WaitCanSend, Park, WriteFails,
         WriteSegment, MarkSent, CtxDone, SendError, StandaloneAck, WriteAck,
         RollbackStandaloneAck, ProcessAck, RecordSegment, DeliverMessage, Receive,
         CloseConn, CloseSession, PeerSend, PeerAck, PeerIndicate, TypeOK
<1>1. ASSUME NEW s \in Senders, SendCall(s) PROVE SeqInv'
  <2>1. UNCHANGED <<localSeq, wire, c1Mu, tick, nextSeq, left, segs, msg>>
    BY <1>1 DEF SendCall, sessVars, outVars
  <2>2. \A t \in Senders : c1Mu = t => pc'[t] = pc[t]
    BY <1>1 DEF SendCall, LockInv, TypeOK
  <2>. QED
    BY <1>b, <2>1, <2>2 DEF SeqInv, HolderInv
<1>2. ASSUME NEW s \in Senders, Segment(s) PROVE SeqInv'
  <2>1. PICK n \in 1 .. MaxSegs : /\ left' = [left EXCEPT ![s] = n]
                                  /\ segs' = [segs EXCEPT ![s] = n]
                                  /\ localSeq' = Plus(localSeq, n)
    BY <1>2 DEF Segment
  <2>2. /\ c1Mu = Free /\ c1Mu' = s /\ wire' = wire
        /\ nextSeq' = [nextSeq EXCEPT ![s] = localSeq]
        /\ pc' = [pc EXCEPT ![s] = "check"]
    BY <1>2 DEF Segment, outVars
  <2>3. /\ left'[s] = n /\ segs'[s] = n /\ nextSeq'[s] = localSeq /\ pc'[s] = "check"
    BY <2>1, <2>2 DEF TypeOK
  <2>4. wire.ok /\ localSeq = wire.expect /\ wire.building = 0
    BY <1>b, <2>2 DEF SeqInv
  <2>5. HolderInv(s)'
    BY <2>1, <2>2, <2>3, <2>4 DEF HolderInv
  <2>. QED
    BY <1>a, <2>2, <2>4, <2>5 DEF SeqInv
<1>3. ASSUME NEW s \in Senders, SendError(s) PROVE SeqInv'
  BY <1>3 DEF SendError
<1>4. ASSUME NEW s \in Senders, WaitCanSend(s) \/ Park(s) \/ CtxDone(s) PROVE SeqInv'
  <2>1. UNCHANGED <<localSeq, wire, c1Mu, tick, nextSeq, left, segs, msg>>
    BY <1>4 DEF WaitCanSend, Park, CtxDone, sessVars, outVars
  <2>2. \A t \in Senders : pc'[t] = "mark" <=> pc[t] = "mark"
    BY ZenonT(30), <1>4 DEF WaitCanSend, Park, CtxDone, Broadcast, TypeOK
  <2>. QED
    BY <1>b, <2>1, <2>2 DEF SeqInv, HolderInv
<1>5. ASSUME NEW s \in Senders, WriteSegment(s) PROVE SeqInv'
  <2>1. /\ pc[s] = "write" /\ pc' = [pc EXCEPT ![s] = "mark"]
        /\ WriteOut(OutSegment(s))
        /\ UNCHANGED <<localSeq, c1Mu, nextSeq, left, segs, msg>>
    BY <1>5 DEF WriteSegment, sessVars, outVars
  <2>2. c1Mu = s
    BY <2>1 DEF LockInv
  <2>3. wire.ok /\ HolderInv(s)
    BY <1>b, <2>2 DEF SeqInv
  <2>4. OutSegment(s) \in [b : BOOLEAN, e : BOOLEAN, data : BOOLEAN, msg : Nat,
                           seq : SeqNums, ack : SeqNums \cup {NoAck}]
    BY DEF OutSegment, TypeOK
  <2>5. Accepts(wire, OutSegment(s))
    BY <2>1, <2>3 DEF Accepts, OutSegment, HolderInv
  <2>6. /\ wire'.ok
        /\ wire'.expect = Plus(nextSeq[s], 1)
        /\ wire'.building = IF left[s] = 1 THEN 0 ELSE msg[s]
    BY ZenonT(30), <2>1, <2>4, <2>5, WriteOutFacts DEF OutSegment, BuildingAfter
  <2>7. pc'[s] = "mark"
    BY <2>1 DEF TypeOK
  <2>8. HolderInv(s)'
    BY <2>1, <2>3, <2>6, <2>7 DEF HolderInv
  <2>. QED
    BY <1>a, <2>1, <2>2, <2>6, <2>8 DEF SeqInv
<1>6. ASSUME NEW s \in Senders, MarkSent(s) PROVE SeqInv'
  <2>1. pc[s] = "mark" /\ UNCHANGED <<localSeq, wire, tick>>
    BY <1>6 DEF MarkSent, outVars
  <2>2. c1Mu = s /\ left[s] >= 1 /\ left[s] <= segs[s]
    BY <2>1 DEF LockInv
  <2>3. wire.ok /\ HolderInv(s)
    BY <1>b, <2>2 DEF SeqInv
  <2>4. CASE left[s] = 1
    <3>1. c1Mu' = Free
      BY <1>6, <2>4 DEF MarkSent, SendReturn
    <3>2. localSeq = wire.expect /\ wire.building = 0
      BY <2>1, <2>3, <2>4 DEF HolderInv
    <3>. QED
      BY <1>a, <2>1, <2>3, <3>1, <3>2 DEF SeqInv
  <2>5. CASE left[s] > 1
    <3>1. /\ c1Mu' = c1Mu /\ msg' = msg /\ segs' = segs
          /\ pc'[s] = "check" /\ left'[s] = left[s] - 1
          /\ nextSeq'[s] = Plus(nextSeq[s], 1)
      BY SMTT(30), <1>6, <2>5 DEF MarkSent, TypeOK
    <3>0. nextSeq[s] \in SeqNums /\ left[s] \in 0 .. MaxSegs /\ segs[s] \in 0 .. MaxSegs
      BY DEF TypeOK
    <3>2. nextSeq[s] \in SeqNums /\ left[s] \in 1 .. SeqMod - 1 /\ segs[s] \in Nat
      BY <2>2, <3>0
    <3>3. localSeq' = Plus(nextSeq'[s], left'[s])
      BY <2>1, <2>3, <3>1, <3>2, RingFacts DEF HolderInv
    <3>4. left'[s] # segs'[s]
      BY <2>2, <2>5, <3>1, <3>2
    <3>5. HolderInv(s)'
      BY <2>1, <2>3, <2>5, <3>1, <3>3, <3>4 DEF HolderInv
    <3>. QED
      BY <1>a, <2>1, <2>2, <2>3, <3>1, <3>5 DEF SeqInv
  <2>6. left[s] \in Nat
    BY DEF TypeOK
  <2>7. left[s] = 1 \/ left[s] > 1
    BY <2>2, <2>6
  <2>. QED
    BY <2>4, <2>5, <2>7
<1>7. ASSUME StandaloneAck PROVE SeqInv'
  <2>1. /\ c1Mu = Free /\ c1Mu' = Timer /\ wire' = wire
        /\ tick'.seq = localSeq /\ localSeq' = Plus(localSeq, 1)
    BY <1>7 DEF StandaloneAck, outVars
  <2>. QED
    BY <1>a, <1>b, <2>1 DEF SeqInv
<1>8. ASSUME WriteAck PROVE SeqInv'
  <2>. DEFINE seg == [b |-> FALSE, e |-> FALSE, data |-> FALSE, msg |-> 0,
                      seq |-> tick.seq, ack |-> tick.ack]
  <2>1. /\ tick.on /\ c1Mu' = Free /\ WriteOut(seg) /\ localSeq' = localSeq
    BY <1>8 DEF WriteAck, sessVars, outVars
  <2>2. c1Mu = Timer
    BY <2>1 DEF LockInv
  <2>3. /\ wire.ok /\ tick.seq = wire.expect /\ localSeq = Plus(wire.expect, 1)
        /\ wire.building = 0
    BY <1>b, <2>2 DEF SeqInv
  <2>4. seg \in [b : BOOLEAN, e : BOOLEAN, data : BOOLEAN, msg : Nat,
                 seq : SeqNums, ack : SeqNums \cup {NoAck}]
    BY DEF TypeOK
  <2>5. Accepts(wire, seg)
    BY <2>3 DEF Accepts
  <2>6. /\ wire'.ok /\ wire'.expect = Plus(wire.expect, 1) /\ wire'.building = 0
    BY <2>1, <2>3, <2>4, <2>5, WriteOutFacts DEF BuildingAfter
  <2>. QED
    BY <1>a, <2>1, <2>3, <2>6 DEF SeqInv
<1>9. ASSUME RollbackStandaloneAck PROVE SeqInv'
  <2>1. /\ tick.on /\ c1Mu' = Free /\ wire' = wire /\ localSeq' = Minus(localSeq, 1)
    BY <1>9 DEF RollbackStandaloneAck, RolledBack, outVars
  <2>2. c1Mu = Timer
    BY <2>1 DEF LockInv
  <2>3. wire.ok /\ localSeq = Plus(wire.expect, 1) /\ wire.building = 0
    BY <1>b, <2>2 DEF SeqInv
  <2>4. wire.expect \in SeqNums
    BY DEF TypeOK
  <2>5. localSeq' = wire.expect
    BY <2>1, <2>3, <2>4, RingFacts
  <2>. QED
    BY <1>a, <2>1, <2>3, <2>5 DEF SeqInv
<1>10. ASSUME \/ ProcessAck \/ RecordSegment \/ DeliverMessage \/ Receive \/ CloseConn
              \/ CloseSession \/ UNCHANGED vars
       PROVE  SeqInv'
  <2>1. UNCHANGED <<localSeq, wire, c1Mu, tick, nextSeq, left, segs, msg>>
    BY <1>10 DEF outVars, ProcessAck, RecordSegment, DeliverMessage, Receive, CloseConn,
                 CloseSession, vars, sessVars, sendVars
  <2>2. pc' = pc \/ pc' = Broadcast(pc)
    BY <1>10 DEF ProcessAck, RecordSegment, DeliverMessage, Receive, CloseConn,
                 CloseSession, vars, sendVars
  <2>3. \A t \in Senders : pc'[t] = "mark" <=> pc[t] = "mark"
    BY <2>2 DEF Broadcast
  <2>. QED
    BY <1>b, <2>1, <2>3 DEF SeqInv, HolderInv
<1>11. ASSUME PeerSend \/ PeerAck PROVE SeqInv'
  <2>1. UNCHANGED <<localSeq, c1Mu, tick, pc, nextSeq, left, segs, msg>>
    BY <1>11 DEF PeerSend, PeerAck, PeerIndicate, sessVars, sendVars
  <2>2. wire' = wire
    BY <1>11 DEF PeerSend, PeerAck, PeerIndicate, outVars
  <2>. QED
    BY <1>b, <2>1, <2>2 DEF SeqInv, HolderInv
<1>. QED
  BY <1>1, <1>2, <1>3, <1>4, <1>5, <1>6, <1>7, <1>8, <1>9, <1>10, <1>11
     DEF Next, SendStep, WaitFails, WriteFails

(* What the peripheral sees, step by action. *)
LEMMA SightStep == IndInv /\ [Next]_vars => SightInv'
<1>. SUFFICES ASSUME IndInv, [Next]_vars PROVE SightInv'
  OBVIOUS
<1>0. TypeOK /\ SightInv /\ peer \in Peers
  BY DEF IndInv, TypeOK
<1>1. ASSUME NEW seg \in [b : BOOLEAN, e : BOOLEAN, data : BOOLEAN, msg : Nat,
                          seq : SeqNums, ack : SeqNums \cup {NoAck}],
             WriteOut(seg)
      PROVE  SightInv'
  <2>. SUFFICES ASSUME ~wire'.missed
                PROVE  /\ peer'.ok = wire'.ok
                       /\ peer'.ok => /\ peer'.expect = wire'.expect
                                      /\ peer'.building = wire'.building
    BY DEF SightInv
  <2>1. /\ ~wire.missed /\ peer' = PeerTake(seg)
        /\ wire'.expect = Plus(seg.seq, 1)
        /\ wire'.building = BuildingAfter(wire, seg)
        /\ wire'.ok = Accepts(wire, seg)
    BY <1>0, <1>1, WriteOutFacts
  <2>2. /\ peer.ok = wire.ok
        /\ peer.ok => peer.expect = wire.expect /\ peer.building = wire.building
    BY <1>0, <2>1 DEF SightInv
  <2>3. Accepts(peer, seg) <=> Accepts(wire, seg)
    BY <2>2 DEF Accepts
  <2>4. CASE Accepts(peer, seg)
    <3>1. /\ peer'.ok = peer.ok /\ peer'.expect = Plus(peer.expect, 1)
          /\ peer'.building = BuildingAfter(peer, seg)
      BY <1>0, <2>1, <2>4, PeerTakeFields
    <3>2. peer.ok /\ seg.seq = peer.expect
      BY <2>4 DEF Accepts
    <3>. QED
      BY <2>1, <2>2, <2>3, <2>4, <3>1, <3>2 DEF BuildingAfter
  <2>5. CASE ~Accepts(peer, seg)
    <3>1. peer'.ok = FALSE
      BY <1>0, <2>1, <2>5 DEF PeerTake, Peers
    <3>2. Accepts(wire, seg) = FALSE
      BY <2>3, <2>5 DEF Accepts
    <3>. QED
      BY <2>1, <3>1, <3>2
  <2>. QED
    BY <2>4, <2>5
<1>2. ASSUME NEW s \in Senders, WriteSegment(s) PROVE SightInv'
  <2>1. OutSegment(s) \in [b : BOOLEAN, e : BOOLEAN, data : BOOLEAN, msg : Nat,
                           seq : SeqNums, ack : SeqNums \cup {NoAck}]
    BY <1>0 DEF OutSegment, TypeOK
  <2>. QED
    BY <1>1, <1>2, <2>1 DEF WriteSegment
<1>3. CASE WriteAck
  <2>. DEFINE seg == [b |-> FALSE, e |-> FALSE, data |-> FALSE, msg |-> 0,
                      seq |-> tick.seq, ack |-> tick.ack]
  <2>1. /\ seg \in [b : BOOLEAN, e : BOOLEAN, data : BOOLEAN, msg : Nat,
                    seq : SeqNums, ack : SeqNums \cup {NoAck}]
        /\ WriteOut(seg)
    BY <1>0, <1>3 DEF WriteAck, TypeOK
  <2>. HIDE DEF seg
  <2>. QED
    BY <1>1, <2>1
<1>4. CASE PeerSend \/ PeerAck
  <2>1. wire' = wire
    BY <1>4 DEF PeerSend, PeerAck, PeerIndicate, outVars
  <2>2. \E m, n, rest : peer' = PeerSends(m, n, rest)
    BY <1>4 DEF PeerSend, PeerAck
  <2>3. /\ peer'.ok = peer.ok /\ peer'.expect = peer.expect
        /\ peer'.building = peer.building
    BY <1>0, <2>2 DEF PeerSends, Peers
  <2>. QED
    BY <1>0, <2>1, <2>3 DEF SightInv
<1>5. ASSUME \/ \E s \in Senders : \/ SendCall(s) \/ Segment(s) \/ WaitFails(s) \/ WaitCanSend(s)
                                   \/ Park(s) \/ WriteFails(s) \/ MarkSent(s) \/ CtxDone(s)
             \/ StandaloneAck \/ RollbackStandaloneAck \/ ProcessAck \/ RecordSegment
             \/ DeliverMessage \/ Receive \/ CloseConn \/ CloseSession \/ UNCHANGED vars
      PROVE  SightInv'
  <2>1. wire' = wire /\ peer' = peer
    BY <1>5 DEF SendCall, Segment, WaitFails, WaitCanSend, Park, WriteFails, MarkSent, CtxDone,
                SendError, StandaloneAck, RollbackStandaloneAck, ProcessAck, RecordSegment,
                DeliverMessage, Receive, CloseConn, CloseSession, vars, outVars
  <2>. QED
    BY <1>0, <2>1 DEF SightInv
<1>. QED
  BY <1>2, <1>3, <1>4, <1>5 DEF Next, SendStep

(* The inductive invariant holds in every reachable state. *)
LEMMA Inductive == Spec => []IndInv
<1>1. Init => IndInv
  <2>. SUFFICES ASSUME Init PROVE IndInv
    OBVIOUS
  <2>. USE DEF Init
  <2>1. 0 \in SeqNums
    BY DEF SeqNums
  <2>2. tick \in [on : BOOLEAN, ack : SeqNums, seq : SeqNums] /\ ~tick.on
    BY <2>1 DEF NoTick
  <2>3. rxSeg \in Indications
    BY <2>1 DEF NoSeg, Indications
  <2>4. /\ peer \in Peers /\ peer.ok /\ peer.expect = 0 /\ peer.building = 0
        /\ wire.ok /\ wire.expect = 0 /\ wire.building = 0
        /\ wire \in [expect : SeqNums, building : Nat, ok : BOOLEAN, missed : BOOLEAN]
    BY <2>1 DEF PeerInit, Peers
  <2>5. TypeOK
    <3>1. /\ localSeq \in SeqNums /\ txInflight \in 0 .. WindowSize
          /\ pendingAck \in SeqNums /\ rxExpected \in Nat /\ lastRx \in SeqNums
          /\ nSent \in Nat
      BY <2>1
    <3>2. /\ hasPendingAck \in BOOLEAN /\ rxActive \in BOOLEAN /\ gap \in BOOLEAN
          /\ closed \in {"open", "closing", "closed"}
          /\ c1Mu \in Senders \cup {Free, Timer}
          /\ rxPc \in {"idle", "record", "deliver"}
      OBVIOUS
    <3>3. /\ rxBuf \in Seq(Nat) /\ messages \in Seq(Seq(Nat)) /\ rcvd \in Seq(Seq(Nat))
          /\ c2 \in Seq(Indications)
          /\ unacked \in Seq([seq : SeqNums, data : BOOLEAN])
      OBVIOUS
    <3>4. /\ pc \in [Senders -> SegmentPcs]
          /\ cancelled \in [Senders -> BOOLEAN]
      BY Zenon DEF SegmentPcs
    <3>5. /\ msg \in [Senders -> Nat]
          /\ left \in [Senders -> 0 .. MaxSegs]
          /\ segs \in [Senders -> 0 .. MaxSegs]
          /\ nextSeq \in [Senders -> SeqNums]
          /\ segAck \in [Senders -> SeqNums \cup {NoAck}]
      BY <2>1
    <3>. QED
      BY <2>2, <2>3, <2>4, <3>1, <3>2, <3>3, <3>4, <3>5, Zenon DEF TypeOK
  <2>6. LockInv /\ WindowInv
    BY <2>2 DEF LockInv, WindowInv, Free, Timer
  <2>7. SeqInv /\ SightInv
    BY <2>4 DEF SeqInv, SightInv, Free, Timer
  <2>. QED
    BY <2>5, <2>6, <2>7 DEF IndInv
<1>2. IndInv /\ [Next]_vars => IndInv'
  BY TypeStep, LockStep, WindowStep, SeqStep, SightStep DEF IndInv
<1>. QED
  BY <1>1, <1>2, PTL DEF Spec

(* Type correctness. Its bound on txInflight says that the sender's own
   count never exceeds the negotiated window (waitCanSend, markSent). *)
THEOREM TypeCorrect == Spec => []TypeOK
BY Inductive, PTL DEF IndInv

(* Until a Send gives up half way, what is written to C1 is sequential and in
   whole messages, whatever the number of concurrent Sends, the timing of the
   ack ticker and the number of failed ticker writes; and the peripheral takes
   all of it unless the Bluetooth stack has lost a write. *)
THEOREM WritesAreSequential == Spec => []SequentialWrites
<1>1. IndInv => SequentialWrites
  BY DEF IndInv, SeqInv, SightInv, SequentialWrites
<1>. QED
  BY <1>1, Inductive, PTL

-----------------------------------------------------------------------------
(* Acknowledgements. An indication is known by its age: the last one that   *)
(* the peripheral sent is 1 old. While the link is up, every one that is    *)
(* not acknowledged is younger than the window, the youngest are unread,    *)
(* and what we owe or have in hand lies between.                            *)
Age(k) == Minus(peer.seq, k)

(* Indications that have not been recorded. *)
Unread == Len(c2) + IF rxPc = "record" THEN 1 ELSE 0

(* The acknowledgement that the holder of c1Mu is about to write. *)
InHand(a) ==
    \/ tick.on /\ a = tick.ack
    \/ \E s \in Senders : /\ c1Mu = s /\ pc[s] # "mark" /\ left[s] = segs[s]
                          /\ a = segAck[s]

UnackedInv ==
    /\ Len(peer.unacked) <= WindowSize
    /\ \A i \in 1 .. Len(peer.unacked) : peer.unacked[i] = Age(Len(peer.unacked) + 1 - i)

ReadInv ==
    /\ Unread <= Len(peer.unacked)
    /\ \A i \in 1 .. Len(c2) : c2[i].seq = Age(Len(c2) + 1 - i)
    /\ rxPc = "record" => rxSeg.seq = Age(Len(c2) + 1)

(* An acknowledgement is for a recorded indication that is not acknowledged
   yet; the pending one is younger than the one in hand. *)
Owed(a) == \E k \in Unread + 1 .. Len(peer.unacked) : a = Age(k)

OwedBefore(a, b) ==
    \E k \in Unread + 1 .. Len(peer.unacked) :
      /\ a = Age(k)
      /\ \E j \in Unread + 1 .. k - 1 : b = Age(j)

PendingInv ==
    /\ hasPendingAck => Owed(pendingAck)
    /\ \A a \in SeqNums :
         InHand(a) => Owed(a) /\ (hasPendingAck => OwedBefore(a, pendingAck))

LinkInv == UnackedInv /\ ReadInv /\ PendingInv

AckInv == ValidAcks /\ (closed # "closed" => LinkInv)

(* The types of what is on the link. *)
LEMMA LinkTypes ==
    ASSUME TypeOK
    PROVE  /\ peer.seq \in SeqNums
           /\ peer.unacked \in Seq(SeqNums) /\ Len(peer.unacked) \in Nat
           /\ c2 \in Seq(Indications) /\ Len(c2) \in Nat
           /\ Unread \in Nat
<1>1. peer \in Peers /\ c2 \in Seq(Indications)
  BY DEF TypeOK
<1>2. peer.seq \in SeqNums /\ peer.unacked \in Seq(SeqNums)
  BY <1>1 DEF Peers
<1>3. Len(peer.unacked) \in Nat
  BY <1>2, LenProperties
<1>4. Len(c2) \in Nat
  BY <1>1, LenProperties
<1>5. Unread \in Nat
  BY <1>4 DEF Unread
<1>. QED
  BY <1>1, <1>2, <1>3, <1>4, <1>5

(* Ages on the ring. *)
LEMMA AgeFacts ==
    ASSUME NEW q \in SeqNums, NEW k \in 0 .. SeqMod - 2
    PROVE  Minus(Plus(q, 1), k + 1) = Minus(q, k) /\ Minus(q, 0) = q
BY DEF SeqNums, Plus, Minus

(* Within a window, indications of different age have different numbers. *)
LEMMA AgesDiffer ==
    ASSUME NEW q \in SeqNums, NEW j \in 0 .. SeqMod - 1, NEW k \in 0 .. SeqMod - 1,
           Minus(q, j) = Minus(q, k)
    PROVE  j = k
BY DEF SeqNums, Minus

(* Acknowledging the k-th youngest indication leaves the k - 1 younger ones. *)
LEMMA AfterAckFacts ==
    ASSUME TypeOK, UnackedInv, NEW k \in 1 .. Len(peer.unacked)
    PROVE  /\ \E i \in 1 .. Len(peer.unacked) : peer.unacked[i] = Age(k)
           /\ Len(AfterAck(peer.unacked, Age(k))) = k - 1
           /\ \A i \in 1 .. k - 1 : AfterAck(peer.unacked, Age(k))[i] = Age(k - i)
<1>. DEFINE U == peer.unacked
            n == Len(U)
            p == n + 1 - k
<1>1. U \in Seq(SeqNums) /\ n \in Nat /\ peer.seq \in SeqNums /\ n <= WindowSize
  BY DEF TypeOK, Peers, UnackedInv
<1>2. p \in 1 .. n /\ n + 1 - p = k
  BY <1>1
<1>3. U[p] = Age(k)
  BY <1>2 DEF UnackedInv
<1>4. ASSUME NEW i \in 1 .. n, U[i] = Age(k) PROVE i = p
  <2>1. Age(n + 1 - i) = Age(k)
    BY <1>4 DEF UnackedInv
  <2>2. n + 1 - i \in 0 .. SeqMod - 1 /\ k \in 0 .. SeqMod - 1
    BY <1>1
  <2>3. n + 1 - i = k
    BY <1>1, <2>1, <2>2, AgesDiffer DEF Age
  <2>. QED
    BY <1>1, <2>3
<1>5. (CHOOSE i \in 1 .. n : U[i] = Age(k)) = p
  BY <1>2, <1>3, <1>4
<1>6. AfterAck(U, Age(k)) = SubSeq(U, 1 + p, n)
  BY <1>2, <1>3, <1>5 DEF AfterAck
<1>7. /\ Len(SubSeq(U, 1 + p, n)) = k - 1
      /\ \A i \in 1 .. k - 1 : SubSeq(U, 1 + p, n)[i] = U[p + i]
  <2>1. \A i \in 1 + p .. n : U[i] \in SeqNums
    <3>1. \A i \in 1 + p .. n : i \in 1 .. Len(U)
      BY <1>1, <1>2
    <3>. HIDE DEF U
    <3>. QED
      BY <1>1, <3>1
  <2>2. 1 + p \in Int /\ n \in Int /\ n - (1 + p) + 1 = k - 1
    BY <1>1, <1>2
  <2>3. Len(SubSeq(U, 1 + p, n)) = IF 1 + p <= n THEN n - (1 + p) + 1 ELSE 0
    BY <2>1, <2>2, SubSeqProperties
  <2>4. \A i \in 1 .. n - (1 + p) + 1 : SubSeq(U, 1 + p, n)[i] = U[(1 + p) + i - 1]
    BY <2>1, <2>2, SubSeqProperties
  <2>5. \A i \in 1 .. k - 1 : (1 + p) + i - 1 = p + i
    BY <1>1
  <2>. QED
    BY <1>2, <2>2, <2>3, <2>4, <2>5
<1>8. \A i \in 1 .. k - 1 : U[p + i] = Age(k - i)
  <2>1. ASSUME NEW i \in 1 .. k - 1 PROVE U[p + i] = Age(k - i)
    <3>1. p + i \in 1 .. n /\ n + 1 - (p + i) = k - i
      BY <1>1
    <3>. QED
      BY <3>1 DEF UnackedInv
  <2>. QED
    BY <2>1
<1>. QED
  BY <1>2, <1>3, <1>6, <1>7, <1>8

(* Steps that leave the two ends of the link alone: nothing new comes into
   anyone's hand. *)
LEMMA AckFrame ==
    ASSUME AckInv, UNCHANGED <<peer, c2, hasPendingAck, pendingAck, rxSeg>>,
           closed' # "closed" => closed # "closed",
           rxPc' = "record" <=> rxPc = "record",
           \A a \in SeqNums : InHand(a)' => InHand(a)
    PROVE  AckInv'
<1>1. \A k : Age(k)' = Age(k)
  BY DEF Age
<1>2. Unread' = Unread
  BY DEF Unread
<1>3. closed' # "closed" => UnackedInv' /\ ReadInv'
  BY <1>1, <1>2 DEF AckInv, LinkInv, UnackedInv, ReadInv
<1>4. \A a, b : (Owed(a)' <=> Owed(a)) /\ (OwedBefore(a, b)' <=> OwedBefore(a, b))
  BY <1>1, <1>2 DEF Owed, OwedBefore
<1>5. closed' # "closed" => PendingInv'
  BY <1>4 DEF AckInv, LinkInv, PendingInv
<1>. QED
  BY <1>3, <1>5 DEF AckInv, LinkInv, ValidAcks

(* A segment is written with the acknowledgement that was in hand, or with
   none; it reaches the peripheral or is lost. *)
LEMMA AckTaken ==
    ASSUME TypeOK, AckInv, closed # "closed",
           NEW seg \in [b : BOOLEAN, e : BOOLEAN, data : BOOLEAN, msg : Nat,
                        seq : SeqNums, ack : SeqNums \cup {NoAck}],
           WriteOut(seg), seg.ack # NoAck => InHand(seg.ack),
           UNCHANGED <<c2, hasPendingAck, pendingAck, rxSeg, rxPc>>,
           \A a \in SeqNums : ~InHand(a)'
    PROVE  AckInv'
<1>0. peer \in Peers /\ UnackedInv /\ ReadInv /\ PendingInv /\ ~peer.badAck
  BY DEF TypeOK, AckInv, LinkInv, ValidAcks
<1>8. peer' = peer \/ peer' = PeerTake(seg)
  BY DEF WriteOut
<1>1. peer'.seq = peer.seq
  BY <1>0, <1>8 DEF PeerTake, Peers
<1>2. (\A k : Age(k)' = Age(k)) /\ Unread' = Unread
  BY <1>1 DEF Age, Unread
<1>3. Len(peer.unacked) \in Nat /\ Len(c2) \in Nat /\ Unread \in Nat
  BY LinkTypes
<1>4. CASE peer'.unacked = peer.unacked /\ peer'.badAck = peer.badAck
  <2>1. UnackedInv' /\ ReadInv'
    BY <1>0, <1>2, <1>4 DEF UnackedInv, ReadInv
  <2>2. \A a : Owed(a)' <=> Owed(a)
    BY <1>2, <1>4 DEF Owed
  <2>. QED
    BY <1>0, <1>4, <2>1, <2>2 DEF AckInv, ValidAcks, LinkInv, PendingInv
<1>5. CASE peer' = PeerTake(seg) /\ Accepts(peer, seg) /\ seg.ack # NoAck
  <2>1. seg.ack \in SeqNums
    BY <1>5
  <2>2. InHand(seg.ack) /\ Owed(seg.ack)
    BY <1>0, <1>5, <2>1 DEF PendingInv
  <2>3. PICK k \in Unread + 1 .. Len(peer.unacked) :
              /\ seg.ack = Age(k)
              /\ hasPendingAck => \E j \in Unread + 1 .. k - 1 : pendingAck = Age(j)
    <3>1. CASE hasPendingAck
      BY <1>0, <2>1, <2>2, <3>1 DEF PendingInv, OwedBefore
    <3>2. CASE ~hasPendingAck
      BY <2>2, <3>2 DEF Owed
    <3>. QED
      BY <3>1, <3>2
  <2>4. k \in 1 .. Len(peer.unacked)
    BY <1>3
  <2>5. /\ \E i \in 1 .. Len(peer.unacked) : peer.unacked[i] = seg.ack
        /\ Len(AfterAck(peer.unacked, seg.ack)) = k - 1
        /\ \A i \in 1 .. k - 1 : AfterAck(peer.unacked, seg.ack)[i] = Age(k - i)
    BY <1>0, <2>3, <2>4, AfterAckFacts
  <2>6. peer'.unacked = AfterAck(peer.unacked, seg.ack) /\ ~peer'.badAck
    <3>1. PeerTake(seg).unacked = AfterAck(peer.unacked, seg.ack)
      BY <1>0, <1>5 DEF PeerTake, Peers
    <3>2. PeerTake(seg).badAck = \/ peer.badAck
                                 \/ /\ seg.ack # NoAck
                                    /\ \A i \in 1 .. Len(peer.unacked) : peer.unacked[i] # seg.ack
      BY <1>0, <1>5 DEF PeerTake, Peers
    <3>. QED
      BY <1>0, <1>5, <2>5, <3>1, <3>2
  <2>7. Len(peer'.unacked) = k - 1
    BY <2>5, <2>6
  <2>8. UnackedInv'
    <3>1. k - 1 <= WindowSize
      BY <1>0, <1>3 DEF UnackedInv
    <3>2. \A i \in 1 .. k - 1 : k - i = (k - 1) + 1 - i
      BY <1>3
    <3>. QED
      BY <1>2, <2>5, <2>6, <2>7, <3>1, <3>2 DEF UnackedInv
  <2>9. ReadInv'
    <3>1. Unread <= k - 1
      BY <1>3
    <3>. QED
      BY <1>0, <1>2, <2>7, <3>1 DEF ReadInv
  <2>10. PendingInv'
    BY <1>2, <2>3, <2>7 DEF PendingInv, Owed
  <2>. QED
    BY <2>6, <2>8, <2>9, <2>10 DEF AckInv, ValidAcks, LinkInv
<1>6. CASE peer' = PeerTake(seg) /\ ~Accepts(peer, seg)
  <2>1. peer' = [peer EXCEPT !.ok = FALSE]
    BY <1>6 DEF PeerTake
  <2>. QED
    BY <1>0, <1>4, <2>1 DEF Peers
<1>7. CASE peer' = PeerTake(seg) /\ Accepts(peer, seg) /\ seg.ack = NoAck
  <2>1. PeerTake(seg).unacked = peer.unacked
    BY <1>0, <1>7 DEF PeerTake, Peers
  <2>2. PeerTake(seg).badAck = \/ peer.badAck
                               \/ /\ seg.ack # NoAck
                                  /\ \A i \in 1 .. Len(peer.unacked) : peer.unacked[i] # seg.ack
    BY <1>0, <1>7 DEF PeerTake, Peers
  <2>. QED
    BY <1>0, <1>4, <1>7, <2>1, <2>2 DEF Peers
<1>. QED
  BY <1>4, <1>5, <1>6, <1>7, <1>8

(* An index of a longer sequence is the last one or one of the old ones. *)
LEMMA LastOrBefore ==
    ASSUME NEW n \in Nat, NEW i \in 1 .. n + 1, i # n + 1
    PROVE  i \in 1 .. n /\ n + 1 - i \in 0 .. n /\ (n + 1 - i) + 1 = n + 2 - i
OBVIOUS

(* An age between two others is so after everything has grown one older. *)
LEMMA Older ==
    ASSUME NEW n \in Nat, NEW u \in Nat, NEW k \in u + 1 .. n, NEW j \in u + 1 .. k - 1
    PROVE  /\ k \in 0 .. n /\ j \in 0 .. n
           /\ k + 1 \in u + 1 + 1 .. n + 1 /\ j + 1 \in u + 1 + 1 .. (k + 1) - 1
OBVIOUS

(* The peripheral sends: everything grows one older. *)
LEMMA AckIndicated ==
    ASSUME TypeOK, AckInv, closed # "closed",
           Len(peer.unacked) < WindowSize,
           peer'.seq = Plus(peer.seq, 1),
           peer'.unacked = Append(peer.unacked, peer.seq),
           peer'.badAck = peer.badAck,
           NEW ind \in Indications, ind.seq = peer.seq, c2' = Append(c2, ind),
           UNCHANGED <<hasPendingAck, pendingAck, rxSeg, rxPc>>,
           \A a \in SeqNums : InHand(a)' => InHand(a)
    PROVE  AckInv'
<1>0. UnackedInv /\ ReadInv /\ PendingInv
  BY DEF AckInv, LinkInv
<1>a. PICK n \in Nat, c \in Nat, u \in Nat :
            n = Len(peer.unacked) /\ c = Len(c2) /\ u = Unread
  BY LinkTypes
<1>1. /\ peer.seq \in SeqNums /\ peer.unacked \in Seq(SeqNums)
      /\ c2 \in Seq(Indications) /\ n < WindowSize
  BY <1>a, LinkTypes
<1>2. \A k \in 0 .. n : Age(k + 1)' = Age(k)
  BY <1>a, <1>1, AgeFacts DEF Age
<1>3. Age(1)' = peer.seq
  <2>1. Age(0) = peer.seq
    BY <1>a, <1>1, AgeFacts DEF Age
  <2>. QED
    BY <1>a, <1>1, <1>2, <2>1
<1>4. /\ Len(peer'.unacked) = n + 1 /\ peer'.unacked[n + 1] = peer.seq
      /\ \A i \in 1 .. n : peer'.unacked[i] = peer.unacked[i]
  BY <1>a, <1>1, AppendProperties
<1>5. /\ Len(c2') = c + 1 /\ c2'[c + 1] = ind
      /\ \A i \in 1 .. c : c2'[i] = c2[i]
  BY <1>a, <1>1, AppendProperties
<1>6. Unread' = u + 1
  BY <1>a, <1>1, <1>5 DEF Unread
<1>7. UnackedInv'
  <2>1. ASSUME NEW i \in 1 .. n + 1 PROVE peer'.unacked[i] = Age(n + 2 - i)'
    <3>1. CASE i = n + 1
      <4>1. n + 2 - i = 1
        BY <1>a, <1>1, <3>1
      <4>. QED
        BY <1>a, <1>3, <1>4, <3>1, <4>1
    <3>2. CASE i # n + 1
      <4>1. i \in 1 .. n /\ n + 1 - i \in 0 .. n /\ (n + 1 - i) + 1 = n + 2 - i
        BY <1>a, <3>2, LastOrBefore
      <4>2. peer.unacked[i] = Age(n + 1 - i)
        BY <1>a, <1>0, <4>1 DEF UnackedInv
      <4>3. Age((n + 1 - i) + 1)' = Age(n + 1 - i)
        BY <1>a, <1>2, <4>1
      <4>. QED
        BY <1>a, <1>4, <4>1, <4>2, <4>3
    <3>. QED
      BY <1>a, <3>1, <3>2
  <2>2. \A i \in 1 .. n + 1 : (n + 1) + 1 - i = n + 2 - i
    BY <1>1
  <2>. QED
    BY <1>a, <1>1, <1>4, <2>1, <2>2 DEF UnackedInv
<1>8. ReadInv'
  <2>0. c <= n /\ (rxPc = "record" => c + 1 <= n)
    BY <1>a, <1>0, <1>1 DEF ReadInv, Unread
  <2>1. ASSUME NEW i \in 1 .. c + 1 PROVE c2'[i].seq = Age(c + 2 - i)'
    <3>1. CASE i = c + 1
      <4>1. c + 2 - i = 1
        BY <1>a, <1>1, <3>1
      <4>. QED
        BY <1>a, <1>3, <1>5, <3>1, <4>1
    <3>2. CASE i # c + 1
      <4>1. /\ i \in 1 .. c /\ c + 1 - i \in 0 .. n
            /\ (c + 1 - i) + 1 = c + 2 - i
        BY <1>1, <2>0, <3>2
      <4>2. c2[i].seq = Age(c + 1 - i)
        BY <1>a, <1>0, <4>1 DEF ReadInv
      <4>3. Age((c + 1 - i) + 1)' = Age(c + 1 - i)
        BY <1>a, <1>2, <4>1
      <4>. QED
        BY <1>a, <1>5, <4>1, <4>2, <4>3
    <3>. QED
      BY <1>a, <3>1, <3>2
  <2>2. \A i \in 1 .. c + 1 : (c + 1) + 1 - i = c + 2 - i
    BY <1>a, <1>1
  <2>3. rxPc = "record" => rxSeg.seq = Age(c + 1 + 1)'
    BY <1>a, <1>0, <1>1, <1>2, <2>0 DEF ReadInv
  <2>4. u + 1 <= n + 1
    BY <1>a, <1>0, <1>1 DEF ReadInv
  <2>. QED
    BY <1>a, <1>4, <1>5, <1>6, <2>1, <2>2, <2>3, <2>4 DEF ReadInv
<1>9. \A a : Owed(a) => Owed(a)'
  <2>1. ASSUME NEW a, NEW k \in u + 1 .. n, a = Age(k) PROVE Owed(a)'
    <3>1. k + 1 \in u + 1 + 1 .. n + 1 /\ a = Age(k + 1)'
      BY <1>a, <1>1, <1>2, <2>1
    <3>. QED
      BY <1>a, <1>4, <1>6, <3>1 DEF Owed
  <2>. QED
    BY <1>a, <2>1 DEF Owed
<1>10. \A a, b : OwedBefore(a, b) => OwedBefore(a, b)'
  <2>1. ASSUME NEW a, NEW b, OwedBefore(a, b) PROVE OwedBefore(a, b)'
    <3>1. PICK k \in u + 1 .. n :
                a = Age(k) /\ \E j \in u + 1 .. k - 1 : b = Age(j)
      BY <1>a, <2>1 DEF OwedBefore
    <3>2. PICK j \in u + 1 .. k - 1 : b = Age(j)
      BY <3>1
    <3>3. /\ k \in 0 .. n /\ j \in 0 .. n
          /\ k + 1 \in u + 1 + 1 .. n + 1 /\ j + 1 \in u + 1 + 1 .. (k + 1) - 1
      BY <3>1, <3>2, Older
    <3>4. a = Age(k + 1)' /\ b = Age(j + 1)'
      BY <1>2, <3>1, <3>2, <3>3
    <3>. QED
      BY <1>4, <1>6, <3>3, <3>4 DEF OwedBefore
  <2>. QED
    BY <2>1
<1>11. PendingInv'
  BY <1>a, <1>0, <1>9, <1>10 DEF PendingInv
<1>. QED
  BY <1>a, <1>7, <1>8, <1>11 DEF AckInv, ValidAcks, LinkInv

(* Segment and StandaloneAck take the pending acknowledgement. *)
LEMMA AckTakenInHand ==
    ASSUME AckInv, hasPendingAck' = FALSE,
           UNCHANGED <<peer, c2, rxSeg, rxPc, closed>>,
           \A a \in SeqNums : InHand(a)' => hasPendingAck /\ a = pendingAck
    PROVE  AckInv'
<1>1. (\A k : Age(k)' = Age(k)) /\ Unread' = Unread
  BY DEF Age, Unread
<1>2. closed' # "closed" => UnackedInv' /\ ReadInv'
  BY <1>1 DEF AckInv, LinkInv, UnackedInv, ReadInv
<1>3. \A a : Owed(a)' <=> Owed(a)
  BY <1>1 DEF Owed
<1>4. closed' # "closed" => PendingInv'
  BY <1>3 DEF AckInv, LinkInv, PendingInv
<1>. QED
  BY <1>2, <1>4 DEF AckInv, LinkInv, ValidAcks

(* Acknowledgements, step by action. *)
LEMMA AckStep == IndInv /\ AckInv /\ [Next]_vars => AckInv'
<1>. SUFFICES ASSUME IndInv, AckInv, [Next]_vars PROVE AckInv'
  OBVIOUS
<1>. TypeOK /\ LockInv /\ TypeOK' /\ LockInv'
  BY TypeStep, LockStep DEF IndInv
<1>a. Free \notin Senders /\ Timer \notin Senders /\ Free # Timer
  BY DEF Free, Timer
<1>b. NoAck \notin SeqNums
  BY DEF NoAck, SeqNums
<1>1. ASSUME NEW s \in Senders, Segment(s) PROVE AckInv'
  <2>1. /\ c1Mu' = s /\ hasPendingAck' = FALSE
        /\ segAck' = [segAck EXCEPT ![s] = IF hasPendingAck THEN pendingAck ELSE NoAck]
        /\ UNCHANGED <<peer, c2, rxSeg, rxPc, closed>>
    BY <1>1 DEF Segment, rxVars
  <2>2. segAck'[s] = IF hasPendingAck THEN pendingAck ELSE NoAck
    BY <2>1 DEF TypeOK
  <2>3. \A a \in SeqNums : InHand(a)' => a = segAck'[s]
    <3>1. LockInv' /\ c1Mu' = s
      BY <2>1
    <3>2. ~tick'.on
      BY <1>a, <3>1 DEF LockInv
    <3>. QED
      BY <2>1, <3>2 DEF InHand
  <2>4. \A a \in SeqNums : InHand(a)' => hasPendingAck /\ a = pendingAck
    BY <1>b, <2>2, <2>3
  <2>. QED
    BY <2>1, <2>4, AckTakenInHand
<1>2. ASSUME StandaloneAck PROVE AckInv'
  <2>1. /\ hasPendingAck' = FALSE /\ hasPendingAck /\ tick'.ack = pendingAck
        /\ c1Mu' = Timer
        /\ UNCHANGED <<peer, c2, rxSeg, rxPc, closed>>
    BY <1>2 DEF StandaloneAck, AckDue, rxVars
  <2>2. \A a \in SeqNums : InHand(a)' => hasPendingAck /\ a = pendingAck
    BY <1>a, <2>1 DEF InHand
  <2>. QED
    BY <2>1, <2>2, AckTakenInHand
<1>3. ASSUME NEW s \in Senders, WriteSegment(s) PROVE AckInv'
  <2>1. /\ pc[s] = "write" /\ closed = "open" /\ pc' = [pc EXCEPT ![s] = "mark"]
        /\ WriteOut(OutSegment(s))
        /\ UNCHANGED <<c2, hasPendingAck, pendingAck, rxSeg, rxPc, c1Mu, tick, left, segs, segAck>>
    BY <1>3 DEF WriteSegment, sessVars, rxVars
  <2>2. c1Mu = s /\ ~tick.on
    BY <1>a, <2>1 DEF LockInv
  <2>3. OutSegment(s) \in [b : BOOLEAN, e : BOOLEAN, data : BOOLEAN, msg : Nat,
                           seq : SeqNums, ack : SeqNums \cup {NoAck}]
    BY DEF OutSegment, TypeOK
  <2>4. OutSegment(s).ack # NoAck => InHand(OutSegment(s).ack)
    BY <2>1, <2>2 DEF OutSegment, InHand
  <2>5. \A a \in SeqNums : ~InHand(a)'
    <3>1. pc'[s] = "mark"
      BY <2>1 DEF TypeOK
    <3>. QED
      BY <2>1, <2>2, <3>1 DEF InHand
  <2>. QED
    BY <2>1, <2>3, <2>4, <2>5, AckTaken
<1>4. ASSUME WriteAck PROVE AckInv'
  <2>. DEFINE seg == [b |-> FALSE, e |-> FALSE, data |-> FALSE, msg |-> 0,
                      seq |-> tick.seq, ack |-> tick.ack]
  <2>1. /\ tick.on /\ closed # "closed" /\ WriteOut(seg)
        /\ tick' = NoTick /\ c1Mu' = Free
        /\ UNCHANGED <<c2, hasPendingAck, pendingAck, rxSeg, rxPc>>
    BY <1>4 DEF WriteAck, sessVars, rxVars
  <2>2. seg \in [b : BOOLEAN, e : BOOLEAN, data : BOOLEAN, msg : Nat,
                 seq : SeqNums, ack : SeqNums \cup {NoAck}]
    BY DEF TypeOK
  <2>3. InHand(seg.ack)
    BY <2>1 DEF InHand
  <2>4. \A a \in SeqNums : ~InHand(a)'
    BY <1>a, <2>1 DEF InHand, NoTick
  <2>. HIDE DEF seg
  <2>. QED
    BY <2>1, <2>2, <2>3, <2>4, AckTaken
<1>5. ASSUME RollbackStandaloneAck PROVE AckInv'
  <2>1. /\ tick.on /\ hasPendingAck' = TRUE /\ pendingAck' = tick.ack
        /\ tick' = NoTick /\ c1Mu' = Free
        /\ UNCHANGED <<peer, c2, rxSeg, rxPc, closed>>
    BY <1>5 DEF RollbackStandaloneAck, rxVars
  <2>2. \A a \in SeqNums : ~InHand(a)'
    BY <1>a, <2>1 DEF InHand, NoTick
  <2>3. (\A k : Age(k)' = Age(k)) /\ Unread' = Unread
    BY <2>1 DEF Age, Unread
  <2>4. closed' # "closed" => UnackedInv' /\ ReadInv'
    BY <2>1, <2>3 DEF AckInv, LinkInv, UnackedInv, ReadInv
  <2>5. closed # "closed" => Owed(tick.ack)
    <3>1. InHand(tick.ack) /\ tick.ack \in SeqNums
      BY <2>1 DEF InHand, TypeOK
    <3>. QED
      BY <3>1 DEF AckInv, LinkInv, PendingInv
  <2>6. closed' # "closed" => Owed(pendingAck)'
    BY <2>1, <2>3, <2>5 DEF Owed
  <2>. QED
    BY <2>1, <2>2, <2>4, <2>6 DEF AckInv, LinkInv, PendingInv, ValidAcks
<1>6. ASSUME ProcessAck PROVE AckInv'
  <2>1. /\ rxPc = "idle" /\ rxPc' = "record" /\ c2 # <<>>
        /\ rxSeg' = Head(c2) /\ c2' = Tail(c2)
        /\ UNCHANGED <<peer, hasPendingAck, pendingAck, closed, c1Mu, tick, left, segs, segAck>>
        /\ pc' = pc \/ pc' = Broadcast(pc)
    BY <1>6 DEF ProcessAck
  <2>2. \A a \in SeqNums : InHand(a)' => InHand(a)
    <3>1. \A s \in Senders : pc'[s] # "mark" => pc[s] # "mark"
      BY <2>1 DEF Broadcast, TypeOK
    <3>. QED
      BY <2>1, <3>1 DEF InHand
  <2>3. PICK c \in Nat : c = Len(c2)
    BY LinkTypes
  <2>4. /\ Len(c2') = c - 1 /\ c >= 1 /\ rxSeg' = c2[1]
        /\ \A i \in 1 .. c - 1 : c2'[i] = c2[i + 1]
    <3>1. c2 \in Seq(Indications)
      BY DEF TypeOK
    <3>. QED
      BY <2>1, <2>3, <3>1, HeadTailProperties
  <2>5. Unread' = Unread
    BY <2>1, <2>3, <2>4 DEF Unread
  <2>6. \A k : Age(k)' = Age(k)
    BY <2>1 DEF Age
  <2>7. closed' # "closed" => UnackedInv' /\ PendingInv'
    <3>1. \A a, b : (Owed(a)' <=> Owed(a)) /\ (OwedBefore(a, b)' <=> OwedBefore(a, b))
      BY <2>1, <2>5, <2>6 DEF Owed, OwedBefore
    <3>2. closed # "closed" => UnackedInv /\ PendingInv
      BY DEF AckInv, LinkInv
    <3>3. closed # "closed" => UnackedInv'
      BY <2>1, <2>6, <3>2 DEF UnackedInv
    <3>. QED
      BY <2>1, <2>2, <3>1, <3>2, <3>3 DEF PendingInv
  <2>8. closed' # "closed" => ReadInv'
    <3>. SUFFICES ASSUME closed # "closed" PROVE ReadInv'
      BY <2>1
    <3>1. \A i \in 1 .. c : c2[i].seq = Age(c + 1 - i)
      BY <2>3 DEF AckInv, LinkInv, ReadInv
    <3>2. rxSeg'.seq = Age(c - 1 + 1)
      BY <2>4, <3>1
    <3>3. ASSUME NEW i \in 1 .. c - 1 PROVE c2'[i].seq = Age(c - 1 + 1 - i)
      <4>1. i + 1 \in 1 .. c /\ c + 1 - (i + 1) = c - 1 + 1 - i
        OBVIOUS
      <4>. QED
        BY <2>4, <3>1, <4>1
    <3>4. Unread' <= Len(peer'.unacked)
      BY <2>1, <2>5 DEF AckInv, LinkInv, ReadInv
    <3>. QED
      BY <2>4, <2>6, <3>2, <3>3, <3>4 DEF ReadInv
  <2>. QED
    BY <2>1, <2>7, <2>8 DEF AckInv, LinkInv, ValidAcks
<1>7. ASSUME RecordSegment PROVE AckInv'
  <2>1. /\ rxPc = "record" /\ rxPc' # "record" /\ hasPendingAck' = TRUE
        /\ pendingAck' = rxSeg.seq
        /\ UNCHANGED <<peer, c2, closed, c1Mu, tick, pc, left, segs, segAck>>
    BY <1>7 DEF RecordSegment, sendVars
  <2>2. \A a : InHand(a)' <=> InHand(a)
    BY <2>1 DEF InHand
  <2>3. PICK c \in Nat, n \in Nat : c = Len(c2) /\ n = Len(peer.unacked)
    BY LinkTypes
  <2>4. Unread = c + 1 /\ Unread' = c
    BY <2>1, <2>3 DEF Unread
  <2>5. \A k : Age(k)' = Age(k)
    BY <2>1 DEF Age
  <2>. SUFFICES ASSUME closed # "closed" PROVE LinkInv'
    BY <2>1 DEF AckInv, ValidAcks
  <2>6. UnackedInv /\ ReadInv /\ PendingInv
    BY DEF AckInv, LinkInv
  <2>7. c + 1 <= n
    BY <2>3, <2>4, <2>6 DEF ReadInv
  <2>8. UnackedInv'
    BY <2>1, <2>5, <2>6 DEF UnackedInv
  <2>9. ReadInv'
    <3>1. c <= n
      BY <2>7
    <3>. QED
      BY <2>1, <2>3, <2>4, <2>5, <2>6, <3>1 DEF ReadInv
  <2>10. pendingAck' = Age(c + 1)
    BY <2>1, <2>3, <2>6 DEF ReadInv
  <2>11. Owed(pendingAck)'
    <3>1. c + 1 \in c + 1 .. n
      BY <2>7
    <3>. QED
      BY <2>1, <2>3, <2>4, <2>5, <2>10, <3>1 DEF Owed
  <2>12. ASSUME NEW a \in SeqNums, InHand(a) PROVE Owed(a)' /\ OwedBefore(a, pendingAck)'
    <3>1. Owed(a)
      BY <2>6, <2>12 DEF PendingInv
    <3>2. PICK k \in c + 1 + 1 .. n : a = Age(k)
      BY <2>3, <2>4, <3>1 DEF Owed
    <3>3. k \in c + 1 .. n /\ c + 1 \in c + 1 .. k - 1
      BY <3>2
    <3>4. Owed(a)'
      BY <2>1, <2>3, <2>4, <2>5, <3>2, <3>3 DEF Owed
    <3>5. OwedBefore(a, pendingAck)'
      BY <2>1, <2>3, <2>4, <2>5, <2>10, <3>2, <3>3 DEF OwedBefore
    <3>. QED
      BY <3>4, <3>5
  <2>. QED
    BY <2>2, <2>8, <2>9, <2>11, <2>12 DEF LinkInv, PendingInv
<1>8. ASSUME NEW m \in Nat, NEW l \in Nat, NEW r \in Nat, NEW b \in BOOLEAN, NEW e \in BOOLEAN,
             NEW d \in BOOLEAN, NEW im \in Nat, NEW il \in Nat,
             PeerMaySend, PeerIndicate(b, e, d, im, il), peer' = PeerSends(m, l, r)
      PROVE  AckInv'
  <2>. DEFINE ind == [b |-> b, e |-> e, data |-> d, msg |-> im, len |-> il, seq |-> peer.seq,
                      ack |-> IF peer.owes THEN peer.last ELSE NoAck]
  <2>0. peer \in Peers
    BY DEF TypeOK
  <2>1. /\ closed # "closed" /\ c2' = Append(c2, ind)
        /\ UNCHANGED <<hasPendingAck, pendingAck, rxSeg, rxPc, c1Mu, tick, pc, left, segs, segAck>>
    BY <1>8 DEF PeerIndicate, sessVars, rxVars, sendVars
  <2>2. ind \in Indications /\ ind.seq = peer.seq
    BY <2>0 DEF Peers, Indications
  <2>3. /\ peer'.seq = Plus(peer.seq, 1) /\ peer'.badAck = peer.badAck
        /\ peer'.unacked = Append(peer.unacked, peer.seq)
    BY <1>8, <2>0 DEF PeerSends, Peers
  <2>4. Len(peer.unacked) < WindowSize
    <3>1. Len(peer.unacked) \in Nat
      BY LinkTypes
    <3>. QED
      BY <1>8, <3>1 DEF PeerMaySend
  <2>5. \A a \in SeqNums : InHand(a)' => InHand(a)
    BY <2>1 DEF InHand
  <2>. HIDE DEF ind
  <2>. QED
    BY <2>1, <2>2, <2>3, <2>4, <2>5, AckIndicated
<1>9. ASSUME PeerSend \/ PeerAck PROVE AckInv'
  <2>1. peer.nSent \in Nat /\ peer.len \in Nat /\ peer.left \in Nat
    BY DEF TypeOK, Peers
  <2>2. CASE PeerAck
    BY <1>8, <2>1, <2>2 DEF PeerAck
  <2>3. CASE PeerSend /\ peer.left = 0
    <3>1. PICK n \in 1 .. PeerSegs :
               /\ PeerIndicate(TRUE, n = 1, TRUE, peer.nSent + 1, n)
               /\ peer' = PeerSends(peer.nSent + 1, n, n - 1)
      <4>1. ~(peer.left > 0)
        BY <2>1, <2>3
      <4>. QED
        BY <2>3, <4>1, Zenon DEF PeerSend
    <3>2. n \in Nat /\ n - 1 \in Nat /\ peer.nSent + 1 \in Nat /\ (n = 1) \in BOOLEAN
      BY <2>1, <3>1
    <3>3. PeerMaySend
      BY <2>3 DEF PeerSend
    <3>. QED
      BY <1>8, <3>1, <3>2, <3>3
  <2>4. CASE PeerSend /\ peer.left > 0
    <3>1. /\ PeerMaySend
          /\ PeerIndicate(FALSE, peer.left = 1, TRUE, peer.nSent, peer.len)
          /\ peer' = PeerSends(peer.nSent, peer.len, peer.left - 1)
      <4>1. peer.left # 0
        BY <2>1, <2>4
      <4>. QED
        BY <2>4, <4>1, Zenon DEF PeerSend
    <3>2. peer.left - 1 \in Nat /\ (peer.left = 1) \in BOOLEAN
      BY <2>1, <2>4
    <3>. QED
      BY <1>8, <2>1, <3>1, <3>2
  <2>. QED
    BY <1>9, <2>1, <2>2, <2>3, <2>4
<1>10. ASSUME NEW s \in Senders, WaitFails(s) \/ WriteFails(s) PROVE AckInv'
  <2>1. /\ c1Mu' = Free
        /\ UNCHANGED <<peer, c2, hasPendingAck, pendingAck, rxSeg, rxPc, closed, tick>>
    BY <1>10 DEF WaitFails, WriteFails, SendError, SendReturn, sessVars, rxVars
  <2>2. \A a \in SeqNums : InHand(a)' => InHand(a)
    BY <1>a, <2>1 DEF InHand
  <2>. QED
    BY <2>1, <2>2, AckFrame
<1>11. ASSUME NEW s \in Senders, MarkSent(s) PROVE AckInv'
  <2>1. /\ UNCHANGED <<peer, c2, hasPendingAck, pendingAck, rxSeg, rxPc, closed, tick>>
        /\ pc[s] = "mark"
    BY <1>11 DEF MarkSent, rxVars
  <2>2. c1Mu = s /\ left[s] \in Nat /\ segs[s] \in Nat /\ left[s] <= segs[s] /\ left[s] >= 1
    <3>1. c1Mu = s
      BY <2>1 DEF LockInv
    <3>2. left[s] \in Nat /\ segs[s] \in Nat
      BY DEF TypeOK
    <3>. QED
      BY <3>1, <3>2 DEF LockInv
  <2>3. \A a \in SeqNums : InHand(a)' => InHand(a)
    <3>1. CASE left[s] = 1
      <4>1. c1Mu' = Free
        BY <1>11, <2>2, <3>1 DEF MarkSent, SendReturn
      <4>. QED
        BY <1>a, <2>1, <4>1 DEF InHand
    <3>2. CASE left[s] > 1
      <4>1. /\ left' = [left EXCEPT ![s] = left[s] - 1] /\ UNCHANGED <<c1Mu, segs>>
        BY <1>11, <3>2 DEF MarkSent
      <4>2. left'[s] = left[s] - 1 /\ segs' = segs
        BY <4>1 DEF TypeOK
      <4>3. left'[s] < segs'[s]
        BY <2>2, <4>2
      <4>. QED
        BY <2>1, <2>2, <4>1, <4>3 DEF InHand
    <3>. QED
      BY <2>2, <3>1, <3>2
  <2>. QED
    BY <2>1, <2>3, AckFrame
<1>12. ASSUME \/ \E s \in Senders : SendCall(s) \/ WaitCanSend(s) \/ Park(s) \/ CtxDone(s)
              \/ DeliverMessage \/ Receive \/ CloseConn \/ UNCHANGED vars
       PROVE  AckInv'
  <2>1. /\ UNCHANGED <<peer, c2, hasPendingAck, pendingAck, rxSeg, tick, c1Mu, left, segs, segAck>>
        /\ rxPc' = "record" <=> rxPc = "record"
        /\ closed' # "closed" => closed # "closed"
    BY <1>12 DEF SendCall, WaitCanSend, Park, CtxDone, DeliverMessage, Receive, CloseConn, vars,
                 sessVars, rxVars, sendVars
  <2>2. \A s \in Senders : pc'[s] # "mark" => pc[s] # "mark"
    <3>1. \/ pc' = pc \/ pc' = Broadcast(pc)
          \/ \E s \in Senders, l \in SegmentPcs : pc[s] # "mark" /\ pc' = [pc EXCEPT ![s] = l]
      BY <1>12 DEF SendCall, WaitCanSend, Park, CtxDone, DeliverMessage, Receive,
                   CloseConn, vars, sendVars, SegmentPcs
    <3>. QED
      BY <3>1 DEF Broadcast, TypeOK
  <2>3. \A a \in SeqNums : InHand(a)' => InHand(a)
    BY <2>1, <2>2 DEF InHand
  <2>. QED
    BY <2>1, <2>3, AckFrame
<1>13. ASSUME CloseSession PROVE AckInv'
  BY <1>13 DEF CloseSession, AckInv, ValidAcks
<1>. QED
  BY <1>1, <1>2, <1>3, <1>4, <1>5, <1>6, <1>7, <1>9, <1>10, <1>11, <1>12, <1>13
     DEF Next, SendStep

(* Nothing is owed at first. *)
LEMMA AckInit == Init => AckInv
<1>. SUFFICES ASSUME Init PROVE AckInv
  OBVIOUS
<1>1. /\ peer.unacked = <<>> /\ ~peer.badAck /\ c2 = <<>> /\ rxPc = "idle"
      /\ ~hasPendingAck /\ ~tick.on /\ c1Mu = Free
  BY DEF Init, PeerInit, NoTick
<1>2. \A a : ~InHand(a)
  BY <1>1 DEF InHand, Free
<1>3. Len(peer.unacked) = 0 /\ Len(c2) = 0 /\ Unread = 0
  BY <1>1 DEF Unread
<1>. QED
  BY <1>1, <1>2, <1>3 DEF AckInv, ValidAcks, LinkInv, UnackedInv, ReadInv, PendingInv

(* The invariant of acknowledgements holds throughout. *)
LEMMA AckInductive == Spec => []AckInv
BY Inductive, AckInit, AckStep, PTL DEF Spec

(* No acknowledgement that reaches the peripheral is for an indication that
   it has not sent or that was acknowledged before, whatever is in flight in
   both directions, however often the ticker's write fails and whoever gives
   up: for every window and every sequence space that is larger. *)
THEOREM AcksAreValid == Spec => []ValidAcks
<1>1. AckInv => ValidAcks
  BY DEF AckInv
<1>. QED
  BY <1>1, AckInductive, PTL

-----------------------------------------------------------------------------
(* The inbound channel. A place in the peripheral's stream of segments is a *)
(* number: 2 * m when message m is complete, 2 * m - 1 in the midst of it.  *)

(* The place after a segment, and the place at which it is expected. *)
Place(seg) == IF seg.e THEN 2 * seg.msg ELSE 2 * seg.msg - 1

Follows(at, seg) == at = IF seg.b THEN 2 * (seg.msg - 1) ELSE 2 * seg.msg - 1

PeerPlace == IF peer.left = 0 THEN 2 * peer.nSent ELSE 2 * peer.nSent - 1

(* The place that reassembly has reached when m was its last message. *)
Reached(m) == IF rxActive THEN 2 * m - 1 ELSE 2 * m

(* The segments on the way lead from there, place by place, to where the
   peripheral is. *)
Chain(at, m) ==
    /\ rxPc = "record" /\ rxSeg.data => Follows(Reached(m), rxSeg)
    /\ at[0] = IF rxPc = "record" /\ rxSeg.data THEN Place(rxSeg) ELSE Reached(m)
    /\ \A i \in 1 .. Len(c2) :
         /\ c2[i].data => Follows(at[i - 1], c2[i])
         /\ at[i] = IF c2[i].data THEN Place(c2[i]) ELSE at[i - 1]
    /\ Reached(m) <= 2 * peer.nSent
    /\ \A i \in 0 .. Len(c2) : at[i] <= 2 * peer.nSent
    /\ closed # "closed" => at[Len(c2)] = PeerPlace

(* A message that was put together from segments of one. *)
Good(x) == x # <<>> /\ Whole(x) /\ x[1] >= 1

(* Reassembly holds a message, which is not among the completed ones. *)
Holds == rxActive \/ rxPc = "deliver"

Bound(m) == IF Holds THEN m - 1 ELSE m

(* The completed messages are whole and in order, and older than the one in
   the buffer. *)
Completed(m) ==
    /\ rxPc = "deliver" => ~rxActive
    /\ Holds => Good(rxBuf) /\ rxBuf[1] = m
    /\ \A i \in 1 .. Len(rcvd) : Good(rcvd[i]) /\ rcvd[i][1] <= Bound(m)
    /\ \A i \in 1 .. Len(messages) : Good(messages[i]) /\ messages[i][1] <= Bound(m)
    /\ \A i, j \in 1 .. Len(rcvd) : i < j => rcvd[i][1] < rcvd[j][1]
    /\ \A i, j \in 1 .. Len(messages) : i < j => messages[i][1] < messages[j][1]
    /\ \A i \in 1 .. Len(rcvd), j \in 1 .. Len(messages) : rcvd[i][1] < messages[j][1]

Places == [0 .. Len(c2) -> Int]

InboundInv == \E m \in Nat : \E at \in Places : Chain(at, m) /\ Completed(m)

(* Steps that concern neither the link nor reassembly. *)
LEMMA InboundFrame ==
    ASSUME InboundInv, UNCHANGED <<c2, rxActive, rxBuf, messages, rxPc, rxSeg, rcvd>>,
           peer'.nSent = peer.nSent, peer'.left = peer.left,
           closed' # "closed" => closed # "closed"
    PROVE  InboundInv'
<1>1. PICK m \in Nat, at \in Places : Chain(at, m) /\ Completed(m)
  BY DEF InboundInv
<1>2. Chain(at, m)'
  BY <1>1 DEF Chain, Reached, PeerPlace
<1>3. Completed(m)'
  BY <1>1 DEF Completed, Holds, Bound
<1>4. at \in Places'
  BY DEF Places
<1>. QED
  BY <1>2, <1>3, <1>4 DEF InboundInv

(* One more message. *)
LEMMA GoodGrows ==
    ASSUME NEW x \in Seq(Nat), NEW m \in Nat, Good(x), x[1] = m
    PROVE  Good(Append(x, m)) /\ Append(x, m)[1] = m
<1>1. /\ Len(x) \in Nat /\ Len(x) >= 1
      /\ \A i \in 1 .. Len(x) : x[i] = m
  <2>1. Len(x) \in Nat /\ Len(x) # 0
    BY EmptySeq, LenProperties DEF Good
  <2>. QED
    BY <2>1 DEF Good, Whole
<1>2. /\ Len(Append(x, m)) = Len(x) + 1 /\ Append(x, m) # <<>>
      /\ \A i \in 1 .. Len(x) : Append(x, m)[i] = x[i]
      /\ Append(x, m)[Len(x) + 1] = m
  BY AppendProperties
<1>3. \A i \in 1 .. Len(x) + 1 : Append(x, m)[i] = m
  BY <1>1, <1>2
<1>4. Append(x, m)[1] = m
  BY <1>1, <1>3
<1>. QED
  BY <1>2, <1>3, <1>4 DEF Good, Whole

(* The first segment of a message begins a good one. *)
LEMMA GoodBegins ==
    ASSUME NEW m \in Nat \ {0}
    PROVE  Good(<<m>>) /\ <<m>>[1] = m
BY DEF Good, Whole

(* The peripheral sends a segment that continues where it is. *)
LEMMA InboundIndicated ==
    ASSUME TypeOK, InboundInv, closed # "closed",
           NEW ind \in Indications, c2' = Append(c2, ind),
           ind.data => Follows(PeerPlace, ind),
           PeerPlace' = IF ind.data THEN Place(ind) ELSE PeerPlace,
           peer'.nSent >= peer.nSent, peer' \in Peers,
           UNCHANGED <<rxActive, rxBuf, messages, rxPc, rxSeg, rcvd, closed>>
    PROVE  InboundInv'
<1>1. PICK m \in Nat, at \in Places : Chain(at, m) /\ Completed(m)
  BY DEF InboundInv
<1>2. PICK c \in Nat : c = Len(c2)
  BY LinkTypes
<1>3. /\ Len(c2') = c + 1 /\ c2'[c + 1] = ind
      /\ \A i \in 1 .. c : c2'[i] = c2[i]
  BY <1>2, LinkTypes, AppendProperties
<1>4. /\ peer.nSent \in Nat /\ peer'.nSent \in Nat /\ peer.left \in Nat /\ peer'.left \in Nat
      /\ ind.msg \in Nat
  BY DEF TypeOK, Peers, Indications
<1>5. PICK p \in Int : p = PeerPlace' /\ p <= 2 * peer'.nSent
  <2>1. PeerPlace' = IF peer'.left = 0 THEN 2 * peer'.nSent ELSE 2 * peer'.nSent - 1
    BY DEF PeerPlace
  <2>. DEFINE q == IF peer'.left = 0 THEN 2 * peer'.nSent ELSE 2 * peer'.nSent - 1
  <2>2. q \in Int /\ q <= 2 * peer'.nSent
    BY <1>4
  <2>. QED
    BY <2>1, <2>2
<1>6. PICK at2 \in [0 .. c + 1 -> Int] :
            /\ \A i \in 0 .. c : at2[i] = at[i]
            /\ at2[c + 1] = p
  <2>. DEFINE f == [i \in 0 .. c + 1 |-> IF i = c + 1 THEN p ELSE at[i]]
  <2>1. \A i \in 0 .. c + 1 : i # c + 1 => at[i] \in Int
    BY <1>2 DEF Places
  <2>2. f \in [0 .. c + 1 -> Int]
    BY <1>5, <2>1
  <2>3. (\A i \in 0 .. c : f[i] = at[i]) /\ f[c + 1] = p
    BY <1>2
  <2>. QED
    BY <2>2, <2>3
<1>7. at2 \in Places' /\ at[c] = PeerPlace
  BY <1>1, <1>2, <1>3, <1>6 DEF Places, Chain
<1>8. Reached(m)' = Reached(m)
  BY DEF Reached
<1>9. ASSUME NEW i \in 1 .. c + 1
      PROVE  /\ c2'[i].data => Follows(at2[i - 1], c2'[i])
             /\ at2[i] = IF c2'[i].data THEN Place(c2'[i]) ELSE at2[i - 1]
  <2>1. CASE i = c + 1
    <3>1. i - 1 = c /\ c \in 0 .. c
      BY <1>2, <2>1
    <3>. QED
      BY <1>3, <1>5, <1>6, <1>7, <2>1, <3>1
  <2>2. CASE i # c + 1
    <3>1. i \in 1 .. c /\ i \in 0 .. c /\ i - 1 \in 0 .. c
      BY <1>2, <2>2
    <3>2. /\ c2[i].data => Follows(at[i - 1], c2[i])
          /\ at[i] = IF c2[i].data THEN Place(c2[i]) ELSE at[i - 1]
      BY <1>1, <1>2, <3>1 DEF Chain
    <3>. QED
      BY <1>3, <1>6, <3>1, <3>2
  <2>. QED
    BY <2>1, <2>2
<1>10. \A i \in 0 .. c + 1 : at2[i] <= 2 * peer'.nSent
  <2>1. \A i \in 0 .. c : at[i] \in Int /\ at[i] <= 2 * peer.nSent
    BY <1>1, <1>2 DEF Chain, Places
  <2>2. \A i \in 0 .. c : at2[i] <= 2 * peer'.nSent
    <3>1. \A x \in Int : x <= 2 * peer.nSent => x <= 2 * peer'.nSent
      BY <1>4
    <3>. QED
      BY <1>6, <2>1, <3>1
  <2>3. \A i \in 0 .. c + 1 : i \in 0 .. c \/ i = c + 1
    BY <1>2
  <2>. QED
    BY <1>5, <1>6, <2>2, <2>3
<1>11. Reached(m)' <= 2 * peer'.nSent
  <2>1. Reached(m) \in Int
    BY DEF Reached
  <2>. QED
    <3>1. Reached(m) <= 2 * peer.nSent
      BY <1>1 DEF Chain
    <3>2. \A x \in Int : x <= 2 * peer.nSent => x <= 2 * peer'.nSent
      BY <1>4
    <3>. QED
      BY <1>8, <2>1, <3>1, <3>2
<1>12. at2[0] = at[0]
  BY <1>2, <1>6
<1>13. Chain(at2, m)'
  BY <1>1, <1>3, <1>5, <1>6, <1>8, <1>9, <1>10, <1>11, <1>12 DEF Chain
<1>14. Completed(m)'
  BY <1>1 DEF Completed, Holds, Bound
<1>. QED
  BY <1>7, <1>13, <1>14 DEF InboundInv

(* The numbers of completed messages. *)
LEMMA GoodNumber ==
    ASSUME NEW x \in Seq(Nat), Good(x)
    PROVE  x[1] \in Nat \ {0}
<1>1. Len(x) \in Nat /\ Len(x) # 0
  BY EmptySeq, LenProperties DEF Good
<1>2. 1 \in 1 .. Len(x)
  BY <1>1
<1>3. x[1] \in Nat
  BY <1>2, ElementOfSeq
<1>. QED
  BY <1>3 DEF Good

(* The types of what reassembly holds and has given out. *)
LEMMA CompletedTypes ==
    ASSUME TypeOK, NEW m \in Nat, Completed(m)
    PROVE  /\ \A i \in 1 .. Len(rcvd) : rcvd[i][1] \in Nat
           /\ \A i \in 1 .. Len(messages) : messages[i][1] \in Nat
           /\ Len(rcvd) \in Nat /\ Len(messages) \in Nat
<1>1. rcvd \in Seq(Seq(Nat)) /\ messages \in Seq(Seq(Nat))
  BY DEF TypeOK
<1>2. /\ \A i \in 1 .. Len(rcvd) : rcvd[i] \in Seq(Nat)
      /\ \A i \in 1 .. Len(messages) : messages[i] \in Seq(Nat)
  BY <1>1, ElementOfSeq
<1>3. Len(rcvd) \in Nat /\ Len(messages) \in Nat
  BY <1>1, LenProperties
<1>. QED
  BY <1>2, <1>3, GoodNumber DEF Completed

(* An indication leaves the link and waits to be recorded. *)
LEMMA InboundProcess ==
    ASSUME TypeOK, InboundInv, ProcessAck PROVE InboundInv'
<1>1. PICK m \in Nat, at \in Places : Chain(at, m) /\ Completed(m)
  BY DEF InboundInv
<1>2. PICK c \in Nat : c = Len(c2)
  BY LinkTypes
<1>3. /\ rxPc = "idle" /\ rxPc' = "record" /\ c2 # <<>> /\ rxSeg' = Head(c2) /\ c2' = Tail(c2)
      /\ UNCHANGED <<rxActive, rxBuf, messages, rcvd, peer, closed>>
  BY DEF ProcessAck
<1>4. /\ Len(c2') = c - 1 /\ c >= 1 /\ rxSeg' = c2[1]
      /\ \A i \in 1 .. c - 1 : c2'[i] = c2[i + 1]
  <2>1. c2 \in Seq(Indications)
    BY DEF TypeOK
  <2>. QED
    BY <1>2, <1>3, <2>1, HeadTailProperties
<1>5. PICK at2 \in [0 .. c - 1 -> Int] : \A i \in 0 .. c - 1 : at2[i] = at[i + 1]
  <2>. DEFINE f == [i \in 0 .. c - 1 |-> at[i + 1]]
  <2>1. \A i \in 0 .. c - 1 : at[i + 1] \in Int
    BY <1>2 DEF Places
  <2>2. f \in [0 .. c - 1 -> Int] /\ \A i \in 0 .. c - 1 : f[i] = at[i + 1]
    BY <2>1
  <2>. QED
    BY <2>2
<1>6. at2 \in Places'
  BY <1>4, <1>5 DEF Places
<1>7. Reached(m)' = Reached(m) /\ PeerPlace' = PeerPlace
  BY <1>3 DEF Reached, PeerPlace
<1>8. /\ at[0] = Reached(m)
      /\ c2[1].data => Follows(at[0], c2[1])
      /\ at[1] = IF c2[1].data THEN Place(c2[1]) ELSE at[0]
  <2>1. 1 \in 1 .. c /\ 1 - 1 = 0
    BY <1>2, <1>4
  <2>. QED
    BY <1>1, <1>2, <1>3, <2>1 DEF Chain
<1>9. at2[0] = at[1]
  BY <1>2, <1>4, <1>5
<1>10. ASSUME NEW i \in 1 .. c - 1
       PROVE  /\ c2'[i].data => Follows(at2[i - 1], c2'[i])
              /\ at2[i] = IF c2'[i].data THEN Place(c2'[i]) ELSE at2[i - 1]
  <2>1. /\ i + 1 \in 1 .. c /\ (i + 1) - 1 = i /\ i - 1 \in 0 .. c - 1 /\ (i - 1) + 1 = i
        /\ i \in 0 .. c - 1
    BY <1>2
  <2>2. /\ c2[i + 1].data => Follows(at[i], c2[i + 1])
        /\ at[i + 1] = IF c2[i + 1].data THEN Place(c2[i + 1]) ELSE at[i]
    BY <1>1, <1>2, <2>1 DEF Chain
  <2>3. at2[i] = at[i + 1] /\ at2[i - 1] = at[i]
    BY <1>5, <2>1
  <2>. QED
    BY <1>4, <2>2, <2>3
<1>11. \A i \in 0 .. c - 1 : at2[i] <= 2 * peer'.nSent
  <2>1. \A i \in 0 .. c - 1 : i + 1 \in 0 .. c
    BY <1>2
  <2>. QED
    BY <1>1, <1>2, <1>3, <1>5, <2>1 DEF Chain
<1>12. closed' # "closed" => at2[c - 1] = PeerPlace'
  <2>1. c - 1 \in 0 .. c - 1 /\ (c - 1) + 1 = c
    BY <1>2, <1>4
  <2>. QED
    BY <1>1, <1>2, <1>3, <1>5, <1>7, <2>1 DEF Chain
<1>13. Chain(at2, m)'
  BY <1>1, <1>3, <1>4, <1>7, <1>8, <1>9, <1>10, <1>11, <1>12 DEF Chain
<1>14. Completed(m)'
  BY <1>1, <1>3 DEF Completed, Holds, Bound
<1>. QED
  BY <1>6, <1>13, <1>14 DEF InboundInv

(* A place is at the end of a message or in the midst of one, never both. *)
LEMMA Parity ==
    ASSUME NEW m \in Nat, NEW k \in Nat
    PROVE  2 * m - 1 # 2 * (k - 1) /\ (2 * m - 1 = 2 * k - 1 => k = m)
OBVIOUS

(* Reassembly. The segment is the one that is expected: neither of the two
   errors of handleSegment is met, and what is appended belongs to the
   message in the buffer. *)
LEMMA InboundRecord ==
    ASSUME TypeOK, InboundInv, RecordSegment PROVE InboundInv'
<1>1. PICK m \in Nat, at \in Places : Chain(at, m) /\ Completed(m)
  BY DEF InboundInv
<1>2. /\ rxPc = "record" /\ rxPc' \in {"idle", "deliver"}
      /\ UNCHANGED <<c2, messages, rcvd, peer, closed>>
  BY DEF RecordSegment
<1>3. rxSeg \in Indications /\ rxSeg.msg \in Nat /\ peer.nSent \in Nat /\ rxBuf \in Seq(Nat)
  BY DEF TypeOK, Indications, Peers
<1>4. at \in Places' /\ PeerPlace' = PeerPlace /\ 0 \in 0 .. Len(c2)
  BY <1>2, LinkTypes DEF Places, PeerPlace
<1>5. CASE ~rxSeg.data
  <2>1. rxPc' = "idle" /\ UNCHANGED <<rxActive, rxBuf>>
    BY <1>5 DEF RecordSegment
  <2>2. Reached(m)' = Reached(m)
    BY <2>1 DEF Reached
  <2>3. Chain(at, m)'
    BY <1>1, <1>2, <1>4, <1>5, <2>1, <2>2 DEF Chain
  <2>4. Completed(m)'
    BY <1>1, <1>2, <2>1 DEF Completed, Holds, Bound
  <2>. QED
    BY <1>4, <2>3, <2>4 DEF InboundInv
<1>6. CASE rxSeg.data
  <2>0. PICK k \in Nat : k = rxSeg.msg
    BY <1>3
  <2>1. Follows(Reached(m), rxSeg) /\ at[0] = Place(rxSeg)
    BY <1>1, <1>2, <1>6 DEF Chain
  <2>2. rxActive => m >= 1
    <3>1. rxActive => Good(rxBuf) /\ rxBuf[1] = m
      BY <1>1 DEF Completed, Holds
    <3>. QED
      BY <3>1 DEF Good
  <2>3. /\ rxSeg.b <=> ~rxActive
        /\ k = IF rxActive THEN m ELSE m + 1
    <3>1. CASE rxActive
      <4>1. 2 * m - 1 = IF rxSeg.b THEN 2 * (k - 1) ELSE 2 * k - 1
        BY <2>0, <2>1, <3>1 DEF Follows, Reached
      <4>2. ~rxSeg.b /\ k = m
        BY <1>1, <2>0, <4>1, Parity
      <4>. QED
        BY <3>1, <4>2
    <3>2. CASE ~rxActive
      <4>1. 2 * m = IF rxSeg.b THEN 2 * (k - 1) ELSE 2 * k - 1
        BY <2>0, <2>1, <3>2 DEF Follows, Reached
      <4>2. rxSeg.b /\ k = m + 1
        BY <1>1, <2>0, <4>1
      <4>. QED
        BY <3>2, <4>2
    <3>. QED
      BY <3>1, <3>2
  <2>4. k \in Nat \ {0}
    BY <1>1, <2>0, <2>2, <2>3
  <2>5. /\ rxBuf' = IF rxSeg.b THEN <<k>> ELSE Append(rxBuf, k)
        /\ rxActive' = ActiveAfter(rxSeg)
        /\ rxPc' = "deliver" => rxSeg.e
    BY <1>6, <2>0, <2>3, Zenon DEF RecordSegment
  <2>6. rxActive' <=> ~rxSeg.e
    BY <2>5 DEF ActiveAfter
  <2>7. Good(rxBuf') /\ rxBuf'[1] = k
    <3>1. CASE rxActive
      <4>1. Good(rxBuf) /\ rxBuf[1] = m /\ rxBuf' = Append(rxBuf, m)
        BY <1>1, <2>3, <2>5, <3>1 DEF Completed, Holds
      <4>. QED
        BY <1>3, <2>3, <3>1, <4>1, GoodGrows
    <3>2. CASE ~rxActive
      BY <2>3, <2>4, <2>5, <3>2, GoodBegins
    <3>. QED
      BY <3>1, <3>2
  <2>8. Reached(k)' = at[0]
    BY <2>0, <2>1, <2>6 DEF Reached, Place
  <2>9. at[0] <= 2 * peer.nSent
    BY <1>1, <1>4 DEF Chain
  <2>10. Chain(at, k)'
    BY <1>1, <1>2, <1>4, <2>8, <2>9 DEF Chain
  <2>11. Completed(k)'
    <3>1. Holds' \/ rxPc' = "idle"
      BY <1>2 DEF Holds
    <3>2. rxPc' = "deliver" => ~rxActive'
      BY <2>5, <2>6
    <3>3. Bound(m) = k - 1
      BY <1>1, <1>2, <2>0, <2>3 DEF Bound, Holds
    <3>4. Bound(k)' \in {k - 1, k}
      BY DEF Bound
    <3>5. (\A i \in 1 .. Len(rcvd) : rcvd[i][1] \in Nat)
          /\ (\A i \in 1 .. Len(messages) : messages[i][1] \in Nat)
      BY <1>1, CompletedTypes
    <3>6. \A n \in Nat : n <= Bound(m) => n <= Bound(k)'
      BY <2>0, <3>3, <3>4
    <3>. QED
      BY <1>1, <1>2, <2>7, <3>2, <3>5, <3>6 DEF Completed, Holds
  <2>. QED
    BY <1>4, <2>0, <2>10, <2>11 DEF InboundInv
<1>. QED
  BY <1>5, <1>6

(* The message goes into the channel, or is dropped when the session closes. *)
LEMMA InboundDeliver ==
    ASSUME TypeOK, InboundInv, DeliverMessage PROVE InboundInv'
<1>1. PICK m \in Nat, at \in Places : Chain(at, m) /\ Completed(m)
  BY DEF InboundInv
<1>2. /\ rxPc = "deliver" /\ rxPc' = "idle"
      /\ UNCHANGED <<c2, rxActive, rxSeg, rcvd, peer, closed>>
      /\ messages' = messages \/ messages' = Append(messages, rxBuf)
  BY DEF DeliverMessage
<1>3. ~rxActive /\ Good(rxBuf) /\ rxBuf[1] = m /\ Bound(m) = m - 1 /\ Bound(m)' = m
  BY <1>1, <1>2 DEF Completed, Holds, Bound
<1>4. Chain(at, m)'
  <2>1. Reached(m)' = Reached(m) /\ PeerPlace' = PeerPlace
    BY <1>2 DEF Reached, PeerPlace
  <2>. QED
    BY <1>1, <1>2, <2>1 DEF Chain
<1>5. /\ \A i \in 1 .. Len(rcvd) : rcvd[i][1] \in Nat
      /\ \A i \in 1 .. Len(messages) : messages[i][1] \in Nat
      /\ Len(rcvd) \in Nat /\ Len(messages) \in Nat
  BY <1>1, CompletedTypes
<1>6. \A n \in Nat : n <= m - 1 => n < m /\ n <= m
  BY <1>1
<1>7. Completed(m)'
  <2>0. /\ \A i \in 1 .. Len(rcvd) : Good(rcvd[i]) /\ rcvd[i][1] < m /\ rcvd[i][1] <= m
        /\ \A i \in 1 .. Len(messages) : Good(messages[i]) /\ messages[i][1] < m /\ messages[i][1] <= m
    BY <1>1, <1>3, <1>5, <1>6 DEF Completed
  <2>1. CASE messages' = messages
    BY <1>1, <1>2, <1>3, <2>0, <2>1 DEF Completed, Holds
  <2>2. CASE messages' = Append(messages, rxBuf)
    <3>1. PICK n \in Nat : n = Len(messages)
      BY <1>5
    <3>2. /\ Len(messages') = n + 1 /\ messages'[n + 1] = rxBuf
          /\ \A i \in 1 .. n : messages'[i] = messages[i]
      <4>1. messages \in Seq(Seq(Nat)) /\ rxBuf \in Seq(Nat)
        BY DEF TypeOK
      <4>. QED
        BY <2>2, <3>1, <4>1, AppendProperties
    <3>3. \A i \in 1 .. n + 1 : Good(messages'[i]) /\ messages'[i][1] <= m
      BY <1>1, <1>3, <2>0, <3>1, <3>2
    <3>4. \A i, j \in 1 .. n + 1 : i < j => messages'[i][1] < messages'[j][1]
      <4>1. ASSUME NEW i \in 1 .. n + 1, NEW j \in 1 .. n + 1, i < j
            PROVE  messages'[i][1] < messages'[j][1]
        <5>1. i \in 1 .. n /\ (j = n + 1 \/ j \in 1 .. n)
          BY <3>1, <4>1
        <5>. QED
          BY <1>1, <1>3, <2>0, <3>1, <3>2, <4>1, <5>1 DEF Completed
      <4>. QED
        BY <4>1
    <3>5. \A i \in 1 .. Len(rcvd), j \in 1 .. n + 1 : rcvd[i][1] < messages'[j][1]
      <4>1. \A j \in 1 .. n + 1 : j = n + 1 \/ j \in 1 .. n
        BY <3>1
      <4>. QED
        BY <1>1, <1>3, <2>0, <3>1, <3>2, <4>1 DEF Completed
    <3>. QED
      BY <1>1, <1>2, <1>3, <2>0, <3>2, <3>3, <3>4, <3>5 DEF Completed, Holds
  <2>. QED
    BY <1>2, <2>1, <2>2
<1>8. at \in Places'
  BY <1>2 DEF Places
<1>. QED
  BY <1>4, <1>7, <1>8 DEF InboundInv

(* Receive hands out the oldest message. *)
LEMMA InboundReceive ==
    ASSUME TypeOK, InboundInv, Receive PROVE InboundInv'
<1>1. PICK m \in Nat, at \in Places : Chain(at, m) /\ Completed(m)
  BY DEF InboundInv
<1>2. /\ messages # <<>> /\ messages' = Tail(messages)
      /\ rcvd' = Append(rcvd, Head(messages))
      /\ UNCHANGED <<c2, rxActive, rxSeg, rxBuf, rxPc, peer, closed>>
  BY DEF Receive, Received
<1>3. Chain(at, m)' /\ at \in Places'
  BY <1>1, <1>2 DEF Chain, Places, Reached, PeerPlace
<1>4. PICK n \in Nat, r \in Nat : n = Len(messages) /\ r = Len(rcvd) /\ n >= 1
  <2>1. messages \in Seq(Seq(Nat))
    BY DEF TypeOK
  <2>2. Len(messages) # 0
    BY <1>2, <2>1, EmptySeq
  <2>3. Len(messages) \in Nat /\ Len(rcvd) \in Nat
    BY <1>1, CompletedTypes
  <2>. QED
    BY <2>2, <2>3
<1>5. /\ Len(messages') = n - 1 /\ Head(messages) = messages[1]
      /\ \A i \in 1 .. n - 1 : messages'[i] = messages[i + 1]
      /\ Len(rcvd') = r + 1 /\ rcvd'[r + 1] = messages[1]
      /\ \A i \in 1 .. r : rcvd'[i] = rcvd[i]
  <2>1. messages \in Seq(Seq(Nat)) /\ rcvd \in Seq(Seq(Nat))
    BY DEF TypeOK
  <2>2. /\ Head(messages) \in Seq(Nat) /\ Len(messages') = n - 1
        /\ \A i \in 1 .. n - 1 : messages'[i] = messages[i + 1]
    BY <1>2, <1>4, <2>1, HeadTailProperties
  <2>3. Head(messages) = messages[1]
    BY <1>2, <2>1
  <2>4. /\ Len(rcvd') = r + 1 /\ rcvd'[r + 1] = Head(messages)
        /\ \A i \in 1 .. r : rcvd'[i] = rcvd[i]
    BY <1>2, <1>4, <2>1, <2>2, AppendProperties
  <2>. QED
    BY <2>2, <2>3, <2>4
<1>6. Bound(m)' = Bound(m)
  BY <1>2 DEF Bound, Holds
<1>7. 1 \in 1 .. n /\ \A i \in 1 .. n - 1 : i + 1 \in 1 .. n
  BY <1>4
<1>8. \A i \in 1 .. r + 1 : i \in 1 .. r \/ i = r + 1
  BY <1>4
<1>9. \A i \in 1 .. n - 1 : Good(messages'[i]) /\ messages'[i][1] <= Bound(m)
  BY <1>1, <1>4, <1>5, <1>7 DEF Completed
<1>10. \A i \in 1 .. r + 1 : Good(rcvd'[i]) /\ rcvd'[i][1] <= Bound(m)
  BY <1>1, <1>4, <1>5, <1>7, <1>8 DEF Completed
<1>11. \A i, j \in 1 .. n - 1 : i < j => messages'[i][1] < messages'[j][1]
  <2>1. \A i, j \in 1 .. n - 1 : i < j => i + 1 < j + 1
    BY <1>4
  <2>. QED
    BY <1>1, <1>4, <1>5, <1>7, <2>1 DEF Completed
<1>12. \A i, j \in 1 .. r + 1 : i < j => rcvd'[i][1] < rcvd'[j][1]
  <2>1. \A i, j \in 1 .. r + 1 : i < j => i \in 1 .. r
    BY <1>4
  <2>. QED
    BY <1>1, <1>4, <1>5, <1>7, <1>8, <2>1 DEF Completed
<1>13. \A i \in 1 .. r + 1, j \in 1 .. n - 1 : rcvd'[i][1] < messages'[j][1]
  <2>1. \A j \in 1 .. n - 1 : 1 < j + 1
    BY <1>4
  <2>. QED
    BY <1>1, <1>4, <1>5, <1>7, <1>8, <2>1 DEF Completed
<1>14. Completed(m)'
  BY <1>1, <1>2, <1>5, <1>6, <1>9, <1>10, <1>11, <1>12, <1>13 DEF Completed, Holds
<1>. QED
  BY <1>3, <1>14 DEF InboundInv

(* closeSession drops what is on the link. *)
LEMMA InboundClose ==
    ASSUME TypeOK, InboundInv, CloseSession PROVE InboundInv'
<1>1. PICK m \in Nat, at \in Places : Chain(at, m) /\ Completed(m)
  BY DEF InboundInv
<1>2. /\ c2' = <<>> /\ closed' = "closed"
      /\ UNCHANGED <<rxActive, rxBuf, messages, rxPc, rxSeg, rcvd, peer>>
  BY DEF CloseSession, rxVars
<1>3. Len(c2') = 0 /\ 0 \in 0 .. Len(c2)
  BY <1>2, LinkTypes
<1>4. PICK at2 \in [0 .. 0 -> Int] : at2[0] = at[0]
  <2>1. at[0] \in Int
    BY <1>3 DEF Places
  <2>2. [i \in 0 .. 0 |-> at[0]] \in [0 .. 0 -> Int] /\ [i \in 0 .. 0 |-> at[0]][0] = at[0]
    BY <2>1
  <2>. QED
    BY <2>2
<1>5. at[0] <= 2 * peer.nSent /\ \A i \in 0 .. 0 : i = 0
  BY <1>1, <1>3 DEF Chain
<1>6. Chain(at2, m)'
  BY <1>1, <1>2, <1>3, <1>4, <1>5 DEF Chain, Reached
<1>7. Completed(m)' /\ at2 \in Places'
  BY <1>1, <1>2, <1>3 DEF Completed, Holds, Bound, Places
<1>. QED
  BY <1>6, <1>7 DEF InboundInv

(* The peripheral sends the next segment of its message, or the first of the
   next one, or an acknowledgement without data. *)
LEMMA InboundPeer ==
    ASSUME IndInv, [Next]_vars, InboundInv, PeerSend \/ PeerAck PROVE InboundInv'
<1>0. TypeOK /\ peer \in Peers /\ peer' \in Peers
  BY TypeStep DEF IndInv, TypeOK
<1>1. peer.nSent \in Nat /\ peer.len \in Nat /\ peer.left \in Nat
  BY <1>0 DEF Peers
<1>2. ASSUME NEW m \in Nat, NEW l \in Nat, NEW r \in Nat, NEW b \in BOOLEAN, NEW e \in BOOLEAN,
             NEW d \in BOOLEAN, NEW im \in Nat, NEW il \in Nat,
             PeerIndicate(b, e, d, im, il), peer' = PeerSends(m, l, r), m >= peer.nSent,
             ~d => m = peer.nSent /\ r = peer.left,
             d => /\ im = m /\ (e <=> r = 0)
                  /\ IF b THEN peer.left = 0 /\ m = peer.nSent + 1
                          ELSE peer.left # 0 /\ m = peer.nSent
      PROVE  InboundInv'
  <2>1. PICK ind : ind = [b |-> b, e |-> e, data |-> d, msg |-> im, len |-> il, seq |-> peer.seq,
                      ack |-> IF peer.owes THEN peer.last ELSE NoAck]
    OBVIOUS
  <2>2. /\ closed # "closed" /\ c2' = Append(c2, ind)
        /\ UNCHANGED <<rxActive, rxBuf, messages, rxPc, rxSeg, rcvd, closed>>
    BY <1>2, <2>1 DEF PeerIndicate, rxVars
  <2>3. ind \in Indications
    BY <1>0, <2>1 DEF Peers, Indications
  <2>4. (ind.b <=> b) /\ (ind.e <=> e) /\ (ind.data <=> d) /\ ind.msg = im
    BY <2>1
  <2>5. peer'.nSent = m /\ peer'.left = r
    BY <1>0, <1>2 DEF PeerSends, Peers
  <2>6. ind.data => Follows(PeerPlace, ind)
    BY <1>1, <1>2, <2>4 DEF Follows, PeerPlace
  <2>7. PeerPlace' = IF ind.data THEN Place(ind) ELSE PeerPlace
    BY <1>1, <1>2, <2>4, <2>5 DEF Place, PeerPlace
  <2>. QED
    BY <1>0, <1>2, <2>2, <2>3, <2>5, <2>6, <2>7, InboundIndicated
<1>3. CASE PeerAck
  <2>1. /\ PeerIndicate(FALSE, FALSE, FALSE, 0, 0)
        /\ peer' = PeerSends(peer.nSent, peer.len, peer.left)
    BY <1>3, Zenon DEF PeerAck
  <2>2. peer.nSent >= peer.nSent
    BY <1>1
  <2>. QED
    BY <1>1, <1>2, <2>1, <2>2
<1>4. CASE PeerSend /\ peer.left = 0
  <2>1. PICK n \in 1 .. PeerSegs :
             /\ PeerIndicate(TRUE, n = 1, TRUE, peer.nSent + 1, n)
             /\ peer' = PeerSends(peer.nSent + 1, n, n - 1)
    <3>1. ~(peer.left > 0)
      BY <1>1, <1>4
    <3>. QED
      BY <1>4, <3>1, Zenon DEF PeerSend
  <2>2. /\ n \in Nat /\ n - 1 \in Nat /\ peer.nSent + 1 \in Nat /\ peer.nSent + 1 >= peer.nSent
        /\ (n = 1) \in BOOLEAN /\ (n = 1 <=> n - 1 = 0)
    BY <1>1, <2>1
  <2>. QED
    BY <1>2, <1>4, <2>1, <2>2
<1>5. CASE PeerSend /\ peer.left # 0
  <2>1. /\ PeerIndicate(FALSE, peer.left = 1, TRUE, peer.nSent, peer.len)
        /\ peer' = PeerSends(peer.nSent, peer.len, peer.left - 1)
    BY <1>5, Zenon DEF PeerSend
  <2>2. peer.left - 1 \in Nat /\ (peer.left = 1 <=> peer.left - 1 = 0)
        /\ (peer.left = 1) \in BOOLEAN /\ peer.nSent >= peer.nSent
    BY <1>1, <1>5
  <2>. QED
    BY <1>1, <1>2, <1>5, <2>1, <2>2
<1>. QED
  BY <1>3, <1>4, <1>5

(* Every step keeps the stream of segments in one piece. *)
LEMMA InboundStep == IndInv /\ InboundInv /\ [Next]_vars => InboundInv'
<1>. SUFFICES ASSUME IndInv, InboundInv, [Next]_vars PROVE InboundInv'
  OBVIOUS
<1>0. TypeOK /\ peer \in Peers
  BY DEF IndInv, TypeOK
<1>1. ASSUME NEW seg, WriteOut(seg) PROVE peer'.nSent = peer.nSent /\ peer'.left = peer.left
  BY <1>0, <1>1 DEF WriteOut, PeerTake, Peers
<1>2. ASSUME NEW s \in Senders, WriteSegment(s) PROVE InboundInv'
  <2>1. UNCHANGED <<c2, rxActive, rxBuf, messages, rxPc, rxSeg, rcvd, closed>>
    BY <1>2 DEF WriteSegment, rxVars
  <2>2. peer'.nSent = peer.nSent /\ peer'.left = peer.left
    BY <1>1, <1>2 DEF WriteSegment
  <2>. QED
    BY <2>1, <2>2, InboundFrame
<1>3. ASSUME WriteAck PROVE InboundInv'
  <2>1. UNCHANGED <<c2, rxActive, rxBuf, messages, rxPc, rxSeg, rcvd, closed>>
    BY <1>3 DEF WriteAck, rxVars
  <2>2. peer'.nSent = peer.nSent /\ peer'.left = peer.left
    BY <1>1, <1>3 DEF WriteAck
  <2>. QED
    BY <2>1, <2>2, InboundFrame
<1>4. ASSUME \/ \E s \in Senders : \/ SendCall(s) \/ Segment(s) \/ WaitFails(s) \/ WaitCanSend(s)
                                   \/ Park(s) \/ WriteFails(s) \/ MarkSent(s) \/ CtxDone(s)
             \/ StandaloneAck \/ RollbackStandaloneAck \/ CloseConn \/ UNCHANGED vars
      PROVE  InboundInv'
  <2>1. /\ UNCHANGED <<c2, rxActive, rxBuf, messages, rxPc, rxSeg, rcvd, peer>>
        /\ closed' # "closed" => closed # "closed"
    BY <1>4 DEF SendCall, Segment, WaitFails, WaitCanSend, Park, WriteFails, MarkSent, CtxDone,
                SendError, StandaloneAck, RollbackStandaloneAck, CloseConn, vars, rxVars
  <2>. QED
    BY <2>1, InboundFrame
<1>. QED
  BY <1>0, <1>2, <1>3, <1>4, InboundProcess, InboundRecord, InboundDeliver, InboundReceive,
     InboundClose, InboundPeer DEF Next, SendStep

(* The stream begins before the first message. *)
LEMMA InboundInit == Init => InboundInv
<1>. SUFFICES ASSUME Init PROVE InboundInv
  OBVIOUS
<1>1. /\ c2 = <<>> /\ ~rxActive /\ rxPc = "idle" /\ messages = <<>> /\ rcvd = <<>>
      /\ peer.nSent = 0 /\ peer.left = 0
  BY DEF Init, PeerInit
<1>2. Len(c2) = 0 /\ Len(messages) = 0 /\ Len(rcvd) = 0
  BY <1>1
<1>3. PICK at \in [0 .. 0 -> Int] : at[0] = 0
  <2>1. [i \in 0 .. 0 |-> 0] \in [0 .. 0 -> Int] /\ [i \in 0 .. 0 |-> 0][0] = 0
    OBVIOUS
  <2>. QED
    BY <2>1
<1>4. at \in Places /\ \A i \in 0 .. 0 : i = 0
  BY <1>2, <1>3 DEF Places
<1>5. Chain(at, 0)
  BY <1>1, <1>2, <1>3, <1>4 DEF Chain, Reached, PeerPlace
<1>6. Completed(0)
  BY <1>1, <1>2 DEF Completed, Holds
<1>. QED
  BY <1>4, <1>5, <1>6 DEF InboundInv

(* The numbers of the messages that came out. *)
Came == [i \in 1 .. Len(rcvd) |-> IF Whole(rcvd[i]) THEN rcvd[i][1] ELSE 0]

(* What came out is a sequence of numbers, one for each message. *)
LEMMA CameFacts ==
    ASSUME TypeOK, InboundInv
    PROVE  /\ Came \in Seq(Nat) /\ Len(Came) = Len(rcvd)
           /\ \A i \in 1 .. Len(rcvd) : Came[i] = rcvd[i][1]
<1>1. PICK m \in Nat, at \in Places : Chain(at, m) /\ Completed(m)
  BY DEF InboundInv
<1>2. \A i \in 1 .. Len(rcvd) : rcvd[i][1] \in Nat /\ Whole(rcvd[i])
  BY <1>1, CompletedTypes DEF Completed, Good
<1>3. Len(rcvd) \in Nat
  BY <1>1, CompletedTypes
<1>4. \A i \in 1 .. Len(rcvd) : Came[i] = rcvd[i][1]
  BY <1>2 DEF Came
<1>5. Came \in [1 .. Len(rcvd) -> Nat]
  BY <1>2 DEF Came
<1>6. Came \in Seq(Nat) /\ Len(Came) = Len(rcvd)
  BY <1>3, <1>5
<1>. QED
  BY <1>4, <1>6

(* A message that Receive hands out is one that the peripheral has sent, and
   younger than all before. *)
LEMMA ReceiveDelivers ==
    ASSUME TypeOK, InboundInv, TypeOK', InboundInv', Receive
    PROVE  Inbound!Deliver
<1>1. PICK m \in Nat, at \in Places : Chain(at, m) /\ Completed(m)
  BY DEF InboundInv
<1>2. /\ messages # <<>> /\ rcvd' = Append(rcvd, Head(messages))
      /\ UNCHANGED peer
  BY DEF Receive
<1>3. messages \in Seq(Seq(Nat)) /\ rcvd \in Seq(Seq(Nat))
  BY DEF TypeOK
<1>4. PICK r \in Nat : r = Len(rcvd)
  BY <1>1, CompletedTypes
<1>5. 1 \in 1 .. Len(messages) /\ Head(messages) = messages[1] /\ Head(messages) \in Seq(Nat)
  <2>1. Len(messages) \in Nat /\ Len(messages) # 0
    BY <1>2, <1>3, EmptySeq, LenProperties
  <2>2. Head(messages) = messages[1]
    BY <1>2, <1>3
  <2>3. Head(messages) \in Seq(Nat)
    BY <1>2, <1>3, HeadTailProperties
  <2>. QED
    BY <2>1, <2>2, <2>3
<1>6. PICK k \in Nat : k = messages[1][1] /\ k >= 1
  BY <1>1, <1>5, GoodNumber, CompletedTypes DEF Completed, Good
<1>7. k <= peer.nSent
  <2>1. m <= peer.nSent
    <3>1. Reached(m) <= 2 * peer.nSent /\ Reached(m) \in {2 * m, 2 * m - 1}
      BY <1>1 DEF Chain, Reached
    <3>2. peer.nSent \in Nat
      BY DEF TypeOK, Peers
    <3>. QED
      BY <1>1, <3>1, <3>2
  <2>2. k <= Bound(m) /\ Bound(m) \in {m, m - 1}
    BY <1>1, <1>5, <1>6 DEF Completed, Bound
  <2>3. peer.nSent \in Nat
    BY DEF TypeOK, Peers
  <2>. QED
    BY <1>1, <1>6, <2>1, <2>2, <2>3
<1>8. /\ Len(rcvd') = r + 1 /\ rcvd'[r + 1] = messages[1]
      /\ \A i \in 1 .. r : rcvd'[i] = rcvd[i]
  BY <1>2, <1>3, <1>4, <1>5, AppendProperties
<1>9. /\ Came \in Seq(Nat) /\ Len(Came) = r
      /\ \A i \in 1 .. r : Came[i] = rcvd[i][1]
  BY <1>4, CameFacts
<1>10. /\ Came' \in Seq(Nat) /\ Len(Came') = r + 1
       /\ \A i \in 1 .. r + 1 : Came'[i] = rcvd'[i][1]
  <2>1. \A i \in 1 .. r : Whole(rcvd[i]) /\ rcvd[i][1] \in Nat
    BY <1>1, <1>4, CompletedTypes DEF Completed, Good
  <2>2. Whole(messages[1]) /\ messages[1][1] \in Nat
    BY <1>1, <1>5, <1>6 DEF Completed, Good
  <2>3. \A i \in 1 .. r + 1 : i \in 1 .. r \/ i = r + 1
    BY <1>4
  <2>4. \A i \in 1 .. r + 1 : Whole(rcvd'[i]) /\ rcvd'[i][1] \in Nat
    BY <1>8, <2>1, <2>2, <2>3
  <2>5. Came' = [i \in 1 .. r + 1 |-> IF Whole(rcvd'[i]) THEN rcvd'[i][1] ELSE 0]
    BY <1>8 DEF Came
  <2>6. \A i \in 1 .. r + 1 : Came'[i] = rcvd'[i][1]
    BY <2>4, <2>5
  <2>7. Came' \in [1 .. r + 1 -> Nat]
    BY <2>4, <2>5
  <2>8. Came' \in Seq(Nat) /\ Len(Came') = r + 1
    BY <1>4, <2>7
  <2>. QED
    BY <2>6, <2>8
<1>11. Came' = Append(Came, k)
  <2>1. Append(Came, k) \in Seq(Nat) /\ Len(Append(Came, k)) = r + 1
    BY <1>6, <1>9, AppendProperties
  <2>2. \A i \in 1 .. r + 1 : Came'[i] = Append(Came, k)[i]
    <3>1. \A i \in 1 .. r + 1 : i \in 1 .. r \/ i = r + 1
      BY <1>4
    <3>2. /\ \A i \in 1 .. r : Append(Came, k)[i] = Came[i]
          /\ Append(Came, k)[r + 1] = k
      BY <1>6, <1>9, AppendProperties
    <3>3. r + 1 \in 1 .. r + 1 /\ \A i \in 1 .. r : i \in 1 .. r + 1
      BY <1>4
    <3>4. Came'[r + 1] = k
      BY <1>6, <1>8, <1>10, <3>3
    <3>5. ASSUME NEW i \in 1 .. r PROVE Came'[i] = Came[i]
      <4>1. Came'[i] = rcvd'[i][1]
        BY <1>10, <3>3
      <4>2. rcvd'[i] = rcvd[i] /\ Came[i] = rcvd[i][1]
        BY <1>8, <1>9
      <4>. QED
        BY <4>1, <4>2, Zenon
    <3>. QED
      BY <3>1, <3>2, <3>4, <3>5
  <2>. QED
    BY <1>10, <2>1, <2>2, SeqEqual
<1>12. k \in (IF Came = <<>> THEN 0 ELSE Came[Len(Came)]) + 1 .. peer.nSent
  <2>1. peer.nSent \in Nat
    BY DEF TypeOK, Peers
  <2>2. CASE Came = <<>>
    BY <1>6, <1>7, <2>1, <2>2
  <2>3. CASE Came # <<>>
    <3>1. r \in 1 .. r
      BY <1>4, <1>9, <2>3, EmptySeq
    <3>2. Came[r] = rcvd[r][1] /\ rcvd[r][1] < k /\ Came[r] \in Nat
      BY <1>1, <1>4, <1>5, <1>6, <1>9, <3>1, CompletedTypes DEF Completed
    <3>. QED
      BY <1>6, <1>7, <1>9, <2>1, <2>3, <3>2
  <2>. QED
    BY <2>2, <2>3
<1>. QED
  BY <1>2, <1>11, <1>12 DEF Inbound!Deliver, Inbound!Last, Came

(* BTP, seen from the reader, is the datagram channel of transport.Conn. *)
LEMMA RefinesStep ==
    ASSUME IndInv, IndInv', InboundInv, InboundInv', [Next]_vars
    PROVE  [Inbound!Submit \/ Inbound!Deliver]_<<peer.nSent, Came>>
<1>0. TypeOK /\ TypeOK' /\ peer \in Peers
  BY DEF IndInv, TypeOK
<1>1. CASE Receive
  BY <1>0, <1>1, ReceiveDelivers
<1>2. ASSUME rcvd' = rcvd PROVE Came' = Came
  BY <1>2 DEF Came
<1>3. ASSUME NEW seg, peer' = PeerTake(seg) PROVE peer'.nSent = peer.nSent
  BY <1>0, <1>3 DEF PeerTake, Peers
<1>4. CASE PeerSend \/ PeerAck
  <2>1. rcvd' = rcvd
    BY <1>4 DEF PeerSend, PeerAck, PeerIndicate
  <2>2. peer'.nSent \in {peer.nSent, peer.nSent + 1}
    <3>1. ASSUME NEW k, NEW n, NEW rest, peer' = PeerSends(k, n, rest) PROVE peer'.nSent = k
      BY <1>0, <3>1 DEF PeerSends, Peers
    <3>2. \/ \E n, rest : peer' = PeerSends(peer.nSent + 1, n, rest)
          \/ \E n, rest : peer' = PeerSends(peer.nSent, n, rest)
      BY <1>4 DEF PeerSend, PeerAck
    <3>. QED
      BY <3>1, <3>2
  <2>3. Came' = Came
    BY <1>2, <2>1
  <2>4. peer'.nSent = peer.nSent + 1 => Inbound!Submit
    BY <2>3 DEF Inbound!Submit, Came
  <2>. QED
    BY <2>2, <2>3, <2>4
<1>5. ASSUME (\E s \in Senders : WriteSegment(s)) \/ WriteAck
      PROVE  UNCHANGED <<peer.nSent, Came>>
  <2>1. rcvd' = rcvd /\ \E seg : peer' = peer \/ peer' = PeerTake(seg)
    BY <1>5 DEF WriteSegment, WriteAck, WriteOut
  <2>. QED
    BY <1>2, <1>3, <2>1
<1>6. ASSUME \/ \E s \in Senders : \/ SendCall(s) \/ Segment(s) \/ WaitFails(s) \/ WaitCanSend(s)
                                   \/ Park(s) \/ WriteFails(s) \/ MarkSent(s) \/ CtxDone(s)
             \/ StandaloneAck \/ RollbackStandaloneAck \/ ProcessAck \/ RecordSegment
             \/ DeliverMessage \/ CloseConn \/ CloseSession \/ UNCHANGED vars
      PROVE  UNCHANGED <<peer.nSent, Came>>
  <2>1. rcvd' = rcvd /\ peer' = peer
    BY <1>6 DEF SendCall, Segment, WaitFails, WaitCanSend, Park, WriteFails, MarkSent, CtxDone,
                SendError, StandaloneAck, RollbackStandaloneAck, ProcessAck, RecordSegment,
                DeliverMessage, CloseConn, CloseSession, vars
  <2>. QED
    BY <1>2, <2>1
<1>. QED
  BY <1>1, <1>4, <1>5, <1>6 DEF Next, SendStep

(* handleSegment and Receive implement the lossy channel that keeps order:
   for every length of messages, window, channel capacity and every timing of
   acknowledgements and Close, a message that comes out is one that was sent,
   whole, once and in order. *)
THEOREM InboundIsFifo == Spec => InboundFifo
<1>1. Init => Inbound!Init
  <2>1. Init => Came = <<>>
    BY DEF Init, Came
  <2>. QED
    BY <2>1 DEF Init, PeerInit, Inbound!Init, Came
<1>2. IndInv /\ IndInv' /\ InboundInv /\ InboundInv' /\ [Next]_vars
        => [Inbound!Submit \/ Inbound!Deliver]_<<peer.nSent, Came>>
  BY RefinesStep
<1>3. Spec => []InboundInv
  BY Inductive, InboundInit, InboundStep, PTL DEF Spec
<1>. QED
  BY <1>1, <1>2, <1>3, Inductive, PTL DEF Spec, InboundFifo, Inbound!Spec, Came

-----------------------------------------------------------------------------
(* What discovery finds *)

(* A sequence, of whatever. *)
IsSeq(s) == \E M : s \in Seq(M)

(* An advertisement or a record of d makes it pass for a device that the
   setup code is for. *)
Fits(d, overBLE) ==
    \E disc \in {0, world[d].disc} : Matches(disc) /\ PassesFor(d, disc, overBLE)

Right(r) ==
    \/ r = NoAddr
    \/ r = Listing /\ IsListing
    \/ \E d \in Devices : r = BLEAddr(d) /\ Fits(d, TRUE)
    \/ \E d \in Devices : r = IPAddr(d) /\ Fits(d, FALSE)

(* What either side has found, and what is listed. *)
FoundInv ==
    /\ hit = <<>> \/ \E d \in Devices : hit = <<d>> /\ Fits(d, TRUE)
    /\ mdnsAddr = NoAddr \/ \E d \in Devices : mdnsAddr = IPAddr(d) /\ Fits(d, FALSE)
    /\ IsListing => hit = <<>> /\ mdnsAddr = NoAddr

ListedInv ==
    /\ \A x \in listed : PassesFor(x[1], x[2], pref = "list-ble")
    /\ \A x, y \in listed : x[1] = y[1] => x = y
    /\ pref = "list-ip" => \A x \in listed : x = <<x[1], world[x[1]].disc>>

Idle == {"off", "ended"}

(* A side that does not take part stays off, and one that has ended changes
   nothing any more. *)
SidesInv ==
    /\ ~TryBLE \/ find = "new" => bt = "off"
    /\ ~TryMDNS \/ find = "new" => mw = "off"
    /\ TryBLE /\ find # "new" => bt # "off"
    /\ TryMDNS /\ find # "new" => mw # "off"
    /\ bt \in {"off", "enable"} => radio = "off" /\ hit = <<>>
    /\ radio \in {"starting", "on"} => bt \in {"scan", "stop"}
    /\ mdnsAddr # NoAddr => mw \in {"found", "ended"}

Busy(state) == IF state \in Idle THEN 0 ELSE 1

(* The sides that have seen a device and have ended. *)
Seen ==
    \/ bt = "ended" /\ hit # <<>> /\ radio # "error"
    \/ mw = "ended" /\ mdnsAddr # NoAddr

(* Every side sends one result, and what it has seen is not passed over. *)
ResultsInv ==
    /\ \A i \in DOMAIN results : \E r : r = results[i] /\ Right(r)
    /\ find = "new" => results = <<>>
    /\ find = "wait" => /\ awaited = Len(results) + Busy(bt) + Busy(mw)
                        /\ Seen => \E i \in DOMAIN results : results[i] # NoAddr

AnswerInv ==
    find = "ret" =>
      /\ \E r : r = answer /\ Right(r)
      /\ answer = NoAddr => /\ bt \in Idle /\ mw \in Idle
                            /\ mdnsAddr = NoAddr /\ (hit = <<>> \/ radio = "error")

FindTypeOK ==
    /\ pref \in {"auto", "ip", "ble", "list-ip", "list-ble"} /\ caps \in SUBSET {"ble", "net"}
    /\ find \in {"new", "wait", "ret"} /\ awaited \in Nat
    /\ IsSeq(results)

FindInv == FindTypeOK /\ FoundInv /\ ListedInv /\ SidesInv /\ ResultsInv /\ AnswerInv

-----------------------------------------------------------------------------
(* What is right does not change: the code and the devices are given. *)
LEMMA RightStays ==
    ASSUME UNCHANGED input
    PROVE  /\ \A d, b : Fits(d, b)' <=> Fits(d, b)
           /\ \A r : Right(r)' <=> Right(r)
           /\ (IsListing' <=> IsListing) /\ (TryBLE' <=> TryBLE) /\ (TryMDNS' <=> TryMDNS)
<1>1. world' = world /\ code' = code /\ pref' = pref /\ caps' = caps
  BY DEF input
<1>2. \A d, b : Fits(d, b)' <=> Fits(d, b)
  BY <1>1 DEF Fits, Matches, PassesFor
<1>3. IsListing' <=> IsListing
  BY <1>1 DEF IsListing
<1>4. (TryBLE' <=> TryBLE) /\ (TryMDNS' <=> TryMDNS)
  BY <1>1 DEF TryBLE, TryMDNS
<1>5. \A r : Right(r)' <=> Right(r)
  BY <1>2, <1>3 DEF Right, BLEAddr, IPAddr, NoAddr, Listing
<1>. QED
  BY <1>2, <1>3, <1>4, <1>5

(* One more result. *)
Adds(s, r, t) ==
    /\ IsSeq(t) /\ Len(s) \in Nat /\ Len(t) = Len(s) + 1
    /\ DOMAIN s = 1 .. Len(s) /\ DOMAIN t = 1 .. Len(s) + 1
    /\ \A i \in 1 .. Len(s) : t[i] = s[i]
    /\ t[Len(s) + 1] = r

LEMMA ResultAdded ==
    ASSUME NEW s, IsSeq(s), NEW r, NEW t, t = Append(s, r)
    PROVE  Adds(s, r, t)
<1>1. PICK M : s \in Seq(M)
  BY DEF IsSeq
<1>2. s \in Seq(M \cup {r}) /\ t \in Seq(M \cup {r})
  BY <1>1
<1>. QED
  BY <1>2 DEF IsSeq, Adds

(* A result less. *)
LEMMA ResultTaken ==
    ASSUME NEW s, IsSeq(s), s # <<>>
    PROVE  /\ IsSeq(Tail(s)) /\ Len(s) \in Nat \ {0} /\ Len(Tail(s)) = Len(s) - 1
           /\ DOMAIN s = 1 .. Len(s) /\ DOMAIN Tail(s) = 1 .. Len(s) - 1
           /\ \A i \in 1 .. Len(s) - 1 : Tail(s)[i] = s[i + 1]
           /\ Head(s) = s[1]
<1>1. PICK M : s \in Seq(M)
  BY DEF IsSeq
<1>2. Tail(s) \in Seq(M)
  BY <1>1
<1>. QED
  BY <1>1, <1>2 DEF IsSeq

(* The steps that change none of what the invariant is about. *)
watched == <<input, mainVars, results, bt, radio, hit, listed, mw, mdnsAddr>>

LEMMA FindFrame == FindInv /\ UNCHANGED watched => FindInv'
<1>. SUFFICES ASSUME FindInv, UNCHANGED watched PROVE FindInv'
  OBVIOUS
<1>1. /\ UNCHANGED input /\ UNCHANGED <<find, awaited, answer, results, bt, radio, hit, listed, mw, mdnsAddr>>
      /\ world' = world /\ pref' = pref /\ caps' = caps
  BY DEF watched, mainVars, input
<1>r. /\ \A d, b : Fits(d, b)' <=> Fits(d, b)
      /\ \A r : Right(r)' <=> Right(r)
      /\ (IsListing' <=> IsListing) /\ (TryBLE' <=> TryBLE) /\ (TryMDNS' <=> TryMDNS)
  BY <1>1, RightStays
<1>2. FindTypeOK' /\ SidesInv'
  BY <1>1, <1>r DEF FindInv, FindTypeOK, SidesInv
<1>3. FoundInv' /\ AnswerInv'
  BY <1>1, <1>r DEF FindInv, FoundInv, AnswerInv
<1>5. ResultsInv'
  BY <1>1, <1>r DEF FindInv, ResultsInv, Seen
<1>4. ListedInv'
  BY <1>1 DEF FindInv, ListedInv, PassesFor
<1>. QED
  BY <1>2, <1>3, <1>4, <1>5 DEF FindInv

(* Discovery starts, and with it the sides that take part. *)
LEMMA FindDiscover == FindInv /\ Discover => FindInv'
<1>. SUFFICES ASSUME FindInv, Discover PROVE FindInv'
  OBVIOUS
<1>1. /\ find = "new" /\ find' = "wait" /\ results = <<>> /\ results' = results
      /\ bt = "off" /\ mw = "off" /\ radio = "off" /\ hit = <<>> /\ mdnsAddr = NoAddr
      /\ bt' = (IF TryBLE THEN "enable" ELSE "off") /\ mw' = (IF TryMDNS THEN "select" ELSE "off")
      /\ awaited' = (IF TryBLE /\ TryMDNS THEN 2 ELSE 1)
      /\ UNCHANGED <<input, answer, radio, hit, listed, mdnsAddr>>
      /\ world' = world /\ pref' = pref /\ caps' = caps
  BY DEF FindInv, SidesInv, ResultsInv, Discover, input
<1>2. /\ \A d, b : Fits(d, b)' <=> Fits(d, b)
      /\ \A r : Right(r)' <=> Right(r)
      /\ (IsListing' <=> IsListing) /\ (TryBLE' <=> TryBLE) /\ (TryMDNS' <=> TryMDNS)
  BY <1>1, RightStays
<1>3. FindTypeOK' /\ FoundInv' /\ AnswerInv'
  BY <1>1, <1>2 DEF FindInv, FindTypeOK, FoundInv, AnswerInv
<1>4. ListedInv'
  BY <1>1 DEF FindInv, ListedInv, PassesFor, input
<1>5. SidesInv'
  BY <1>1, <1>2 DEF SidesInv
<1>6. ResultsInv'
  <2>1. TryBLE \/ TryMDNS
    BY DEF FindInv, FindTypeOK, TryBLE, TryMDNS
  <2>2. awaited' = Busy(bt)' + Busy(mw)'
    BY <1>1, <2>1 DEF Busy, Idle
  <2>3. Len(results') = 0 /\ DOMAIN results' = {} /\ Busy(bt)' \in Nat /\ Busy(mw)' \in Nat
    BY <1>1 DEF Busy
  <2>4. ~Seen'
    BY <1>1 DEF Seen
  <2>. QED
    BY <1>1, <2>2, <2>3, <2>4 DEF ResultsInv
<1>. QED
  BY <1>3, <1>4, <1>5, <1>6 DEF FindInv

(* Discovery takes a result: a device, the last one, or one that is passed over. *)
LEMMA FindCollect == FindInv /\ Collect => FindInv'
<1>. SUFFICES ASSUME FindInv, Collect PROVE FindInv'
  OBVIOUS
<1>1. /\ find = "wait" /\ results # <<>> /\ results' = Tail(results)
      /\ UNCHANGED <<input, bt, radio, hit, listed, mw, mdnsAddr>>
      /\ world' = world /\ pref' = pref /\ caps' = caps
  BY DEF Collect, input
<1>2. /\ \A d, b : Fits(d, b)' <=> Fits(d, b)
      /\ \A r : Right(r)' <=> Right(r)
      /\ (IsListing' <=> IsListing) /\ (TryBLE' <=> TryBLE) /\ (TryMDNS' <=> TryMDNS)
  BY <1>1, RightStays
<1>3. PICK n \in Nat \ {0} :
        /\ IsSeq(results') /\ Len(results) = n /\ Len(results') = n - 1
        /\ DOMAIN results = 1 .. n /\ DOMAIN results' = 1 .. n - 1
        /\ \A i \in 1 .. n - 1 : results'[i] = results[i + 1]
        /\ Head(results) = results[1]
  BY <1>1, ResultTaken DEF FindInv, FindTypeOK
<1>4. /\ \A i \in 1 .. n : Right(results[i])
      /\ awaited = n + Busy(bt) + Busy(mw)
      /\ Seen => \E i \in 1 .. n : results[i] # NoAddr
      /\ Busy(bt) \in {0, 1} /\ Busy(mw) \in {0, 1}
  BY <1>1, <1>3 DEF FindInv, ResultsInv, Busy
<1>5. \A i \in DOMAIN results' : \E r : r = results'[i] /\ Right(r)'
  <2>1. \A i \in 1 .. n - 1 : i + 1 \in 1 .. n
    OBVIOUS
  <2>. QED
    BY <1>2, <1>3, <1>4, <2>1
<1>6. FoundInv' /\ ListedInv'
  BY <1>1, <1>2 DEF FindInv, FoundInv, ListedInv, PassesFor
<1>7. Busy(bt)' = Busy(bt) /\ Busy(mw)' = Busy(mw) /\ Seen' = Seen
  BY <1>1 DEF Busy, Seen
<1>8. CASE Head(results) = NoAddr /\ awaited > 1
  <2>1. awaited' = awaited - 1 /\ find' = find /\ answer' = answer
    BY <1>8 DEF Collect
  <2>2. FindTypeOK' /\ SidesInv' /\ AnswerInv'
    BY <1>1, <1>2, <1>3, <1>8, <2>1 DEF FindInv, FindTypeOK, SidesInv, AnswerInv
  <2>3. awaited' = (n - 1) + Busy(bt) + Busy(mw)
    BY <1>4, <2>1
  <2>4. Seen => \E i \in 1 .. n - 1 : results'[i] # NoAddr
    <3>. SUFFICES ASSUME Seen PROVE \E i \in 1 .. n - 1 : results'[i] # NoAddr
      OBVIOUS
    <3>1. PICK i \in 1 .. n : results[i] # NoAddr
      BY <1>4
    <3>2. i # 1
      BY <1>3, <1>8, <3>1
    <3>3. i - 1 \in 1 .. n - 1 /\ (i - 1) + 1 = i
      BY <3>2
    <3>. QED
      BY <1>3, <3>1, <3>3
  <2>5. ResultsInv'
    BY <1>1, <1>3, <1>5, <1>7, <2>1, <2>3, <2>4 DEF ResultsInv
  <2>. QED
    BY <1>6, <2>2, <2>5 DEF FindInv
<1>9. CASE ~(Head(results) = NoAddr /\ awaited > 1)
  <2>1. find' = "ret" /\ awaited' = 0 /\ answer' = Head(results)
    BY <1>9 DEF Collect
  <2>2. FindTypeOK' /\ SidesInv'
    BY <1>1, <1>2, <1>3, <2>1 DEF FindInv, FindTypeOK, SidesInv
  <2>3. ResultsInv'
    BY <1>5, <2>1 DEF ResultsInv
  <2>4. \E r : r = answer' /\ Right(r)'
    BY <1>2, <1>3, <1>4, <2>1
  <2>5. ASSUME answer' = NoAddr
        PROVE  bt \in Idle /\ mw \in Idle /\ mdnsAddr = NoAddr /\ (hit = <<>> \/ radio = "error")
    <3>1. n = 1 /\ Busy(bt) = 0 /\ Busy(mw) = 0
      BY <1>4, <1>9, <2>1, <2>5
    <3>2. bt \in Idle /\ mw \in Idle
      BY <3>1 DEF Busy
    <3>3. ~Seen
      BY <1>3, <1>4, <2>1, <2>5, <3>1
    <3>. QED
      BY <3>2, <3>3 DEF Seen, Idle, FindInv, SidesInv
  <2>6. AnswerInv'
    BY <1>1, <2>4, <2>5 DEF AnswerInv
  <2>. QED
    BY <1>6, <2>2, <2>3, <2>6 DEF FindInv
<1>. QED
  BY <1>8, <1>9

(* A side ends with the result r: what it has seen is its result. *)
LEMMA SideEnds ==
    ASSUME FindInv, UNCHANGED <<input, mainVars, hit, listed, mdnsAddr>>, find # "new",
           NEW r, Right(r), Result(r),
           \/ bt \notin Idle /\ bt' = "ended" /\ UNCHANGED mw
           \/ mw \notin Idle /\ mw' = "ended" /\ UNCHANGED bt,
           radio' \notin {"starting", "on"} \/ bt' \in {"scan", "stop"},
           bt' = "off" => radio' = "off" /\ hit = <<>>,
           bt' = "enable" => radio' = "off" /\ hit = <<>>,
           Seen' => Seen \/ r # NoAddr
    PROVE  FindInv'
<1>1. /\ world' = world /\ pref' = pref /\ caps' = caps /\ UNCHANGED <<find, awaited, answer>>
      /\ results' = Append(results, r)
  BY DEF input, mainVars, Result
<1>2. /\ \A d, b : Fits(d, b)' <=> Fits(d, b)
      /\ \A x : Right(x)' <=> Right(x)
      /\ (IsListing' <=> IsListing) /\ (TryBLE' <=> TryBLE) /\ (TryMDNS' <=> TryMDNS)
  BY RightStays
<1>s. IsSeq(results)
  BY DEF FindInv, FindTypeOK
<1>l. Adds(results, r, results')
  BY <1>1, <1>s, ResultAdded, Zenon
<1>3. PICK n \in Nat :
        /\ IsSeq(results') /\ Len(results) = n /\ Len(results') = n + 1
        /\ DOMAIN results = 1 .. n /\ DOMAIN results' = 1 .. n + 1
        /\ \A i \in 1 .. n : results'[i] = results[i]
        /\ results'[n + 1] = r
  BY <1>l, Zenon DEF Adds
<1>4. FindTypeOK' /\ FoundInv' /\ ListedInv'
  BY <1>1, <1>2, <1>3 DEF FindInv, FindTypeOK, FoundInv, ListedInv, PassesFor
<1>5. SidesInv'
  BY <1>1, <1>2 DEF FindInv, SidesInv, Idle
<1>6. ResultsInv'
  <2>1. \A i \in DOMAIN results' : \E x : x = results'[i] /\ Right(x)'
    BY <1>2, <1>3 DEF FindInv, ResultsInv
  <2>2. Busy(bt)' + Busy(mw)' = Busy(bt) + Busy(mw) - 1 /\ Busy(bt) + Busy(mw) \in Nat
    BY DEF Busy, Idle
  <2>3. ASSUME find = "wait" PROVE awaited' = Len(results') + Busy(bt)' + Busy(mw)'
    <3>1. awaited = n + Busy(bt) + Busy(mw)
      BY <1>3, <2>3 DEF FindInv, ResultsInv
    <3>2. Busy(bt) \in {0, 1} /\ Busy(mw) \in {0, 1} /\ Busy(bt)' \in {0, 1} /\ Busy(mw)' \in {0, 1}
      BY DEF Busy
    <3>. QED
      BY <1>1, <1>3, <2>2, <3>1, <3>2
  <2>4. ASSUME find = "wait", Seen' PROVE \E i \in DOMAIN results' : results'[i] # NoAddr
    <3>1. CASE Seen
      <4>1. PICK i \in 1 .. n : results[i] # NoAddr
        BY <1>3, <2>4, <3>1 DEF FindInv, ResultsInv
      <4>. QED
        BY <1>3, <4>1
    <3>2. CASE r # NoAddr
      BY <1>3, <3>2
    <3>. QED
      BY <2>4, <3>1, <3>2
  <2>. QED
    BY <1>1, <2>1, <2>3, <2>4 DEF ResultsInv
<1>7. AnswerInv'
  BY <1>1, <1>2 DEF FindInv, AnswerInv, Idle
<1>. QED
  BY <1>4, <1>5, <1>6, <1>7 DEF FindInv

(* The scan goes on. *)
LEMMA ScanMoves ==
    ASSUME FindInv, UNCHANGED <<input, mainVars, results, hit, listed, mw, mdnsAddr>>,
           bt \in {"enable", "scan", "stop"}, bt' \in {"scan", "stop"}
    PROVE  FindInv'
<1>1. /\ world' = world /\ pref' = pref /\ caps' = caps /\ UNCHANGED <<find, awaited, answer>>
      /\ UNCHANGED input
  BY DEF input, mainVars
<1>2. /\ \A d, b : Fits(d, b)' <=> Fits(d, b)
      /\ \A x : Right(x)' <=> Right(x)
      /\ (IsListing' <=> IsListing) /\ (TryBLE' <=> TryBLE) /\ (TryMDNS' <=> TryMDNS)
  BY RightStays
<1>3. FindTypeOK' /\ FoundInv' /\ ListedInv' /\ SidesInv' /\ AnswerInv'
  BY <1>1, <1>2 DEF FindInv, FindTypeOK, FoundInv, ListedInv, PassesFor, SidesInv, AnswerInv, Idle
<1>4. Busy(bt)' = Busy(bt) /\ Busy(mw)' = Busy(mw) /\ (Seen' => Seen)
  BY DEF Busy, Idle, Seen
<1>5. ResultsInv'
  BY <1>1, <1>2, <1>4 DEF FindInv, ResultsInv
<1>. QED
  BY <1>3, <1>5 DEF FindInv

(* What a device is seen as fits it. *)
LEMMA SeenAs ==
    ASSUME NEW d, NEW kind \in world[d].adv \ {"other"}, kind \in {"full", "bare"}
    PROVE  /\ PassesFor(d, ParsedDiscriminator(d, kind), TRUE)
           /\ Matches(ParsedDiscriminator(d, kind)) => Fits(d, TRUE)
<1>1. /\ PassesFor(d, ParsedDiscriminator(d, kind), TRUE)
      /\ ParsedDiscriminator(d, kind) \in {0, world[d].disc}
  BY DEF PassesFor, ParsedDiscriminator
<1>. QED
  BY <1>1 DEF Fits

(* An advertisement is matched or listed. *)
LEMMA FindAdvertise ==
    ASSUME FindInv, NEW d \in Devices, NEW kind \in {"full", "bare"}, Advertise(d, kind)
    PROVE  FindInv'
<1>1. /\ world' = world /\ pref' = pref /\ caps' = caps
      /\ UNCHANGED <<input, find, awaited, answer, results, bt, radio, mw, mdnsAddr>>
      /\ radio = "on" /\ kind \in world[d].adv \ {"other"}
      /\ bt \in {"scan", "stop"} /\ TryBLE
  BY DEF Advertise, input, mainVars, mdnsVars, FindInv, SidesInv
<1>2. /\ \A x, b : Fits(x, b)' <=> Fits(x, b)
      /\ \A x : Right(x)' <=> Right(x)
      /\ (IsListing' <=> IsListing) /\ (TryBLE' <=> TryBLE) /\ (TryMDNS' <=> TryMDNS)
  BY <1>1, RightStays
<1>3. /\ PassesFor(d, ParsedDiscriminator(d, kind), TRUE)
      /\ Matches(ParsedDiscriminator(d, kind)) => Fits(d, TRUE)
  BY <1>1, SeenAs
<1>4. FindTypeOK' /\ SidesInv' /\ AnswerInv'
  BY <1>1, <1>2 DEF FindInv, FindTypeOK, SidesInv, AnswerInv, Idle
<1>5. Busy(bt)' = Busy(bt) /\ Busy(mw)' = Busy(mw) /\ (Seen' => Seen)
  BY <1>1 DEF Busy, Seen
<1>6. ResultsInv'
  BY <1>1, <1>2, <1>5 DEF FindInv, ResultsInv
<1>7. CASE IsListing
  <2>1. ListDevice(d, kind) /\ pref = "list-ble"
    BY <1>1, <1>7 DEF Advertise, IsListing, TryBLE
  <2>2. FoundInv'
    BY <1>1, <1>2, <2>1 DEF FindInv, FoundInv, ListDevice
  <2>3. PICK e : e = <<d, ParsedDiscriminator(d, kind)>>
    OBVIOUS
  <2>4. e[1] = d /\ PassesFor(e[1], e[2], TRUE)
    BY <1>3, <2>3
  <2>5. listed' = listed \cup {e} /\ \A x \in listed : x[1] # e[1]
    BY <2>1, <2>3, <2>4 DEF ListDevice
  <2>6. ListedInv'
    BY <1>1, <2>1, <2>4, <2>5 DEF FindInv, ListedInv, PassesFor
  <2>. QED
    BY <1>4, <1>6, <2>2, <2>6 DEF FindInv
<1>8. CASE ~IsListing
  <2>1. MatchDevice(d, kind)
    BY <1>8 DEF Advertise
  <2>2. FoundInv' /\ ListedInv'
    BY <1>1, <1>2, <1>3, <1>8, <2>1 DEF FindInv, FoundInv, ListedInv, PassesFor, MatchDevice
  <2>. QED
    BY <1>4, <1>6, <2>2 DEF FindInv
<1>. QED
  BY <1>7, <1>8

(* The scan returns what it has found. *)
LEMMA FindScanReturns == FindInv /\ ScanReturns => FindInv'
<1>. SUFFICES ASSUME FindInv, ScanReturns PROVE FindInv'
  OBVIOUS
<1>1. /\ bt \in {"scan", "stop"} /\ bt \notin Idle /\ bt' = "ended" /\ find # "new"
      /\ radio \in {"ended", "error"}
      /\ UNCHANGED <<input, mainVars, hit, listed, mdnsAddr, mw, radio>>
  BY DEF ScanReturns, Idle, FindInv, SidesInv, mdnsVars
<1>2. CASE bt = "scan" /\ radio = "error" /\ Result(NoAddr)
  <2>1. Right(NoAddr) /\ (Seen' => Seen)
    BY <1>1, <1>2 DEF Right, Seen
  <2>. QED
    BY <1>1, <1>2, <2>1, SideEnds
<1>3. CASE Result(ScanResult)
  <2>1. PICK r : r = ScanResult
    OBVIOUS
  <2>2. Right(r) /\ (hit # <<>> => r # NoAddr)
    <3>1. CASE IsListing
      BY <2>1, <3>1 DEF Right, ScanResult, Listing, NoAddr
    <3>2. CASE ~IsListing /\ hit = <<>>
      BY <2>1, <3>2 DEF Right, ScanResult
    <3>3. CASE ~IsListing /\ hit # <<>>
      <4>1. PICK d \in Devices : hit = <<d>> /\ Fits(d, TRUE)
        BY <3>3 DEF FindInv, FoundInv
      <4>2. r = BLEAddr(d)
        BY <2>1, <3>3, <4>1 DEF ScanResult
      <4>. QED
        BY <4>1, <4>2 DEF Right, BLEAddr, NoAddr
    <3>. QED
      BY <3>1, <3>2, <3>3
  <2>3. Seen' => Seen \/ r # NoAddr
    BY <1>1, <2>2 DEF Seen
  <2>4. Result(r)
    BY <1>3, <2>1
  <2>. QED
    BY <1>1, <2>2, <2>3, <2>4, SideEnds
<1>. QED
  BY <1>2, <1>3 DEF ScanReturns

(* The scan is enabled, begins, breaks down and is stopped. *)
LEMMA FindScan == FindInv /\ (Enable \/ RadioStarts \/ RadioFails \/ StopScan) => FindInv'
<1>. SUFFICES ASSUME FindInv, Enable \/ RadioStarts \/ RadioFails \/ StopScan PROVE FindInv'
  OBVIOUS
<1>1. CASE Enable
  <2>1. /\ bt = "enable" /\ hit = <<>> /\ mdnsAddr' = mdnsAddr /\ radio = "off" /\ find # "new"
        /\ UNCHANGED <<input, mainVars, hit, listed, mw, mdnsAddr>>
    BY <1>1 DEF Enable, mdnsVars, FindInv, SidesInv
  <2>2. CASE bt' = "scan" /\ UNCHANGED results
    BY <2>1, <2>2, ScanMoves
  <2>3. CASE bt' = "ended" /\ Result(NoAddr) /\ UNCHANGED radio
    <3>1. Right(NoAddr) /\ bt \notin Idle /\ (Seen' => Seen)
      BY <2>1, <2>3 DEF Right, Idle, Seen
    <3>. QED
      BY <2>1, <2>3, <3>1, SideEnds
  <2>. QED
    BY <1>1, <2>2, <2>3 DEF Enable
<1>2. CASE RadioStarts \/ RadioFails
  <2>1. bt \in {"scan", "stop"} /\ bt' = bt
    BY <1>2 DEF RadioStarts, RadioFails, FindInv, SidesInv
  <2>2. UNCHANGED <<input, mainVars, results, hit, listed, mw, mdnsAddr>>
    BY <1>2 DEF RadioStarts, RadioFails, mdnsVars
  <2>. QED
    BY <2>1, <2>2, ScanMoves
<1>3. CASE StopScan
  <2>1. bt = "scan" /\ bt' = "stop"
    BY <1>3 DEF StopScan
  <2>2. UNCHANGED <<input, mainVars, results, hit, listed, mw, mdnsAddr>>
    BY <1>3 DEF StopScan, mdnsVars
  <2>. QED
    BY <2>1, <2>2, ScanMoves
<1>. QED
  BY <1>1, <1>2, <1>3

(* The steps of the browse, of the resolvers and of the timers. *)
LEMMA FindOther ==
    ASSUME FindInv,
           \/ ScanTimesOut \/ WatchTimesOut \/ Browse \/ BrowseEOF
           \/ \E d \in Devices : BrowseLine(d) \/ Resolve(d)
    PROVE  FindInv'
<1>1. UNCHANGED watched
  <2>1. BrowseUnchanged => UNCHANGED watched
    BY DEF BrowseUnchanged, watched, bleVars
  <2>2. CASE ScanTimesOut
    BY <2>2 DEF ScanTimesOut, watched, mdnsVars
  <2>3. CASE WatchTimesOut
    BY <2>3 DEF WatchTimesOut, WatchUnchanged, watched, bleVars
  <2>4. CASE Browse \/ BrowseEOF
    BY <2>1, <2>4 DEF Browse, BrowseStarts, BrowseReturns, BrowseEOF
  <2>5. CASE \E d \in Devices : BrowseLine(d) \/ Resolve(d)
    BY <2>1, <2>5 DEF BrowseLine, Resolve, TakeToken, Lookup, ResolveHostname, GiveUpEntry
  <2>. QED
    BY <2>2, <2>3, <2>4, <2>5
<1>. QED
  BY <1>1, FindFrame

(* An entry comes in, to be looked at or passed over. *)
LEMMA FindEntry ==
    ASSUME FindInv, NEW d \in Devices, WatchEntry(d) \/ Drain(d)
    PROVE  FindInv'
<1>1. /\ world' = world /\ pref' = pref /\ caps' = caps
      /\ UNCHANGED <<input, find, awaited, answer, results, bt, radio, hit>>
      /\ mw \in {"select", "found", "over", "failed"} /\ TryMDNS /\ Keep(d)
  BY DEF WatchEntry, Drain, WatchUnchanged, input, mainVars, bleVars, FindInv, SidesInv
<1>2. /\ \A x, b : Fits(x, b)' <=> Fits(x, b)
      /\ \A x : Right(x)' <=> Right(x)
      /\ (IsListing' <=> IsListing) /\ (TryBLE' <=> TryBLE) /\ (TryMDNS' <=> TryMDNS)
  BY <1>1, RightStays
<1>3. \/ mw' = mw /\ mdnsAddr' = mdnsAddr
      \/ mw = "select" /\ mw' = "found" /\ mdnsAddr' = IPAddr(d) /\ Wanted(d)
  BY DEF WatchEntry, Drain
<1>4. FindTypeOK' /\ SidesInv'
  BY <1>1, <1>2, <1>3 DEF FindInv, FindTypeOK, SidesInv
<1>5. AnswerInv'
  BY <1>1, <1>2, <1>3 DEF FindInv, AnswerInv, Idle
<1>6. Busy(bt)' = Busy(bt) /\ Busy(mw)' = Busy(mw) /\ (Seen' => Seen)
  BY <1>1, <1>3 DEF Busy, Idle, Seen
<1>7. ResultsInv'
  BY <1>1, <1>2, <1>6 DEF FindInv, ResultsInv
<1>8. FoundInv'
  <2>1. Wanted(d) => Fits(d, FALSE) /\ ~IsListing
    BY DEF Wanted, Fits, PassesFor
  <2>. QED
    BY <1>1, <1>2, <1>3, <2>1 DEF FindInv, FoundInv
<1>9. ListedInv'
  <2>1. CASE ~IsListing
    BY <1>1, <2>1 DEF Keep, FindInv, ListedInv, PassesFor
  <2>2. CASE IsListing
    <3>1. PICK e : e = <<d, world[d].disc>>
      OBVIOUS
    <3>2. e[1] = d /\ e[2] = world[d].disc /\ e = <<e[1], world[e[1]].disc>>
      BY <3>1
    <3>3. listed' = listed \cup {e} /\ pref = "list-ip"
      BY <1>1, <2>2, <3>1 DEF Keep, IsListing, TryMDNS
    <3>4. \A x \in listed' : x = <<x[1], world[x[1]].disc>>
      BY <3>2, <3>3 DEF FindInv, ListedInv
    <3>5. \A x, y \in listed' : x[1] = y[1] => x = y
      BY <3>4
    <3>6. \A x \in listed' : PassesFor(x[1], x[2], pref = "list-ble")
      BY <3>2, <3>3 DEF FindInv, ListedInv, PassesFor
    <3>. QED
      BY <1>1, <3>4, <3>5, <3>6 DEF ListedInv, PassesFor
  <2>. QED
    BY <2>1, <2>2
<1>. QED
  BY <1>4, <1>5, <1>7, <1>8, <1>9 DEF FindInv

(* The browse has ended before the watch has seen a device. *)
LEMMA FindWatchDone == FindInv /\ WatchDone => FindInv'
<1>. SUFFICES ASSUME FindInv, WatchDone PROVE FindInv'
  OBVIOUS
<1>1. /\ world' = world /\ pref' = pref /\ caps' = caps
      /\ UNCHANGED <<input, find, awaited, answer, results, bt, radio, hit, listed, mdnsAddr>>
      /\ mw = "select" /\ mw' \in {"failed", "over"}
  BY DEF WatchDone, WatchUnchanged, input, mainVars, bleVars
<1>2. /\ \A x, b : Fits(x, b)' <=> Fits(x, b)
      /\ \A x : Right(x)' <=> Right(x)
      /\ (IsListing' <=> IsListing) /\ (TryBLE' <=> TryBLE) /\ (TryMDNS' <=> TryMDNS)
  BY <1>1, RightStays
<1>3. FindTypeOK' /\ FoundInv' /\ ListedInv'
  BY <1>1, <1>2 DEF FindInv, FindTypeOK, FoundInv, ListedInv, PassesFor
<1>4. SidesInv' /\ AnswerInv'
  BY <1>1, <1>2 DEF FindInv, SidesInv, AnswerInv, Idle
<1>5. Busy(bt)' = Busy(bt) /\ Busy(mw)' = Busy(mw) /\ (Seen' => Seen)
  BY <1>1 DEF Busy, Idle, Seen
<1>6. ResultsInv'
  BY <1>1, <1>2, <1>5 DEF FindInv, ResultsInv
<1>. QED
  BY <1>3, <1>4, <1>6 DEF FindInv

(* The watch returns what it has found. *)
LEMMA FindWatchClosed == FindInv /\ WatchClosed => FindInv'
<1>. SUFFICES ASSUME FindInv, WatchClosed PROVE FindInv'
  OBVIOUS
<1>1. /\ mw \in {"select", "found", "over", "failed"} /\ mw \notin Idle /\ mw' = "ended"
      /\ find # "new"
      /\ UNCHANGED <<input, mainVars, hit, listed, mdnsAddr, bt, radio>>
  BY DEF WatchClosed, WatchUnchanged, Idle, FindInv, SidesInv, bleVars
<1>2. PICK r : r = IF mw = "failed" \/ (mw = "select" /\ done = <<"err">>) THEN NoAddr
                   ELSE IF IsListing THEN Listing ELSE mdnsAddr
  OBVIOUS
<1>3. Result(r)
  BY <1>2 DEF WatchClosed
<1>4. Right(r)
  <2>1. r = NoAddr \/ (r = Listing /\ IsListing) \/ r = mdnsAddr
    BY <1>2
  <2>2. r = mdnsAddr => Right(r)
    BY DEF FindInv, FoundInv, Right
  <2>. QED
    BY <2>1, <2>2 DEF Right
<1>5. mdnsAddr # NoAddr => r # NoAddr
  BY <1>1, <1>2 DEF FindInv, SidesInv, Listing, NoAddr
<1>6. Seen' => Seen \/ r # NoAddr
  BY <1>1, <1>5 DEF Seen
<1>7. /\ radio' \notin {"starting", "on"} \/ bt' \in {"scan", "stop"}
      /\ bt' = "off" => radio' = "off" /\ hit = <<>>
      /\ bt' = "enable" => radio' = "off" /\ hit = <<>>
  BY <1>1 DEF FindInv, SidesInv
<1>. QED
  BY <1>1, <1>3, <1>4, <1>6, <1>7, SideEnds

(* The invariant of discovery is inductive ... *)
LEMMA FindInvNext == FindInv /\ FindNext => FindInv'
<1>. SUFFICES ASSUME FindInv, FindNext PROVE FindInv'
  OBVIOUS
<1>1. CASE Discover \/ Collect
  BY <1>1, FindDiscover, FindCollect
<1>2. CASE Scan \/ RadioFails
  BY <1>2, FindScan, FindScanReturns DEF Scan
<1>3. CASE \E d \in Devices, kind \in {"full", "bare"} : Advertise(d, kind)
  BY <1>3, FindAdvertise
<1>4. CASE Watch
  BY <1>4, FindWatchDone, FindWatchClosed, FindEntry DEF Watch
<1>5. CASE \/ ScanTimesOut \/ WatchTimesOut \/ Browse \/ BrowseEOF
           \/ \E d \in Devices : BrowseLine(d) \/ Resolve(d)
  BY <1>5, FindOther
<1>. QED
  BY <1>1, <1>2, <1>3, <1>4, <1>5 DEF FindNext

(* ... holds in the beginning ... *)
LEMMA FindInvInit == FindInit => FindInv
<1>. SUFFICES ASSUME FindInit PROVE FindInv
  OBVIOUS
<1>1. FindTypeOK
  <2>1. results \in Seq({})
    BY DEF FindInit
  <2>2. pref \in {"auto", "ip", "ble", "list-ip", "list-ble"} /\ caps \in SUBSET {"ble", "net"}
    BY DiscoveryAssumption DEF FindInit
  <2>. QED
    BY <2>1, <2>2 DEF FindInit, FindTypeOK, IsSeq
<1>2. FoundInv /\ ListedInv
  BY DEF FindInit, FoundInv, ListedInv
<1>3. SidesInv
  BY DEF FindInit, SidesInv
<1>4. ResultsInv /\ AnswerInv
  BY DEF FindInit, ResultsInv, AnswerInv
<1>. QED
  BY <1>1, <1>2, <1>3, <1>4 DEF FindInv

(* ... and makes what is returned right. *)
LEMMA FindInvFound == FindInv => FoundIsRight
<1>. SUFFICES ASSUME FindInv, find = "ret" PROVE FoundIsRight
  BY DEF FoundIsRight
<1>1. Right(answer)
  BY DEF FindInv, AnswerInv
<1>2. CASE answer = NoAddr
  <2>1. mdnsAddr = NoAddr /\ (hit = <<>> \/ radio = "error") /\ NoAddr # Listing
    BY <1>2 DEF FindInv, AnswerInv, NoAddr, Listing
  <2>. QED
    BY <1>2, <2>1 DEF FoundIsRight
<1>3. CASE answer = Listing
  <2>1. Listing # NoAddr
    BY DEF Listing, NoAddr
  <2>2. \A x \in listed : /\ PassesFor(x[1], x[2], pref = "list-ble")
                          /\ \A y \in listed : x[1] = y[1] => x = y
    BY DEF FindInv, ListedInv
  <2>. QED
    BY <1>3, <2>1, <2>2 DEF FoundIsRight
<1>4. CASE answer # NoAddr /\ answer # Listing
  <2>1. \E disc \in {0, world[answer[2]].disc} :
           Matches(disc) /\ PassesFor(answer[2], disc, answer[1] = "ble")
    <3>1. CASE \E d \in Devices : answer = BLEAddr(d) /\ Fits(d, TRUE)
      <4>1. PICK d \in Devices : answer = BLEAddr(d) /\ Fits(d, TRUE)
        BY <3>1
      <4>2. answer[1] = "ble" /\ answer[2] = d
        BY <4>1 DEF BLEAddr
      <4>. QED
        BY <4>1, <4>2 DEF Fits, PassesFor
    <3>2. CASE \E d \in Devices : answer = IPAddr(d) /\ Fits(d, FALSE)
      <4>1. PICK d \in Devices : answer = IPAddr(d) /\ Fits(d, FALSE)
        BY <3>2
      <4>2. answer[1] # "ble" /\ answer[2] = d
        BY <4>1 DEF IPAddr
      <4>. QED
        BY <4>1, <4>2 DEF Fits, PassesFor
    <3>. QED
      BY <1>1, <1>4, <3>1, <3>2 DEF Right
  <2>. QED
    BY <1>4, <2>1 DEF FoundIsRight
<1>. QED
  BY <1>2, <1>3, <1>4

(* What DiscoverCommissionable returns is a device that the setup code is for,
   and no error once either side has seen one: for any devices, whatever they
   advertise, any code, any interleaving of the scan, the browse and the
   resolvers, and whatever ends, times out or breaks down at that moment. A
   listing has every device once. *)
THEOREM DiscoveryIsRight == BLESpec => []FoundIsRight
<1>1. BLEInit => FindInv
  BY FindInvInit DEF BLEInit
<1>2. FindInv /\ [BLENext]_bleDialVars => FindInv'
  <2>. SUFFICES ASSUME FindInv, [BLENext]_bleDialVars PROVE FindInv'
    OBVIOUS
  <2>1. UNCHANGED findVars => UNCHANGED watched
    BY DEF findVars, watched, bleVars, mdnsVars
  <2>2. CASE FindNext
    BY <2>2, FindInvNext
  <2>3. CASE UNCHANGED findVars
    BY <2>1, <2>3, FindFrame
  <2>. QED
    BY <2>2, <2>3 DEF BLENext, bleDialVars
<1>. QED
  BY <1>1, <1>2, FindInvFound, PTL DEF BLESpec

-----------------------------------------------------------------------------
(* What the device sends *)

(* The dial has not come to an end. *)
Early == dial \notin {"up", "closed", "failed"}

FeedTypes ==
    /\ device \in [ep : BOOLEAN, sub : BOOLEAN, sent : Nat]
    /\ air \in Seq(Nat) /\ fed \in Seq(Nat)
    /\ cached \in Seq(Nat) 

(* Nothing is sent before the dial is done. *)
EarlyInv ==
    /\ Early => fed = <<>> /\ device.sent = 0 /\ \A j \in 1 .. Len(air) : air[j] = CapsResponse
    /\ dial = "off" => system = "unknown"

(* The segments that BTP has, then the one in the cached value, then those in
   the air, then those still to come. *)
OrderInv ==
    /\ ~Mac => cached = <<>>
    /\ \A i, j \in 1 .. Len(fed) : i < j => fed[i] < fed[j]
    /\ \A i \in 1 .. Len(fed) : fed[i] <= device.sent
    /\ \A j \in 1 .. Len(air) : /\ air[j] <= device.sent
                                /\ air[j] # 0 => \A i \in 1 .. Len(fed) : fed[i] < air[j]
    /\ \A j, k \in 1 .. Len(air) : j < k /\ air[j] # 0 /\ air[k] # 0 => air[j] < air[k]
    /\ cached # <<>> =>
         /\ cached[1] <= device.sent
         /\ cached[1] # 0 => \A i \in 1 .. Len(fed) : fed[i] < cached[1]
         /\ \A j \in 1 .. Len(air) : air[j] # 0 => cached[1] < air[j]

(* Elsewhere: the first z indications in the air are capabilities responses,
   and the rest are the segments that come next, all of them. *)
NoneLost(z) ==
    /\ \A j \in 1 .. z : air[j] = CapsResponse
    /\ \A j \in z + 1 .. Len(air) : air[j] = Len(fed) + (j - z)
    /\ link => device.sent = Len(fed) + (Len(air) - z)

GapInv ==
    ~Mac => /\ \A i \in 1 .. Len(fed) : fed[i] = i
            /\ dial = "up" => \E z \in 0 .. Len(air) : NoneLost(z)

FeedInv == FeedTypes /\ EarlyInv /\ OrderInv /\ GapInv

-----------------------------------------------------------------------------
(* A step of the dial before it is done: a capabilities response may be sent. *)
LEMMA EarlyStep ==
    ASSUME FeedInv, Early, dial # "off" \/ dial' = "connect", dial' \notin {"off", "closed"},
           system' = system \/ (dial = "off" /\ dial' = "connect"),
           device' \in [ep : BOOLEAN, sub : BOOLEAN, sent : Nat], device'.sent = device.sent,
           fed' = fed, air' = air \/ air' = Append(air, CapsResponse),
           cached' = cached \/ cached' = <<>>
    PROVE  FeedInv'
<1>1. /\ fed = <<>> /\ device.sent = 0 /\ \A j \in 1 .. Len(air) : air[j] = 0
      /\ air \in Seq(Nat) /\ fed \in Seq(Nat) /\ cached \in Seq(Nat)
  BY DEF FeedInv, FeedTypes, EarlyInv, CapsResponse
<1>2. FeedTypes'
  <2>1. Append(air, CapsResponse) \in Seq(Nat) /\ <<>> \in Seq(Nat)
    BY <1>1 DEF CapsResponse
  <2>. QED
    BY <1>1, <2>1 DEF FeedTypes
<1>3. /\ \A j \in 1 .. Len(air') : air'[j] = 0
      /\ Len(air') \in Nat /\ Len(fed') = 0
  <2>1. Len(fed') = 0
    BY <1>1
  <2>2. CASE air' = air
    BY <1>1, <2>1, <2>2
  <2>3. CASE air' = Append(air, CapsResponse)
    <3>1. PICK n \in Nat : n = Len(air)
      BY <1>1
    <3>2. Len(air') = n + 1 /\ air'[n + 1] = 0 /\ \A j \in 1 .. n : air'[j] = air[j]
      BY <1>1, <2>3, <3>1 DEF CapsResponse
    <3>3. \A j \in 1 .. n : air'[j] = 0
      BY <1>1, <3>1, <3>2
    <3>4. \A j \in 1 .. n + 1 : j = n + 1 \/ j \in 1 .. n
      OBVIOUS
    <3>. QED
      BY <2>1, <3>2, <3>3, <3>4
  <2>. QED
    BY <2>2, <2>3
<1>4. ~Mac' => cached' = <<>>
  <2>1. CASE system' = system
    BY <2>1 DEF FeedInv, OrderInv, Mac
  <2>2. CASE dial = "off" /\ dial' = "connect"
    BY <2>2 DEF FeedInv, EarlyInv, OrderInv, Mac
  <2>. QED
    BY <2>1, <2>2
<1>5. EarlyInv'
  BY <1>1, <1>3 DEF EarlyInv, CapsResponse
<1>6. OrderInv'
  <2>1. cached' # <<>> => cached' = cached /\ cached # <<>>
    OBVIOUS
  <2>2. cached # <<>> => cached[1] <= device.sent
    BY DEF FeedInv, OrderInv
  <2>. QED
    BY <1>1, <1>3, <1>4, <2>1, <2>2 DEF OrderInv
<1>7. GapInv'
  <2>1. Len(air') \in 0 .. Len(air')
    BY <1>3
  <2>2. NoneLost(Len(air))'
    BY <1>1, <1>3 DEF NoneLost, CapsResponse
  <2>. QED
    BY <1>3, <2>1, <2>2 DEF GapInv
<1>. QED
  BY <1>2, <1>5, <1>6, <1>7 DEF FeedInv

(* The steps that move no segment. *)
LEMMA FeedFrame ==
    ASSUME FeedInv, UNCHANGED <<system, device, air, cached, fed>>, link' => link,
           dial' = dial \/ (dial = "up" /\ dial' = "closed")
    PROVE  FeedInv'
<1>1. FeedTypes' /\ EarlyInv'
  BY DEF FeedInv, FeedTypes, EarlyInv, Early
<1>2. OrderInv'
  BY DEF FeedInv, OrderInv, Mac
<1>3. GapInv'
  BY DEF FeedInv, GapInv, NoneLost, Mac
<1>. QED
  BY <1>1, <1>2, <1>3 DEF FeedInv

(* A segment less, of those in the air. *)
LEMMA AirTaken ==
    ASSUME FeedTypes, air # <<>>, air' = Tail(air)
    PROVE  /\ Len(air) \in Nat \ {0} /\ Len(air') = Len(air) - 1 /\ air' \in Seq(Nat)
           /\ \A j \in 1 .. Len(air) - 1 : air'[j] = air[j + 1] /\ j + 1 \in 1 .. Len(air)
           /\ Head(air) = air[1] /\ air[1] \in Nat
BY DEF FeedTypes

(* An indication comes in: into the cached value, to BTP, or nowhere. *)
LEMMA FeedIndication == FeedInv /\ Indication => FeedInv'
<1>. SUFFICES ASSUME FeedInv, Indication PROVE FeedInv'
  OBVIOUS
<1>1. /\ air # <<>> /\ air' = Tail(air) /\ FeedTypes
      /\ UNCHANGED <<system, dial, link, device>>
      /\ Mac' = Mac /\ Early' = Early
      /\ cached' = IF Mac THEN <<Head(air)>> ELSE cached
  BY DEF Indication, FeedInv, Mac, Early
<1>2. PICK n \in Nat \ {0} :
        /\ n = Len(air) /\ Len(air') = n - 1 /\ air' \in Seq(Nat)
        /\ \A j \in 1 .. n - 1 : air'[j] = air[j + 1] /\ j + 1 \in 1 .. n
        /\ Head(air) = air[1] /\ air[1] \in Nat
  BY <1>1, AirTaken
<1>3. /\ device \in [ep : BOOLEAN, sub : BOOLEAN, sent : Nat]
      /\ fed \in Seq(Nat) /\ Len(fed) \in Nat /\ \A i \in 1 .. Len(fed) : fed[i] \in Nat
      /\ \A j \in 1 .. n : air[j] \in Nat
  <2>1. /\ device \in [ep : BOOLEAN, sub : BOOLEAN, sent : Nat]
        /\ fed \in Seq(Nat) /\ air \in Seq(Nat)
    BY <1>1 DEF FeedTypes
  <2>2. \A j \in 1 .. n : air[j] \in Nat
    BY <1>2, <2>1
  <2>. QED
    BY <2>1, <2>2
<1>4. PICK a \in Nat : a = air[1]
  BY <1>2
<1>5. /\ a <= device.sent
      /\ a # 0 => \A i \in 1 .. Len(fed) : fed[i] < a
      /\ \A j \in 1 .. n - 1 : air'[j] \in Nat /\ air'[j] <= device.sent
      /\ \A j \in 1 .. n - 1 : air'[j] # 0 => a < air'[j] /\ \A i \in 1 .. Len(fed) : fed[i] < air'[j]
      /\ \A j, k \in 1 .. n - 1 : j < k /\ air'[j] # 0 /\ air'[k] # 0 => air'[j] < air'[k]
  <2>1. 1 \in 1 .. n
    OBVIOUS
  <2>2. /\ a <= device.sent /\ (a # 0 => \A i \in 1 .. Len(fed) : fed[i] < a)
    BY <1>2, <1>4, <2>1 DEF FeedInv, OrderInv
  <2>3. ASSUME NEW j \in 1 .. n - 1
        PROVE  /\ air'[j] \in Nat /\ air'[j] <= device.sent
               /\ air'[j] # 0 => a < air'[j] /\ \A i \in 1 .. Len(fed) : fed[i] < air'[j]
    <3>1. air'[j] = air[j + 1] /\ j + 1 \in 1 .. n /\ 1 < j + 1
      BY <1>2
    <3>2. /\ air[j + 1] <= device.sent
          /\ air[j + 1] # 0 => \A i \in 1 .. Len(fed) : fed[i] < air[j + 1]
          /\ air[1] # 0 /\ air[j + 1] # 0 => air[1] < air[j + 1]
      BY <1>2, <2>1, <3>1 DEF FeedInv, OrderInv
    <3>. QED
      BY <1>3, <1>4, <3>1, <3>2
  <2>4. ASSUME NEW j \in 1 .. n - 1, NEW k \in 1 .. n - 1, j < k, air'[j] # 0, air'[k] # 0
        PROVE  air'[j] < air'[k]
    <3>1. /\ air'[j] = air[j + 1] /\ j + 1 \in 1 .. n
          /\ air'[k] = air[k + 1] /\ k + 1 \in 1 .. n /\ j + 1 < k + 1
      BY <1>2, <2>4
    <3>. QED
      BY <1>2, <2>4, <3>1 DEF FeedInv, OrderInv
  <2>. QED
    BY <2>2, <2>3, <2>4
<1>6. Early => a = 0 /\ \A j \in 1 .. n - 1 : air'[j] = 0
  BY <1>2, <1>4 DEF FeedInv, EarlyInv, CapsResponse
<1>7. CASE UNCHANGED fed
  <2>1. FeedTypes'
    BY <1>1, <1>2, <1>3, <1>4, <1>7 DEF FeedTypes
  <2>2. EarlyInv'
    BY <1>1, <1>2, <1>6, <1>7 DEF FeedInv, EarlyInv, CapsResponse
  <2>3. OrderInv'
    <3>1. /\ \A i, j \in 1 .. Len(fed) : i < j => fed[i] < fed[j]
          /\ \A i \in 1 .. Len(fed) : fed[i] <= device.sent
          /\ ~Mac => cached = <<>>
      BY DEF FeedInv, OrderInv
    <3>2. CASE Mac
      <4>1. cached' = <<a>> /\ cached'[1] = a
        BY <1>1, <1>2, <1>4, <3>2
      <4>. QED
        BY <1>1, <1>2, <1>5, <1>7, <3>1, <3>2, <4>1 DEF OrderInv
    <3>3. CASE ~Mac
      <4>1. cached' = <<>>
        BY <1>1, <3>1, <3>3
      <4>. QED
        BY <1>1, <1>2, <1>5, <1>7, <3>1, <4>1 DEF OrderInv
    <3>. QED
      BY <3>2, <3>3
  <2>4. GapInv'
    <3>. SUFFICES ASSUME ~Mac PROVE GapInv'
      BY <1>1 DEF GapInv
    <3>1. \A i \in 1 .. Len(fed) : fed[i] = i
      BY DEF FeedInv, GapInv
    <3>2. ASSUME dial = "up" PROVE \E z \in 0 .. Len(air') : NoneLost(z)'
      <4>1. a = 0
        BY <1>1, <1>2, <1>3, <1>4, <1>7, <3>2 DEF Indication, Callback, IsCapabilities, CapsResponse
      <4>2. PICK z \in 0 .. n : NoneLost(z)
        BY <1>2, <3>2 DEF FeedInv, GapInv
      <4>3. z # 0
        <5>1. z = 0 => air[1] = Len(fed) + 1
          BY <1>2 , <4>2 DEF NoneLost
        <5>. QED
          BY <1>3, <1>4, <4>1, <5>1
      <4>4. z - 1 \in 0 .. Len(air')
        BY <1>2, <4>3
      <4>5. NoneLost(z - 1)'
        <5>1. \A j \in 1 .. z - 1 : air'[j] = CapsResponse
          <6>. TAKE j \in 1 .. z - 1
          <6>1. j \in 1 .. n - 1 /\ j + 1 \in 1 .. z
            OBVIOUS
          <6>. QED
            BY <1>2, <4>2, <6>1 DEF NoneLost
        <5>2. \A j \in (z - 1) + 1 .. Len(air') : air'[j] = Len(fed) + (j - (z - 1))
          <6>. TAKE j \in (z - 1) + 1 .. Len(air')
          <6>1. j \in 1 .. n - 1 /\ j + 1 \in z + 1 .. n /\ (j + 1) - z = j - (z - 1)
            BY <1>2, <4>3
          <6>2. air[j + 1] = Len(fed) + ((j + 1) - z)
            BY <1>2, <4>2, <6>1 DEF NoneLost
          <6>. QED
            BY <1>2, <6>1, <6>2
        <5>3. link => device.sent = Len(fed) + (Len(air') - (z - 1))
          <6>1. link => device.sent = Len(fed) + (n - z)
            BY <1>2, <4>2 DEF NoneLost
          <6>. QED
            BY <1>2, <1>3, <6>1
        <5>. QED
          BY <1>1, <1>7, <5>1, <5>2, <5>3 DEF NoneLost
      <4>. QED
        BY <4>4, <4>5
    <3>. QED
      BY <1>1, <1>7, <3>1, <3>2 DEF GapInv
  <2>. QED
    BY <2>1, <2>2, <2>3, <2>4 DEF FeedInv
<1>8. CASE ~UNCHANGED fed
  <2>1. dial = "up" /\ ~Mac /\ a # 0 /\ fed' = Append(fed, a)
    BY <1>2, <1>4, <1>8 DEF Indication, Callback, IsCapabilities, CapsResponse
  <2>2. PICK m \in Nat : m = Len(fed)
    BY <1>3
  <2>3. /\ fed' \in Seq(Nat) /\ Len(fed') = m + 1 /\ fed'[m + 1] = a
        /\ \A i \in 1 .. m : fed'[i] = fed[i]
    BY <1>3, <2>1, <2>2
  <2>4. cached' = <<>> /\ cached = <<>>
    BY <1>1, <2>1 DEF FeedInv, OrderInv
  <2>5. FeedTypes' /\ EarlyInv'
    BY <1>1, <1>2, <1>3, <2>1, <2>3, <2>4 DEF FeedTypes, EarlyInv, Early
  <2>6. OrderInv'
    <3>1. /\ \A i, j \in 1 .. m : i < j => fed[i] < fed[j]
          /\ \A i \in 1 .. m : fed[i] <= device.sent
      BY <2>2 DEF FeedInv, OrderInv
    <3>2. \A i, j \in 1 .. m + 1 : i < j => fed'[i] < fed'[j]
      BY <1>5, <2>1, <2>2, <2>3, <3>1
    <3>3. \A i \in 1 .. m + 1 : fed'[i] <= device.sent
      BY <1>5, <2>3, <3>1
    <3>4. \A j \in 1 .. n - 1 : air'[j] # 0 => \A i \in 1 .. m + 1 : fed'[i] < air'[j]
      BY <1>5, <2>2, <2>3
    <3>. QED
      BY <1>1, <1>2, <1>5, <2>3, <2>4, <3>2, <3>3, <3>4 DEF OrderInv
  <2>7. GapInv'
    <3>1. /\ \A i \in 1 .. m : fed[i] = i
          /\ \E z \in 0 .. n : NoneLost(z)
      BY <1>2, <2>1, <2>2 DEF FeedInv, GapInv
    <3>2. PICK z \in 0 .. n : NoneLost(z)
      BY <3>1
    <3>3. z = 0
      BY <1>4, <2>1, <3>2 DEF NoneLost, CapsResponse
    <3>4. /\ \A j \in 1 .. n : air[j] = m + j
          /\ link => device.sent = m + n
      BY <1>2, <2>2, <3>2, <3>3 DEF NoneLost
    <3>5. a = m + 1
      BY <1>4, <3>4
    <3>6. \A j \in 1 .. n - 1 : air'[j] = (m + 1) + j
      BY <1>2, <3>4
    <3>7. NoneLost(0)'
      BY <1>1, <1>2, <2>3, <3>4, <3>6 DEF NoneLost
    <3>8. \A i \in 1 .. m + 1 : fed'[i] = i
      BY <2>3, <3>1, <3>5
    <3>. QED
      BY <1>2, <2>3, <3>7, <3>8 DEF GapInv
  <2>. QED
    BY <2>5, <2>6, <2>7 DEF FeedInv
<1>. QED
  BY <1>7, <1>8

(* The device sends one more. *)
LEMMA FeedSegment == FeedInv /\ PeerSegment => FeedInv'
<1>. SUFFICES ASSUME FeedInv, PeerSegment PROVE FeedInv'
  OBVIOUS
<1>1. /\ dial = "up" /\ link /\ UNCHANGED <<system, dial, link, cached, fed>>
      /\ device' = [device EXCEPT !.sent = @ + 1] /\ air' = Append(air, device.sent + 1)
      /\ Mac' = Mac /\ ~Early /\ ~Early'
  BY DEF PeerSegment, Mac, Early
<1>2. /\ device \in [ep : BOOLEAN, sub : BOOLEAN, sent : Nat]
      /\ air \in Seq(Nat) /\ fed \in Seq(Nat) /\ cached \in Seq(Nat)
  BY DEF FeedInv, FeedTypes
<1>3. PICK n \in Nat, s \in Nat : n = Len(air) /\ s = device.sent
  BY <1>2
<1>4. /\ device' \in [ep : BOOLEAN, sub : BOOLEAN, sent : Nat] /\ device'.sent = s + 1
      /\ air' \in Seq(Nat) /\ Len(air') = n + 1 /\ air'[n + 1] = s + 1
      /\ \A j \in 1 .. n : air'[j] = air[j] /\ air[j] \in Nat
      /\ \A i \in 1 .. Len(fed) : fed[i] \in Nat
      /\ cached # <<>> => cached[1] \in Nat
  <2>1. device' \in [ep : BOOLEAN, sub : BOOLEAN, sent : Nat] /\ device'.sent = s + 1
    <3>1. device' = [device EXCEPT !.sent = s + 1] /\ s + 1 \in Nat
      BY <1>1, <1>3
    <3>2. device \in [ep : BOOLEAN, sub : BOOLEAN, sent : Nat]
      BY <1>2
    <3>. QED
      BY <3>1, <3>2
  <2>2. /\ air' \in Seq(Nat) /\ Len(air') = n + 1 /\ air'[n + 1] = s + 1
        /\ \A j \in 1 .. n : air'[j] = air[j] /\ air[j] \in Nat
    <3>1. air' = Append(air, s + 1) /\ s + 1 \in Nat /\ air \in Seq(Nat) /\ n = Len(air)
      BY <1>1, <1>2, <1>3
    <3>. QED
      BY <3>1
  <2>3. \A i \in 1 .. Len(fed) : fed[i] \in Nat
    BY <1>2
  <2>4. cached # <<>> => cached[1] \in Nat
    BY <1>2
  <2>. QED
    BY <2>1, <2>2, <2>3, <2>4
<1>5. FeedTypes' /\ EarlyInv'
  BY <1>1, <1>2, <1>4 DEF FeedTypes, EarlyInv
<1>6. OrderInv'
  <2>1. /\ \A i \in 1 .. Len(fed) : fed[i] <= s
        /\ \A j \in 1 .. n : /\ air[j] <= s
                             /\ air[j] # 0 => \A i \in 1 .. Len(fed) : fed[i] < air[j]
        /\ \A j, k \in 1 .. n : j < k /\ air[j] # 0 /\ air[k] # 0 => air[j] < air[k]
        /\ cached # <<>> => cached[1] <= s /\ \A j \in 1 .. n : air[j] # 0 => cached[1] < air[j]
    BY <1>3 DEF FeedInv, OrderInv
  <2>2. \A j \in 1 .. n + 1 : /\ air'[j] <= s + 1
                              /\ air'[j] # 0 => \A i \in 1 .. Len(fed) : fed[i] < air'[j]
    <3>. TAKE j \in 1 .. n + 1
    <3>1. CASE j = n + 1
      BY <1>4, <2>1, <3>1
    <3>2. CASE j # n + 1
      <4>1. j \in 1 .. n /\ air'[j] = air[j] /\ air[j] \in Nat
        BY <1>4, <3>2
      <4>. QED
        BY <2>1, <4>1
    <3>. QED
      BY <3>1, <3>2
  <2>3. \A j, k \in 1 .. n + 1 : j < k /\ air'[j] # 0 /\ air'[k] # 0 => air'[j] < air'[k]
    <3>. SUFFICES ASSUME NEW j \in 1 .. n + 1, NEW k \in 1 .. n + 1, j < k, air'[j] # 0, air'[k] # 0
                  PROVE  air'[j] < air'[k]
      OBVIOUS
    <3>1. j \in 1 .. n /\ air'[j] = air[j] /\ air[j] \in Nat /\ air[j] <= s
      BY <1>4, <2>1
    <3>2. CASE k = n + 1
      BY <1>4, <3>1, <3>2
    <3>3. CASE k # n + 1
      <4>1. k \in 1 .. n /\ air'[k] = air[k]
        BY <1>4, <3>3
      <4>. QED
        BY <2>1, <3>1, <4>1
    <3>. QED
      BY <3>2, <3>3
  <2>4. cached # <<>> =>
          cached[1] <= s + 1 /\ \A j \in 1 .. n + 1 : air'[j] # 0 => cached[1] < air'[j]
    BY <1>4, <2>1
  <2>5. \A i \in 1 .. Len(fed) : fed[i] <= s + 1
    BY <1>4, <2>1
  <2>6. /\ ~Mac => cached = <<>>
        /\ \A i, j \in 1 .. Len(fed) : i < j => fed[i] < fed[j]
        /\ cached # <<>> /\ cached[1] # 0 => \A i \in 1 .. Len(fed) : fed[i] < cached[1]
    BY DEF FeedInv, OrderInv
  <2>. QED
    BY <1>1, <1>4, <2>2, <2>3, <2>4, <2>5, <2>6 DEF OrderInv
<1>7. GapInv'
  <2>. SUFFICES ASSUME ~Mac PROVE GapInv'
    BY <1>1 DEF GapInv
  <2>1. \A i \in 1 .. Len(fed) : fed[i] = i
    BY DEF FeedInv, GapInv
  <2>2. PICK z \in 0 .. n : NoneLost(z)
    BY <1>1, <1>3 DEF FeedInv, GapInv
  <2>3. /\ \A j \in 1 .. z : air[j] = CapsResponse
        /\ \A j \in z + 1 .. n : air[j] = Len(fed) + (j - z)
        /\ s = Len(fed) + (n - z)
    BY <1>1, <1>3, <2>2 DEF NoneLost
  <2>4. z \in 0 .. Len(air') /\ \A j \in 1 .. z : j \in 1 .. n
    BY <1>4
  <2>5. \A j \in z + 1 .. n + 1 : air'[j] = Len(fed) + (j - z)
    <3>. TAKE j \in z + 1 .. n + 1
    <3>1. CASE j = n + 1
      BY <1>2, <1>4, <2>3, <3>1
    <3>2. CASE j # n + 1
      BY <1>4, <2>3, <3>2
    <3>. QED
      BY <3>1, <3>2
  <2>6. device'.sent = Len(fed) + (Len(air') - z)
    BY <1>2, <1>4, <2>3
  <2>7. NoneLost(z)'
    BY <1>1, <1>4, <2>3, <2>4, <2>5, <2>6 DEF NoneLost
  <2>. QED
    BY <1>1, <2>1, <2>4, <2>7 DEF GapInv
<1>. QED
  BY <1>5, <1>6, <1>7 DEF FeedInv

(* The poller of C2 hands the cached value to BTP. *)
LEMMA FeedPoll == FeedInv /\ PollData => FeedInv'
<1>. SUFFICES ASSUME FeedInv, PollData PROVE FeedInv'
  OBVIOUS
<1>1. /\ dial = "up" /\ Mac /\ cached # <<>> /\ cached' = <<>>
      /\ UNCHANGED <<system, dial, link, device, air>> /\ Mac' = Mac /\ ~Early'
  BY DEF PollData, Mac, Early
<1>2. /\ device \in [ep : BOOLEAN, sub : BOOLEAN, sent : Nat]
      /\ air \in Seq(Nat) /\ fed \in Seq(Nat) /\ cached \in Seq(Nat)
  BY DEF FeedInv, FeedTypes
<1>3. PICK c \in Nat : c = cached[1]
  BY <1>1, <1>2
<1>4. PICK m \in Nat : m = Len(fed)
  BY <1>2
<1>5. GapInv'
  BY <1>1 DEF GapInv
<1>6. CASE c = 0
  <2>1. fed' = fed
    BY <1>3, <1>6 DEF PollData, IsCapabilities, CapsResponse
  <2>2. FeedTypes' /\ EarlyInv'
    BY <1>1, <1>2, <2>1 DEF FeedTypes, EarlyInv
  <2>3. OrderInv'
    BY <1>1, <2>1 DEF FeedInv, OrderInv
  <2>. QED
    BY <1>5, <2>2, <2>3 DEF FeedInv
<1>7. CASE c # 0
  <2>1. fed' = Append(fed, c)
    BY <1>3, <1>7 DEF PollData, IsCapabilities, CapsResponse
  <2>2. /\ fed' \in Seq(Nat) /\ Len(fed') = m + 1 /\ fed'[m + 1] = c
        /\ \A i \in 1 .. m : fed'[i] = fed[i] /\ fed[i] \in Nat
    BY <1>2, <1>4, <2>1
  <2>3. FeedTypes' /\ EarlyInv'
    BY <1>1, <1>2, <2>2 DEF FeedTypes, EarlyInv
  <2>4. /\ c <= device.sent /\ \A i \in 1 .. m : fed[i] < c
        /\ \A j \in 1 .. Len(air) : air[j] # 0 => c < air[j]
        /\ \A i, j \in 1 .. m : i < j => fed[i] < fed[j]
        /\ \A i \in 1 .. m : fed[i] <= device.sent
        /\ \A j \in 1 .. Len(air) : /\ air[j] <= device.sent
                                    /\ air[j] # 0 => \A i \in 1 .. m : fed[i] < air[j]
        /\ \A j, k \in 1 .. Len(air) : j < k /\ air[j] # 0 /\ air[k] # 0 => air[j] < air[k]
    BY <1>1, <1>3, <1>4, <1>7 DEF FeedInv, OrderInv
  <2>5. /\ \A i, j \in 1 .. m + 1 : i < j => fed'[i] < fed'[j]
        /\ \A i \in 1 .. m + 1 : fed'[i] <= device.sent
        /\ \A j \in 1 .. Len(air) : air[j] # 0 => \A i \in 1 .. m + 1 : fed'[i] < air[j]
    <3>0. \A i \in 1 .. m + 1 : i = m + 1 \/ i \in 1 .. m
      OBVIOUS
    <3>1. ASSUME NEW i \in 1 .. m + 1, NEW j \in 1 .. m + 1, i < j PROVE fed'[i] < fed'[j]
      <4>1. i \in 1 .. m /\ fed'[i] = fed[i]
        BY <2>2, <3>1
      <4>. QED
        BY <2>2, <2>4, <3>0, <3>1, <4>1
    <3>2. \A i \in 1 .. m + 1 : fed'[i] <= device.sent
      BY <2>2, <2>4, <3>0
    <3>3. \A j \in 1 .. Len(air) : air[j] # 0 => \A i \in 1 .. m + 1 : fed'[i] < air[j]
      BY <2>2, <2>4, <3>0
    <3>. QED
      BY <3>1, <3>2, <3>3
  <2>6. OrderInv'
    BY <1>1, <2>2, <2>4, <2>5 DEF OrderInv
  <2>. QED
    BY <1>5, <2>3, <2>6 DEF FeedInv
<1>. QED
  BY <1>6, <1>7

(* What is in the air is lost with the link. *)
LEMMA FeedDrop == FeedInv /\ LinkDrops => FeedInv'
<1>. SUFFICES ASSUME FeedInv, LinkDrops PROVE FeedInv'
  OBVIOUS
<1>1. /\ link' = FALSE /\ air' = <<>> /\ UNCHANGED <<system, dial, device, cached, fed>>
      /\ Mac' = Mac /\ Early' = Early
  BY DEF LinkDrops, Mac, Early
<1>2. Len(air') = 0 /\ air' \in Seq(Nat)
  BY <1>1
<1>3. FeedTypes' /\ EarlyInv' /\ OrderInv'
  BY <1>1, <1>2 DEF FeedInv, FeedTypes, EarlyInv, OrderInv
<1>4. NoneLost(0)'
  BY <1>1, <1>2 DEF NoneLost
<1>5. GapInv'
  BY <1>1, <1>2, <1>4 DEF FeedInv, GapInv
<1>. QED
  BY <1>3, <1>5 DEF FeedInv

(* The steps of the dial, up to its end. *)
LEMMA FeedDialling ==
    FeedInv /\ (Handshake \/ Retry \/ HandshakeTimesOut) => FeedInv'
<1>. SUFFICES ASSUME FeedInv, Handshake \/ Retry \/ HandshakeTimesOut PROVE FeedInv'
  OBVIOUS
<1>1. device \in [ep : BOOLEAN, sub : BOOLEAN, sent : Nat]
  BY DEF FeedInv, FeedTypes
<1>2. PeerRequest => /\ device' \in [ep : BOOLEAN, sub : BOOLEAN, sent : Nat]
                     /\ device'.sent = device.sent
                     /\ air' = air \/ air' = Append(air, CapsResponse)
  BY <1>1 DEF PeerRequest
<1>3. PeerSubscribe => /\ device' \in [ep : BOOLEAN, sub : BOOLEAN, sent : Nat]
                       /\ device'.sent = device.sent
                       /\ air' = air \/ air' = Append(air, CapsResponse)
  BY <1>1 DEF PeerSubscribe
<1>4. CASE StartDial
  BY <1>1, <1>4, EarlyStep DEF StartDial, Early
<1>5. CASE Connect \/ DiscoverCharacteristics \/ HandshakeTimesOut \/ HandshakeDone
  BY <1>1, <1>5, EarlyStep
     DEF Connect, DiscoverCharacteristics, HandshakeTimesOut, HandshakeDone, Fail, Early
<1>6. CASE WriteRequest
  BY <1>1, <1>2, <1>6, EarlyStep DEF WriteRequest, WriteC1, Fail, Early
<1>7. CASE EnableNotifications
  BY <1>1, <1>3, <1>7, EarlyStep DEF EnableNotifications, Fail, Early
<1>8. CASE WaitForNotifying
  BY <1>1, <1>3, <1>8, EarlyStep DEF WaitForNotifying, Early
<1>9. CASE Retry
  BY <1>1, <1>2, <1>9, EarlyStep DEF Retry, WriteC1, Fail, Early
<1>. QED
  BY <1>4, <1>5, <1>6, <1>7, <1>8, <1>9 DEF Handshake

(* The invariant of the dial is inductive and holds in the beginning. *)
LEMMA FeedInvNext == FeedInv /\ [BLENext]_bleDialVars => FeedInv'
<1>. SUFFICES ASSUME FeedInv, [BLENext]_bleDialVars PROVE FeedInv'
  OBVIOUS
<1>1. CASE Handshake \/ Retry \/ HandshakeTimesOut
  BY <1>1, FeedDialling
<1>2. CASE Indication \/ PeerSegment \/ PollData \/ LinkDrops
  BY <1>2, FeedIndication, FeedSegment, FeedPoll, FeedDrop
<1>3. CASE WaitForValue
  BY <1>3, FeedFrame DEF WaitForValue
<1>4. CASE DisconnectWatcher \/ Close
  BY <1>4, FeedFrame DEF DisconnectWatcher, Close
<1>5. CASE UNCHANGED dialVars
  BY <1>5, FeedFrame DEF dialVars
<1>. QED
  BY <1>1, <1>2, <1>3, <1>4, <1>5 DEF BLENext, DialNext, bleDialVars

LEMMA FeedInvInit == DialInit => FeedInv
<1>. SUFFICES ASSUME DialInit PROVE FeedInv
  OBVIOUS
<1>1. /\ system = "unknown" /\ dial = "off" /\ device = [ep |-> FALSE, sub |-> FALSE, sent |-> 0]
      /\ air = <<>> /\ cached = <<>> /\ fed = <<>>
  BY DEF DialInit
<1>2. FeedTypes /\ EarlyInv /\ OrderInv /\ GapInv
  BY <1>1 DEF FeedTypes, EarlyInv, OrderInv, GapInv
<1>. QED
  BY <1>2 DEF FeedInv

(* No segment is given to BTP twice or out of order, by the notification
   callback, the cached value and the C2 poller of DialBLE together, and on the
   systems with the callback alone none is left out: however many segments and
   retries there are, and whenever the link drops. *)
THEOREM SegmentsDeliveredOnce == BLESpec => []DeliveredOnce
<1>1. BLEInit => FeedInv
  BY FeedInvInit DEF BLEInit
<1>2. FeedInv => DeliveredOnce
  BY DEF FeedInv, OrderInv, GapInv, DeliveredOnce
<1>. QED
  BY <1>1, <1>2, FeedInvNext, PTL DEF BLESpec
=============================================================================
