--------------------------------- MODULE BTP ---------------------------------
(***************************************************************************)
(* The Bluetooth transport of the commissioner: one btpSession             *)
(* (internal/transport/btp.go) under one BLEConn (internal/transport/      *)
(* ble.go), with the goroutines that share it:                             *)
(*                                                                         *)
(*   - any number of goroutines in BLEConn.Send,                           *)
(*   - the standalone-ack ticker (startAckTimer),                          *)
(*   - the one delivery path of C2 indications (handleSegment),            *)
(*   - the reader of completed messages (Receive),                         *)
(*   - the closer (Close, called by the owner or by the disconnect         *)
(*     watcher),                                                           *)
(*                                                                         *)
(* and the peripheral at the other end of the link, which is external: it  *)
(* is what the code and its comments expect of a BTP peer.                 *)
(*                                                                         *)
(* Payload bytes are abstracted to the number of segments a message fills. *)
(* A C1 write that returns no error may still never arrive: outside macOS  *)
(* it is a best-effort write without response, on macOS it is only queued. *)
(* What does arrive arrives in order, and so do C2 indications.            *)
(***************************************************************************)
EXTENDS Integers, Sequences, FiniteSets

CONSTANTS
    Senders,    \* goroutines that call BLEConn.Send
    SeqMod,     \* number of values of the uint8 sequence number (256 in the code)
    WindowSize, \* windowSize negotiated in the handshake
    MaxSegs,    \* largest number of segments of a message sent
    PeerSegs,   \* bound: segments of a message of the peripheral
    Buffer,     \* btpMessageBufferSize
    MaxSend,    \* bound: messages the local side sends
    MaxRecv,    \* bound: messages the peripheral sends
    Faults      \* which may happen: "write" (a C1 write fails), "lose" (one is lost
                \* without an error), "cancel" (of a context), "close"

Free  == "free"      \* c1Mu is not held
Timer == "timer"     \* c1Mu is held by the ack ticker
NoAck == -1          \* a segment without the A flag

ASSUME BTPAssumption ==
    /\ SeqMod \in Nat /\ SeqMod > 1
    /\ WindowSize \in 1 .. SeqMod - 1
    /\ MaxSegs \in 1 .. SeqMod - 1
    /\ PeerSegs \in Nat \ {0}
    /\ Buffer \in Nat \ {0}
    /\ MaxSend \in Nat
    /\ MaxRecv \in Nat
    /\ Faults \subseteq {"write", "lose", "cancel", "close"}
    /\ Free \notin Senders
    /\ Timer \notin Senders

VARIABLES
    \* btpSession, guarded by mu
    localSeq,       \* next outgoing sequence number to assign
    txInflight,     \* segments counted as sent and not acknowledged
    hasPendingAck, pendingAck,
    rxActive, rxExpected, rxBuf,
    messages,       \* completed messages waiting for Receive
    \* BLEConn
    closed,         \* "open", "closing" (conn closed), "closed" (session too)
    c1Mu,           \* holder of the C1 write lock
    \* each goroutine in Send
    pc,
    msg,            \* which message it sends
    left,           \* segments of it not yet written
    segs,           \* segments it was split into
    nextSeq,        \* sequence number segment() gave to the next one
    segAck,         \* acknowledgement on its first segment
    cancelled,      \* ctx.Done()
    \* the ack ticker between standaloneAck and the end of its write
    tick,
    \* the C2 callback
    rxPc, rxSeg,
    \* the peripheral (external)
    c2,             \* indications on their way
    peer,
    \* history
    nSent,          \* messages given to segment()
    gap,            \* some Send gave up after segment() and before its last write
    wire,           \* what was written to C1, as one that misses none of it sees it
    unacked,        \* segments written whose acknowledgement was not processed
    lastRx,         \* sequence number of the last indication that was recorded
    rcvd            \* messages returned by Receive

sessVars == <<localSeq, txInflight, hasPendingAck, pendingAck>>
rxVars   == <<rxActive, rxExpected, rxBuf, messages, rxPc, rxSeg, lastRx>>
sendVars == <<pc, msg, left, segs, nextSeq, segAck>>
outVars  == <<wire, unacked>>
vars == <<sessVars, rxVars, closed, c1Mu, sendVars, cancelled, tick, c2, peer,
          nSent, gap, outVars, rcvd>>

-----------------------------------------------------------------------------
(* uint8 arithmetic, for arguments below SeqMod *)

SeqNums == 0 .. SeqMod - 1

Plus(a, k) == IF a + k >= SeqMod THEN a + k - SeqMod ELSE a + k

Minus(a, k) == IF a >= k THEN a - k ELSE a - k + SeqMod

(* mu is only ever held across a step by a sender between its last check in
   waitCanSend and cond.Wait: every other critical section is one step. *)
MuFree == \A s \in Senders : pc[s] # "parking"

(* cond.Broadcast: wakes exactly the goroutines that are already parked. *)
Broadcast(p) == [s \in Senders |-> IF p[s] = "asleep" THEN "check" ELSE p[s]]

-----------------------------------------------------------------------------
(* The peripheral. It takes our segments strictly in sequence: any other
   sequence number, or a B-segment inside a message, makes it reject this and
   everything after it. It puts the acknowledgement it owes on whatever it
   sends next, and keeps the last slot of its own window for a segment that
   carries one. *)

PeerInit ==
    [expect |-> 0, ok |-> TRUE, building |-> 0, got |-> <<>>, owes |-> FALSE,
     last |-> 0, seq |-> 0, unacked |-> <<>>, nSent |-> 0, left |-> 0, len |-> 0,
     badAck |-> FALSE]

(* The suffix of a sequence of sequence numbers after the acknowledged one. *)
AfterAck(u, ack) ==
    IF \E i \in 1 .. Len(u) : u[i] = ack
    THEN SubSeq(u, 1 + CHOOSE i \in 1 .. Len(u) : u[i] = ack, Len(u))
    ELSE u

(* Whether p, which has seen some of our segments, can take this one next,
   and the message it is inside of afterwards. *)
Accepts(p, seg) ==
    /\ p.ok
    /\ seg.seq = p.expect
    /\ seg.b => p.building = 0
    /\ (~seg.b /\ seg.data) => p.building = seg.msg

BuildingAfter(p, seg) ==
    IF ~seg.data THEN p.building ELSE IF seg.e THEN 0 ELSE seg.msg

PeerTake(seg) ==
    IF Accepts(peer, seg)
    THEN [peer EXCEPT
            !.expect = Plus(@, 1),
            !.last = seg.seq,
            !.owes = TRUE,
            !.building = BuildingAfter(peer, seg),
            !.got = IF seg.data /\ seg.e THEN Append(@, seg.msg) ELSE @,
            !.unacked = IF seg.ack = NoAck THEN @ ELSE AfterAck(@, seg.ack),
            !.badAck = @ \/ /\ seg.ack # NoAck
                            /\ \A i \in 1 .. Len(peer.unacked) : peer.unacked[i] # seg.ack]
    ELSE [peer EXCEPT !.ok = FALSE]

(* A write to C1 that returns no error: it reaches the peripheral, or the
   Bluetooth stack loses it. *)
WriteOut(seg) ==
    /\ unacked' = Append(unacked, [seq |-> seg.seq, data |-> seg.data])
    /\ \E dropped \in BOOLEAN :
         /\ dropped => "lose" \in Faults
         /\ peer' = IF dropped THEN peer ELSE PeerTake(seg)
         /\ wire' = [expect |-> Plus(seg.seq, 1), building |-> BuildingAfter(wire, seg),
                     ok |-> Accepts(wire, seg), missed |-> wire.missed \/ dropped]

(* One indication: the payload, if any, is segment number i of a message. *)
PeerIndicate(b, e, data, m, n) ==
    /\ peer.ok
    /\ closed # "closed"
    /\ c2' = Append(c2, [b |-> b, e |-> e, data |-> data, msg |-> m, len |-> n,
                         seq |-> peer.seq,
                         ack |-> IF peer.owes THEN peer.last ELSE NoAck])
    /\ UNCHANGED <<sessVars, rxVars, closed, c1Mu, sendVars, cancelled, tick,
                   nSent, gap, outVars, rcvd>>

PeerMaySend == Len(peer.unacked) < IF peer.owes THEN WindowSize ELSE WindowSize - 1

PeerSends(m, n, rest) ==
    [peer EXCEPT !.seq = Plus(@, 1), !.owes = FALSE, !.unacked = Append(@, peer.seq),
                 !.nSent = m, !.len = n, !.left = rest]

PeerSend ==
    /\ PeerMaySend
    /\ \/ /\ peer.left = 0
          /\ peer.nSent < MaxRecv
          /\ \E n \in 1 .. PeerSegs :
               /\ PeerIndicate(TRUE, n = 1, TRUE, peer.nSent + 1, n)
               /\ peer' = PeerSends(peer.nSent + 1, n, n - 1)
       \/ /\ peer.left > 0
          /\ PeerIndicate(FALSE, peer.left = 1, TRUE, peer.nSent, peer.len)
          /\ peer' = PeerSends(peer.nSent, peer.len, peer.left - 1)

PeerAck ==
    /\ peer.owes
    /\ PeerMaySend
    /\ PeerIndicate(FALSE, FALSE, FALSE, 0, 0)
    /\ peer' = PeerSends(peer.nSent, peer.len, peer.left)

-----------------------------------------------------------------------------
(* BLEConn.Send *)

(* The caller enters Send while the connection is open and queues for c1Mu. *)
SendCall(s) ==
    /\ pc[s] = "idle"
    /\ closed = "open"
    /\ nSent + Cardinality({t \in Senders : pc[t] = "lock"}) < MaxSend
    /\ pc' = [pc EXCEPT ![s] = "lock"]
    /\ UNCHANGED <<sessVars, rxVars, closed, c1Mu, msg, left, segs, nextSeq, segAck,
                   cancelled, tick, c2, peer, nSent, gap, outVars, rcvd>>

(* c1Mu.Lock, then segment(): all sequence numbers of the message are taken
   now, and the pending acknowledgement goes on the first segment. *)
Segment(s) ==
    /\ pc[s] = "lock"
    /\ c1Mu = Free
    /\ MuFree
    /\ c1Mu' = s
    /\ \E n \in 1 .. MaxSegs :
         /\ left' = [left EXCEPT ![s] = n]
         /\ segs' = [segs EXCEPT ![s] = n]
         /\ localSeq' = Plus(localSeq, n)
    /\ nSent' = nSent + 1
    /\ msg' = [msg EXCEPT ![s] = nSent + 1]
    /\ nextSeq' = [nextSeq EXCEPT ![s] = localSeq]
    /\ segAck' = [segAck EXCEPT ![s] = IF hasPendingAck THEN pendingAck ELSE NoAck]
    /\ hasPendingAck' = FALSE
    /\ pc' = [pc EXCEPT ![s] = "check"]
    /\ UNCHANGED <<txInflight, pendingAck, rxVars, closed, cancelled, tick, c2, peer,
                   gap, outVars, rcvd>>

(* Send returns: its locals are gone, the deferred c1Mu.Unlock has run. *)
SendReturn(s) ==
    /\ c1Mu' = Free
    /\ pc' = [pc EXCEPT ![s] = "idle"]
    /\ msg' = [msg EXCEPT ![s] = 0]
    /\ left' = [left EXCEPT ![s] = 0]
    /\ segs' = [segs EXCEPT ![s] = 0]
    /\ nextSeq' = [nextSeq EXCEPT ![s] = 0]
    /\ segAck' = [segAck EXCEPT ![s] = NoAck]
    /\ cancelled' = [cancelled EXCEPT ![s] = FALSE]

(* Send returns an error with segments left that have their numbers. *)
SendError(s) ==
    /\ SendReturn(s)
    /\ gap' = TRUE
    /\ UNCHANGED <<sessVars, rxVars, closed, tick, c2, peer, nSent, outVars, rcvd>>

(* One round of the loop in waitCanSend, under mu. *)
WaitFails(s) ==
    /\ pc[s] = "check"
    /\ closed = "closed" \/ cancelled[s]
    /\ SendError(s)

WindowOpen == txInflight < WindowSize

WaitCanSend(s) ==
    /\ pc[s] = "check"
    /\ closed # "closed" /\ ~cancelled[s]
    /\ pc' = [pc EXCEPT ![s] = IF WindowOpen THEN "write" ELSE "parking"]
    /\ UNCHANGED <<sessVars, rxVars, closed, c1Mu, msg, left, segs, nextSeq, segAck,
                   cancelled, tick, c2, peer, nSent, gap, outVars, rcvd>>

(* cond.Wait puts the goroutine on the wait list and releases mu. *)
Park(s) ==
    /\ pc[s] = "parking"
    /\ pc' = [pc EXCEPT ![s] = "asleep"]
    /\ UNCHANGED <<sessVars, rxVars, closed, c1Mu, msg, left, segs, nextSeq, segAck,
                   cancelled, tick, c2, peer, nSent, gap, outVars, rcvd>>

(* writeSegmentC1 refuses, or the GATT write returns an error. *)
WriteFails(s) ==
    /\ pc[s] = "write"
    /\ closed # "open" \/ cancelled[s] \/ "write" \in Faults
    /\ SendError(s)

OutSegmentAckOnAll(s) ==
    [b |-> left[s] = segs[s], e |-> left[s] = 1, data |-> TRUE, msg |-> msg[s],
     seq |-> nextSeq[s], ack |-> segAck[s]]

(* The next segment as buildSegment encoded it: B on the first, E on the last,
   the acknowledgement only on the first. *)
OutSegment(s) ==
    [b |-> left[s] = segs[s], e |-> left[s] = 1, data |-> TRUE, msg |-> msg[s],
     seq |-> nextSeq[s], ack |-> IF left[s] = segs[s] THEN segAck[s] ELSE NoAck]

WriteSegment(s) ==
    /\ pc[s] = "write"
    /\ closed = "open"
    /\ ~cancelled[s]
    /\ WriteOut(OutSegment(s))
    /\ pc' = [pc EXCEPT ![s] = "mark"]
    /\ UNCHANGED <<sessVars, rxVars, closed, c1Mu, msg, left, segs, nextSeq, segAck,
                   cancelled, tick, c2, nSent, gap, rcvd>>

(* markSent, and the end of the iteration: the next segment or the return. *)
MarkSent(s) ==
    /\ pc[s] = "mark"
    /\ txInflight' = txInflight + 1
    /\ \/ /\ left[s] = 1
          /\ SendReturn(s)
       \/ /\ left[s] > 1
          /\ pc' = [pc EXCEPT ![s] = "check"]
          /\ left' = [left EXCEPT ![s] = @ - 1]
          /\ nextSeq' = [nextSeq EXCEPT ![s] = Plus(@, 1)]
          /\ UNCHANGED <<c1Mu, msg, segs, segAck, cancelled>>
    /\ UNCHANGED <<localSeq, hasPendingAck, pendingAck, rxVars, closed, tick, c2, peer,
                   nSent, gap, outVars, rcvd>>

(* The context of a Send is done. The watcher goroutine of waitCanSend
   broadcasts without taking mu. *)
CtxDone(s) ==
    /\ "cancel" \in Faults
    /\ pc[s] \notin {"idle", "lock"}
    /\ ~cancelled[s]
    /\ cancelled' = [cancelled EXCEPT ![s] = TRUE]
    /\ pc' = Broadcast(pc)
    /\ UNCHANGED <<sessVars, rxVars, closed, c1Mu, msg, left, segs, nextSeq, segAck, tick,
                   c2, peer, nSent, gap, outVars, rcvd>>

-----------------------------------------------------------------------------
(* The standalone-ack ticker *)

NoTick == [on |-> FALSE, ack |-> 0, seq |-> 0]

AckDueWhenIdle == hasPendingAck /\ ~rxActive

(* What standaloneAck asks before it builds a segment. *)
AckDue == hasPendingAck

(* A tick takes c1Mu and calls standaloneAck; without a pending ack it has
   no effect. *)
StandaloneAck ==
    /\ ~tick.on
    /\ closed = "open"
    /\ c1Mu = Free
    /\ MuFree
    /\ AckDue
    /\ c1Mu' = Timer
    /\ tick' = [on |-> TRUE, ack |-> pendingAck, seq |-> localSeq]
    /\ localSeq' = Plus(localSeq, 1)
    /\ hasPendingAck' = FALSE
    /\ UNCHANGED <<txInflight, pendingAck, rxVars, closed, sendVars, cancelled, c2, peer,
                   nSent, gap, outVars, rcvd>>

WriteAck ==
    /\ tick.on
    /\ closed # "closed"
    /\ WriteOut([b |-> FALSE, e |-> FALSE, data |-> FALSE, msg |-> 0, seq |-> tick.seq,
                 ack |-> tick.ack])
    /\ tick' = NoTick
    /\ c1Mu' = Free
    /\ UNCHANGED <<sessVars, rxVars, closed, sendVars, cancelled, c2, nSent, gap, rcvd>>

RolledBackNot(q) == q

(* localSeq after rollbackStandaloneAck. *)
RolledBack(q) == Minus(q, 1)

(* The write failed: rollbackStandaloneAck. *)
RollbackStandaloneAck ==
    /\ tick.on
    /\ closed = "closed" \/ "write" \in Faults
    /\ MuFree
    /\ localSeq' = RolledBack(localSeq)
    /\ hasPendingAck' = TRUE
    /\ pendingAck' = tick.ack
    /\ tick' = NoTick
    /\ c1Mu' = Free
    /\ UNCHANGED <<txInflight, rxVars, closed, sendVars, cancelled, c2, peer, nSent, gap,
                   outVars, rcvd>>

-----------------------------------------------------------------------------
(* handleSegment, on the one goroutine that delivers C2 indications *)

NoSeg == [b |-> FALSE, e |-> FALSE, data |-> FALSE, msg |-> 0, len |-> 0, seq |-> 0,
          ack |-> NoAck]

(* What processAck subtracts from txInflight. *)
NewlyAcked(ackNum) ==
    LET oldest == Minus(localSeq, txInflight)
        newly  == Plus(Minus(ackNum, oldest), 1)
    IN  IF newly > txInflight THEN txInflight ELSE newly

(* The acknowledged prefix of what was written leaves the history. *)
AckedSuffix(ackNum) ==
    IF \E i \in 1 .. Len(unacked) : unacked[i].seq = ackNum
    THEN SubSeq(unacked, 1 + CHOOSE i \in 1 .. Len(unacked) : unacked[i].seq = ackNum,
                Len(unacked))
    ELSE unacked

ProcessAck ==
    /\ rxPc = "idle"
    /\ c2 # <<>>
    /\ MuFree
    /\ rxSeg' = Head(c2)
    /\ c2' = Tail(c2)
    /\ rxPc' = "record"
    /\ IF rxSeg'.ack = NoAck
       THEN UNCHANGED <<txInflight, pc, unacked>>
       ELSE /\ unacked' = AckedSuffix(rxSeg'.ack)
            /\ IF txInflight = 0 \/ NewlyAcked(rxSeg'.ack) = 0
               THEN UNCHANGED <<txInflight, pc>>
               ELSE /\ txInflight' = txInflight - NewlyAcked(rxSeg'.ack)
                    /\ pc' = Broadcast(pc)
    /\ UNCHANGED <<localSeq, hasPendingAck, pendingAck, rxActive, rxExpected, rxBuf,
                   messages, lastRx, closed, c1Mu, msg, left, segs, nextSeq, segAck, cancelled,
                   tick, peer, nSent, gap, wire, rcvd>>

StillActive(seg) == TRUE

(* rxActive after a data segment that was accepted. *)
ActiveAfter(seg) == ~seg.e

(* The sequence number becomes the pending ack; then reassembly. The later
   sections of mu touch only state of this goroutine. *)
RecordSegment ==
    /\ rxPc = "record"
    /\ MuFree
    /\ pendingAck' = rxSeg.seq
    /\ lastRx' = rxSeg.seq
    /\ hasPendingAck' = TRUE
    /\ \/ /\ ~rxSeg.data                       \* standalone ack
          /\ rxPc' = "idle"
          /\ UNCHANGED <<rxActive, rxExpected, rxBuf>>
       \/ /\ rxSeg.data
          /\ IF rxSeg.b THEN rxActive ELSE ~rxActive   \* the two error returns
          /\ rxPc' = "idle"
          /\ UNCHANGED <<rxActive, rxExpected, rxBuf>>
       \/ /\ rxSeg.data
          /\ IF rxSeg.b THEN ~rxActive ELSE rxActive
          /\ rxExpected' = IF rxSeg.b THEN rxSeg.len ELSE rxExpected
          /\ rxBuf' = IF rxSeg.b THEN <<rxSeg.msg>> ELSE Append(rxBuf, rxSeg.msg)
          /\ rxActive' = ActiveAfter(rxSeg)
          /\ rxPc' = IF rxSeg.e /\ Len(rxBuf') = rxExpected' THEN "deliver" ELSE "idle"
    /\ rxSeg' = NoSeg
    /\ UNCHANGED <<localSeq, txInflight, messages, closed, c1Mu, sendVars, cancelled, tick, c2, peer, nSent, gap, outVars, rcvd>>

(* The blocking send on the messages channel, or the session closes. *)
DeliverMessage ==
    /\ rxPc = "deliver"
    /\ \/ /\ Len(messages) < Buffer
          /\ messages' = Append(messages, rxBuf)
       \/ /\ closed = "closed"
          /\ UNCHANGED messages
    /\ rxPc' = "idle"
    /\ rxBuf' = <<>>
    /\ UNCHANGED <<sessVars, rxActive, rxExpected, rxSeg, lastRx, closed, c1Mu, sendVars,
                   cancelled, tick, c2, peer, nSent, gap, outVars, rcvd>>

Peeked(q) == q

(* The channel after a receive. *)
Received(q) == Tail(q)

(* Receive takes the oldest completed message. *)
Receive ==
    /\ messages # <<>>
    /\ messages' = Received(messages)
    /\ rcvd' = Append(rcvd, Head(messages))
    /\ UNCHANGED <<sessVars, rxActive, rxExpected, rxBuf, rxPc, rxSeg, lastRx, closed, c1Mu,
                   sendVars, cancelled, tick, c2, peer, nSent, gap, outVars>>

-----------------------------------------------------------------------------
(* Close: first the connection, then closeSession with its broadcast (no mu
   is taken) and the disconnect, which ends what the peripheral can do. *)
CloseConn ==
    /\ "close" \in Faults
    /\ closed = "open"
    /\ closed' = "closing"
    /\ UNCHANGED <<sessVars, rxVars, c1Mu, sendVars, cancelled, tick, c2, peer, nSent,
                   gap, outVars, rcvd>>

CloseSession ==
    /\ closed = "closing"
    /\ closed' = "closed"
    /\ pc' = Broadcast(pc)
    /\ c2' = <<>>
    /\ UNCHANGED <<sessVars, rxVars, c1Mu, msg, left, segs, nextSeq, segAck, cancelled,
                   tick, peer, nSent, gap, outVars, rcvd>>

-----------------------------------------------------------------------------
Init ==
    /\ localSeq = 0 /\ txInflight = 0
    /\ hasPendingAck = FALSE /\ pendingAck = 0
    /\ rxActive = FALSE /\ rxExpected = 0 /\ rxBuf = <<>> /\ messages = <<>>
    /\ closed = "open" /\ c1Mu = Free
    /\ pc = [s \in Senders |-> "idle"]
    /\ msg = [s \in Senders |-> 0]
    /\ left = [s \in Senders |-> 0]
    /\ segs = [s \in Senders |-> 0]
    /\ nextSeq = [s \in Senders |-> 0]
    /\ segAck = [s \in Senders |-> NoAck]
    /\ cancelled = [s \in Senders |-> FALSE]
    /\ tick = NoTick
    /\ rxPc = "idle" /\ rxSeg = NoSeg /\ lastRx = 0
    /\ c2 = <<>> /\ peer = PeerInit
    /\ wire = [expect |-> 0, building |-> 0, ok |-> TRUE, missed |-> FALSE]
    /\ nSent = 0 /\ gap = FALSE /\ unacked = <<>> /\ rcvd = <<>>

SendStep(s) ==
    \/ Segment(s) \/ WaitFails(s) \/ WaitCanSend(s) \/ Park(s)
    \/ WriteFails(s) \/ WriteSegment(s) \/ MarkSent(s)

Next ==
    \/ \E s \in Senders : SendCall(s) \/ SendStep(s) \/ CtxDone(s)
    \/ StandaloneAck \/ WriteAck \/ RollbackStandaloneAck
    \/ ProcessAck \/ RecordSegment \/ DeliverMessage \/ Receive
    \/ CloseConn \/ CloseSession
    \/ PeerSend \/ PeerAck

Spec == Init /\ [][Next]_vars

(* The scheduler runs every goroutine that can run, sync.Mutex starves no
   one, the pump keeps calling Receive and the peripheral pays the
   acknowledgements it owes. A standalone ack that is tried on every tick does
   not fail each time. Callers, faults and Close are never forced. *)
Fairness ==
    /\ \A s \in Senders : WF_vars(SendStep(s)) /\ SF_vars(Segment(s))
    /\ SF_vars(StandaloneAck) /\ WF_vars(WriteAck \/ RollbackStandaloneAck)
    /\ SF_vars(WriteAck)
    /\ WF_vars(ProcessAck) /\ WF_vars(RecordSegment) /\ WF_vars(DeliverMessage)
    /\ WF_vars(Receive) /\ WF_vars(CloseSession)
    /\ WF_vars(PeerAck)

FairSpec == Spec /\ Fairness

-----------------------------------------------------------------------------
Peers ==
    [expect : SeqNums, ok : BOOLEAN, building : Nat, got : Seq(Nat), owes : BOOLEAN,
     last : SeqNums, seq : SeqNums, unacked : Seq(SeqNums), nSent : Nat, left : Nat,
     len : Nat, badAck : BOOLEAN]

Indications ==
    [b : BOOLEAN, e : BOOLEAN, data : BOOLEAN, msg : Nat, len : Nat, seq : SeqNums,
     ack : SeqNums \cup {NoAck}]

SegmentPcs == {"idle", "lock", "check", "parking", "asleep", "write", "mark"}

(* Type invariant. The bound on txInflight is the code's own count of the
   window: markSent never takes it past what waitCanSend allowed. *)
TypeOK ==
    /\ localSeq \in SeqNums
    /\ txInflight \in 0 .. WindowSize
    /\ hasPendingAck \in BOOLEAN
    /\ pendingAck \in SeqNums
    /\ rxActive \in BOOLEAN
    /\ rxExpected \in Nat
    /\ rxBuf \in Seq(Nat)
    /\ messages \in Seq(Seq(Nat))
    /\ closed \in {"open", "closing", "closed"}
    /\ c1Mu \in Senders \cup {Free, Timer}
    /\ pc \in [Senders -> SegmentPcs]
    /\ msg \in [Senders -> Nat]
    /\ left \in [Senders -> 0 .. MaxSegs]
    /\ segs \in [Senders -> 0 .. MaxSegs]
    /\ nextSeq \in [Senders -> SeqNums]
    /\ segAck \in [Senders -> SeqNums \cup {NoAck}]
    /\ cancelled \in [Senders -> BOOLEAN]
    /\ tick \in [on : BOOLEAN, ack : SeqNums, seq : SeqNums]
    /\ rxPc \in {"idle", "record", "deliver"}
    /\ nSent \in Nat
    /\ gap \in BOOLEAN
    /\ wire \in [expect : SeqNums, building : Nat, ok : BOOLEAN, missed : BOOLEAN]
    /\ unacked \in Seq([seq : SeqNums, data : BOOLEAN])
    /\ rcvd \in Seq(Seq(Nat))
    /\ lastRx \in SeqNums
    /\ c2 \in Seq(Indications)
    /\ rxSeg \in Indications
    /\ peer \in Peers

(* As long as no Send has given up between segment() and its last write, what
   is written to C1 has strictly sequential numbers and whole messages: neither
   a second Send nor the ack ticker gets between the segments of a message
   (ble.go, Send and startAckTimer under c1Mu), and a standalone ack whose
   write failed gives its number back (btp.go, rollbackStandaloneAck). The
   peripheral takes it all if the stack has lost none of these writes; nothing
   in the code finds out about one that was lost or sends it again. *)
SequentialWrites == ~gap => /\ wire.ok
                            /\ ~wire.missed => peer.ok

(* Every acknowledgement written to C1 names an indication that the
   peripheral has sent and that was not acknowledged before: piggybacking,
   the ticker, and the rollback of a failed ticker write never acknowledge
   twice and never ahead (btp.go, buildSegment, standaloneAck). *)
ValidAcks == ~peer.badAck

(* A delivered message is whole when all its segments come from one. *)
Whole(m) == \A i \in 1 .. Len(m) : m[i] = m[1]

Inbound == INSTANCE LossyFifo
    WITH nSent <- peer.nSent,
         rcvd <- [i \in 1 .. Len(rcvd) |-> IF Whole(rcvd[i]) THEN rcvd[i][1] ELSE 0]

(* handleSegment and Receive implement the datagram channel that
   transport.Conn promises for what the peripheral sends: every message that
   comes out is one it sent, whole, at most once and in order. *)
InboundFifo == Inbound!Spec

(* Every indication is acknowledged, with nothing to send in the other
   direction too: the purpose of startAckTimer (ble.go, step 9 of DialBLE). It
   fails only when a Send waits for the window for good, holding the lock that
   the ticker needs; when a Send has given up with numbers taken, and perhaps
   the pending acknowledgement; when the stack lost a write; when a failed
   ticker write put an older acknowledgement back over a newer one; or when the
   connection is closed. An acknowledgement covers the oldest indication first:
   each is covered when there is always another one, or none is left. *)
Acknowledged == Len(peer'.unacked) < Len(peer.unacked)

AckForgotten == hasPendingAck /\ pendingAck # lastRx

AcksArrive ==
    \/ []<>(peer.unacked = <<>>)
    \/ []<><<Acknowledged>>_vars
    \/ \E s \in Senders : <>[](pc[s] = "asleep")
    \/ <>(gap \/ wire.missed \/ AckForgotten \/ closed # "open")

(* Every message the peripheral has sent completely is returned by Receive,
   unless the connection is closed: reassembly never wedges, also when the
   channel was full (btp.go, handleSegment). *)
SentWhole(m) == peer.nSent > m \/ (peer.nSent = m /\ peer.left = 0)

Returned(m) == \E i \in 1 .. Len(rcvd) : rcvd[i] # <<>> /\ rcvd[i][1] = m

MessagesArrive ==
    []<>(closed # "open" \/ \A m \in 1 .. MaxRecv : SentWhole(m) => Returned(m))

-----------------------------------------------------------------------------
(* What comments of the code say and the code does not do: TLC finds each of
   them violated. *)

(* btp.go, btpDefaultWindowSize: the window is "the maximum number of
   unacknowledged outgoing segments". *)
WindowRespected == Len(SelectSeq(unacked, LAMBDA x : x.data)) <= WindowSize

(* btp.go, waitCanSend: it waits "until the TX flow-control window has room".
   A Send that has been called returns, if the peripheral acknowledges what
   it receives. *)
SendReturns == \A s \in Senders : pc[s] = "lock" ~> pc[s] = "idle"

(* btp.go, field pendingAck: "the most recent peer sequence number that
   needs acking". *)
PendingAckIsLatest == hasPendingAck => pendingAck = lastRx

(* btp.go, closeSession: it is "unblocking any goroutine waiting in
   waitCanSend". *)
CloseUnblocks == \A s \in Senders : closed = "closed" ~> pc[s] # "asleep"

(* btp.go, rollbackStandaloneAck: a gap in the sequence numbers "would make
   the peer reject every subsequent segment", so there must be none. *)
NoSequenceGap == peer.ok
=============================================================================
