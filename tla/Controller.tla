----------------------------- MODULE Controller -----------------------------
(***************************************************************************)
(* The controller (internal/controller): the session table, the transport  *)
(* it reads and writes, the message pump, and the operations that replace  *)
(* them: PASE over BLE through a sub-controller, the change from BLE to IP *)
(* for CASE, CASE with rediscovery, Close.                                 *)
(*                                                                         *)
(* One goroutine (the caller) works through a plan: "case" is what the     *)
(* daemon and the commands do for a commissioned node, "pase" and "ble"    *)
(* are commissioning over IP and over Bluetooth. It has one exchange at a  *)
(* time. The pumps, the network and the devices run beside it. A stack is  *)
(* a session table with its exchange manager; a sub-controller makes a new *)
(* one, which the controller then takes over.                              *)
(*                                                                         *)
(* Datagrams are lost, late, reordered and, from devices that miss the     *)
(* acknowledgement, repeated. Nothing here retransmits on our side.        *)
(***************************************************************************)
EXTENDS SecureChannel, FiniteSets

CONSTANTS
    Addrs,      \* IP addresses
    Target,     \* the device meant
    UserCode,   \* the passcode the user gives
    Home,       \* the stored (or advertised) address of the target
    Plans,      \* which of "case", "pase", "ble"
    NumSIDs,    \* session IDs are 1..NumSIDs (65535 in the code)
    MaxBLE,     \* bound: BLE connections
    MaxCASE,    \* bound: attempts at CASE
    MaxMoves, MaxRepeats, MaxRejects    \* bounds on the environment

Stacks == 1..(MaxBLE + 1)
Conns  == 1..(2 * MaxBLE + 1)
Pumps  == {"main", "sub"}

ASSUME ControllerAssumption ==
    /\ Target \in Nodes /\ Home \in Addrs /\ None \notin Nodes
    /\ NumSIDs \in Nat \ {0} /\ MaxBLE \in Nat /\ MaxCASE \in Nat
    /\ Plans \subseteq {"case", "pase", "ble"}

VARIABLES
    plan, pc,
    conn,       \* Controller.conn: [id, kind]
    open,       \* transports that are open
    nConn,      \* transports made so far
    stack,      \* Controller.sessions and .exchanges
    peerAddr,   \* Controller.peerAddr
    hasCancel,  \* Controller.cancel # nil
    pump,       \* the two pumps: state, transport, stack, cancelled
    bleConn,    \* bleSessionEstablisher.bleConn
    table,      \* per stack: the sessions by ID
    nextID,     \* per stack: SessionTable.nextID
    ex,         \* the caller's exchange
    nextEx,     \* ExchangeManager.nextID
    hs,         \* the handshake in progress
    session,    \* the session the caller works with: <<stack, id>>
    tries,      \* attempts at CASE so far
    nRand,      \* randomness used
    net,        \* datagrams and BLE messages on their way
    dev,        \* per device: handshake in progress, sessions accepted
    at,         \* where each address leads
    env,        \* what the environment has done: [moves, repeats, rejects]
    garbage     \* history: ciphertext was dispatched without decryption

ctlVars  == <<conn, open, nConn, stack, peerAddr, hasCancel, bleConn>>
sessVars == <<table, nextID, ex, nextEx, hs, session, tries, nRand>>
devVars  == <<dev, at, env>>
vars == <<plan, pc, ctlVars, pump, sessVars, net, devVars, garbage>>

NoEx == [open |-> FALSE, stack |-> 0, id |-> 0, sid |-> 0, inbox |-> <<>>]
Off  == [st |-> "off", conn |-> 0, stack |-> 0, cancelled |-> FALSE]

BleAddr == "ble"

Init ==
    /\ plan \in Plans
    /\ pc = "start"
    /\ conn = [id |-> 1, kind |-> "udp"] /\ open = {1} /\ nConn = 1
    /\ stack = 1 /\ peerAddr = None /\ hasCancel = FALSE /\ bleConn = 0
    /\ pump = [p \in Pumps |-> Off]
    /\ table = [s \in Stacks |-> <<>>]
    /\ nextID = [s \in Stacks |-> 1]
    /\ ex = NoEx /\ nextEx = 1 /\ hs = None /\ session = <<0, 0>>
    /\ tries = 0 /\ nRand = 0
    /\ net = {}
    /\ dev = [n \in Nodes |-> [log |-> <<>>, eid |-> 0, sess |-> {}]]
    /\ at \in {[a \in Addrs |-> IF a = Home THEN Target ELSE n] :
                 n \in (Nodes \cup {None}) \ {Target}}
    /\ env = [moves |-> 0, repeats |-> 0, rejects |-> 0]
    /\ garbage = FALSE

-----------------------------------------------------------------------------
(* The session table *)

IDs(s) == DOMAIN table[s]

FreeIDs(s) == {i \in 1..NumSIDs : i \notin IDs(s)}

(* CreateSession tries nextID, nextID + 1, ... round to 1. *)
NextFree(s) == CHOOSE i \in FreeIDs(s) :
                  \A j \in FreeIDs(s) : (i - nextID[s]) % NumSIDs <= (j - nextID[s]) % NumSIDs

WithSession(s, i, rec) ==
    [table EXCEPT ![s] = [j \in IDs(s) \cup {i} |-> IF j = i THEN rec ELSE table[s][j]]]

RemoveSessionKept(s, i) == table

RemoveSession(s, i) == [table EXCEPT ![s] = [j \in IDs(s) \ {i} |-> table[s][j]]]

Unsecured == [proto |-> "Unsecured", peer |-> 0, key |-> NoKey, node |-> None]

(* GetSession, with the fall-back to the unsecured session. *)
Lookup(s, i) == IF i \in IDs(s) THEN table[s][i] ELSE Unsecured

-----------------------------------------------------------------------------
(* Sending *)

EncodeCASEOnly(sess, body) ==
    [key |-> IF sess.proto = "CASE" THEN sess.key ELSE NoKey, body |-> body]

(* Codec.Encode: plaintext unless the session is secured and has its key. *)
Encode(sess, body) ==
    [key |-> IF sess.proto # "Unsecured" THEN sess.key ELSE NoKey, body |-> body]

(* sendMessage of the controller (or sub-controller) that owns stack s, on
   transport c, to addr. *)
sendMessage(s, c, addr, body) ==
    LET sess == Lookup(s, ex.sid)
    IN  net' = net \cup
          {[dir |-> "out", conn |-> c, addr |-> addr, sid |-> sess.peer, lsid |-> ex.sid,
            eid |-> ex.id, wire |-> Encode(sess, body)]}

-----------------------------------------------------------------------------
(* The message pump *)

(* startMessagePump *)
Started(s, c) == [st |-> "recv", conn |-> c, stack |-> s, cancelled |-> FALSE]

(* The stack a pump dispatches to: the controller's fields are read anew. *)
StackOf(p) == IF p = "main" THEN stack ELSE pump[p].stack
ConnOf(p)  == IF p = "main" THEN conn.id ELSE pump[p].conn

(* Codec.Decode: a secured session opens the box or the message is dropped. *)
Decodes(sess, m) ==
    sess.proto = "Unsecured" \/ sess.key = NoKey \/ sess.key = m.wire.key

Undecrypted(sess, m) == m.wire.key # NoKey /\ (sess.key = NoKey \/ sess.key # m.wire.key)

(* The transport a pump is reading: its Receive returns m, or, once the
   transport is closed, an error. *)
Receives(p, m) == m.dir = "in" /\ m.conn = pump[p].conn /\ pump[p].conn \in open

(* One turn of runMessagePump: the message's source becomes the peer address,
   the header's session ID chooses the key, the exchange gets the message. *)
PumpDispatch(p) ==
    /\ pump[p].st = "recv"
    /\ \E m \in net :
         LET sess == Lookup(StackOf(p), m.lsid)
         IN  /\ Receives(p, m)
             /\ net' = net \ {m}
             /\ peerAddr' = IF p = "main" THEN m.addr ELSE peerAddr
             /\ garbage' = (garbage \/ (Decodes(sess, m) /\ Undecrypted(sess, m)))
             /\ ex' = IF /\ Decodes(sess, m)
                         /\ ex.open /\ ex.stack = StackOf(p)
                         /\ ex.id = m.eid /\ ex.sid = m.lsid
                      THEN [ex EXCEPT !.inbox = Append(@, m.wire.body)]
                      ELSE ex
    /\ pump' = [pump EXCEPT ![p].conn = ConnOf(p)]
    /\ UNCHANGED <<plan, pc, conn, open, nConn, stack, hasCancel, bleConn, table, nextID,
                   nextEx, hs, session, tries, nRand, devVars>>

(* Receive returns because of the context, or because the transport is closed:
   then the exchanges are closed too. *)
PumpStops(p) ==
    /\ pump[p].st = "recv"
    /\ pump[p].cancelled \/ pump[p].conn \notin open
    /\ pump' = [pump EXCEPT ![p].st = "ended"]
    /\ ex' = IF ~pump[p].cancelled /\ ex.stack = StackOf(p)
             THEN [ex EXCEPT !.open = FALSE] ELSE ex
    /\ UNCHANGED <<plan, pc, ctlVars, table, nextID, nextEx, hs, session, tries, nRand,
                   net, devVars, garbage>>

-----------------------------------------------------------------------------
(* ConnectPASE, connectPASEWithAddr, ConnectCASE: a session is allocated and
   an exchange opened before the first message. *)

WithExchange(s, i) ==
    /\ ex' = [open |-> TRUE, stack |-> s, id |-> nextEx, sid |-> i, inbox |-> <<>>]
    /\ nextEx' = nextEx + 1

BeginHandshake(proto, s, node) ==
    IF FreeIDs(s) = {}
    THEN /\ pc' = "lost"
         /\ UNCHANGED <<table, nextID, nRand, hs, session, ex, nextEx>>
    ELSE LET i == NextFree(s)
         IN  /\ table' = WithSession(s, i, [proto |-> proto, peer |-> 0, key |-> NoKey,
                                            node |-> node])
             /\ nextID' = [nextID EXCEPT ![s] = (i % NumSIDs) + 1]
             /\ nRand' = nRand + 1
             /\ hs' = IF proto = "PASE" THEN PASEInitiatorNew(UserCode, i, nRand)
                                        ELSE CASEInitiatorNew(node, i, nRand)
             /\ session' = <<s, i>>
             /\ WithExchange(s, 0)
             /\ pc' = "send"

StartPumpIfNone ==
    IF hasCancel THEN UNCHANGED <<pump, hasCancel>>
    ELSE /\ pump' = [pump EXCEPT !["main"] = Started(stack, conn.id)]
         /\ hasCancel' = TRUE

ConnectPASE ==
    /\ plan = "pase" /\ pc = "start"
    /\ peerAddr' = Home
    /\ StartPumpIfNone
    /\ BeginHandshake("PASE", stack, Target)
    /\ UNCHANGED <<plan, conn, open, nConn, stack, bleConn, tries, net, devVars, garbage>>

ConnectCASE(addr) ==
    /\ tries < MaxCASE
    /\ tries' = tries + 1
    /\ peerAddr' = addr
    /\ StartPumpIfNone
    /\ BeginHandshake("CASE", stack, Target)
    /\ UNCHANGED <<plan, conn, open, nConn, stack, bleConn, net, devVars, garbage>>

(* The handshake runs on the sub-controller during PASE over BLE. *)
OnSub == pump["sub"].st # "off"

SendHandshake ==
    /\ pc = "send"
    /\ pc' = "wait"
    /\ IF OnSub THEN sendMessage(pump["sub"].stack, pump["sub"].conn, BleAddr, hs.log[Len(hs.log)])
                ELSE sendMessage(stack, conn.id, peerAddr, hs.log[Len(hs.log)])
    /\ UNCHANGED <<plan, ctlVars, pump, sessVars, devVars, garbage>>

(* The failure path: the session is removed, the exchange closed. *)
FailHandshake ==
    /\ table' = RemoveSession(session[1], session[2])
    /\ ex' = NoEx
    /\ hs' = None
    /\ session' = <<0, 0>>
    /\ pc' = IF OnSub THEN "subFailed" ELSE "lost"
    /\ UNCHANGED <<nextID, nextEx, tries, nRand>>

(* exchange.Receive: a message, then what the handshake makes of it. On
   success the keys are put into the session, which the pump can see. *)
ReceiveHandshake ==
    /\ pc = "wait" /\ ex.inbox # <<>>
    /\ LET m == Head(ex.inbox)
           r == Establish(hs, m)
       IN  IF r.send # None
           THEN /\ hs' = [hs EXCEPT !.log = Append(Append(@, m), r.send)]
                /\ ex' = [ex EXCEPT !.inbox = Tail(@)]
                /\ pc' = "send"
                /\ UNCHANGED <<table, nextID, nextEx, session, tries, nRand>>
           ELSE IF r.done
           THEN /\ table' = [table EXCEPT ![session[1]][session[2]] =
                               [@ EXCEPT !.peer = PeerSessionID(hs), !.key = SessionKeys(hs)]]
                /\ ex' = NoEx /\ hs' = None
                /\ pc' = IF OnSub THEN "subDone" ELSE "ready"
                /\ UNCHANGED <<nextID, nextEx, session, tries, nRand>>
           ELSE FailHandshake
    /\ UNCHANGED <<plan, ctlVars, pump, net, devVars, garbage>>

(* The deadline, or the exchange closed by the pump and read to its end. *)
HandshakeTimesOut ==
    /\ pc = "wait"
    /\ FailHandshake
    /\ UNCHANGED <<plan, ctlVars, pump, net, devVars, garbage>>

-----------------------------------------------------------------------------
(* An operation on the session the caller holds (interaction client). *)

BeginOp ==
    /\ pc = "ready" /\ ~ex.open
    /\ WithExchange(session[1], session[2])
    /\ pc' = "opsend"
    /\ UNCHANGED <<plan, ctlVars, pump, table, nextID, hs, session, tries, nRand, net,
                   devVars, garbage>>

SendOp ==
    /\ pc = "opsend"
    /\ sendMessage(stack, conn.id, peerAddr, [op |-> "Invoke"])
    /\ pc' = "opwait"
    /\ UNCHANGED <<plan, ctlVars, pump, sessVars, devVars, garbage>>

(* An answer, a deadline or a closed exchange: each ends the operation. *)
EndOp ==
    /\ pc = "opwait"
    /\ ex' = NoEx
    /\ pc' = IF ex.inbox # <<>> THEN "opdone" ELSE "oplost"
    /\ UNCHANGED <<plan, ctlVars, pump, table, nextID, nextEx, hs, session, tries, nRand,
                   net, devVars, garbage>>

Holds(proto) == session[1] # 0 /\ table[session[1]][session[2]].proto = proto

-----------------------------------------------------------------------------
(* PASE over BLE *)

(* ConnectPASEoverBLE up to the handshake: the link is dialled, a
   sub-controller made with a stack and a pump of its own. *)
ConnectPASEoverBLE ==
    /\ plan = "ble"
    /\ pc = "start" \/ (pc = "oplost" /\ Holds("PASE"))
    /\ stack <= MaxBLE /\ nConn < 2 * MaxBLE
    /\ LET c == nConn + 1  s == stack + 1
       IN  /\ open' = open \cup {c}
           /\ nConn' = c
           /\ pump' = [pump EXCEPT !["sub"] = Started(s, c)]
           /\ BeginHandshake("PASE", s, Target)
    /\ UNCHANGED <<plan, conn, stack, peerAddr, hasCancel, bleConn, tries, net, devVars,
                   garbage>>

StopSubPumpNotWaited ==
    /\ pc \in {"subDone", "subFailed"}
    /\ UNCHANGED pump
    /\ open' = IF pc = "subFailed" THEN open \ {pump["sub"].conn} ELSE open
    /\ pc' = IF pc = "subFailed" THEN "end" ELSE "migrate"
    /\ UNCHANGED <<plan, conn, nConn, stack, peerAddr, hasCancel, bleConn, sessVars, net,
                   devVars, garbage>>

(* The sub-controller's pump is stopped and waited for, after failure the
   link is closed as well. *)
StopSubPump ==
    /\ pc \in {"subDone", "subFailed"}
    /\ IF pump["sub"].st = "recv"
       THEN /\ pump' = [pump EXCEPT !["sub"].cancelled = TRUE]
            /\ ~pump["sub"].cancelled
            /\ UNCHANGED <<pc, open>>
       ELSE /\ pump' = [pump EXCEPT !["sub"] = Off]
            /\ open' = IF pc = "subFailed" THEN open \ {pump["sub"].conn} ELSE open
            /\ pc' = IF pc = "subFailed" THEN "end" ELSE "migrate"
    /\ UNCHANGED <<plan, conn, nConn, stack, peerAddr, hasCancel, bleConn, sessVars, net,
                   devVars, garbage>>

(* The controller takes over transport, sessions and exchanges. *)
Migrate ==
    /\ pc = "migrate"
    /\ conn' = [id |-> nConn, kind |-> "ble"]
    /\ stack' = session[1]
    /\ peerAddr' = BleAddr
    /\ bleConn' = nConn
    /\ pc' = "stopMain"
    /\ UNCHANGED <<plan, open, nConn, hasCancel, pump, sessVars, net, devVars, garbage>>

(* Cancel the pump that ran before, wait for it, start one on the new link. *)
RestartPump ==
    /\ pc = "stopMain"
    /\ IF hasCancel /\ pump["main"].st = "recv"
       THEN /\ ~pump["main"].cancelled
            /\ pump' = [pump EXCEPT !["main"].cancelled = TRUE]
            /\ UNCHANGED <<pc, hasCancel>>
       ELSE /\ pump' = [pump EXCEPT !["main"] = Started(stack, conn.id)]
            /\ hasCancel' = TRUE
            /\ pc' = "ready"
    /\ UNCHANGED <<plan, conn, open, nConn, stack, peerAddr, bleConn, sessVars, net, devVars,
                   garbage>>

-----------------------------------------------------------------------------
(* CASE *)

(* bleSessionEstablisher.EstablishCASE: stop the pump, close the link, make a
   UDP transport. On a second attempt there is nothing left to do. *)
EstablishCASEoverIP ==
    /\ plan = "ble" /\ pc = "opdone"
    /\ Holds("PASE")
    /\ IF bleConn = 0
       THEN /\ pc' = "watch"
            /\ UNCHANGED <<conn, open, nConn, hasCancel, bleConn, pump>>
       ELSE IF hasCancel /\ pump["main"].st = "recv"
       THEN /\ ~pump["main"].cancelled
            /\ pump' = [pump EXCEPT !["main"].cancelled = TRUE]
            /\ UNCHANGED <<pc, conn, open, nConn, hasCancel, bleConn>>
       ELSE /\ hasCancel' = FALSE
            /\ nConn' = nConn + 1
            /\ conn' = [id |-> nConn + 1, kind |-> "udp"]
            /\ open' = (open \ {bleConn}) \cup {nConn + 1}
            /\ bleConn' = 0
            /\ pc' = "watch"
            /\ UNCHANGED pump
    /\ UNCHANGED <<plan, stack, peerAddr, sessVars, net, devVars, garbage>>

(* Operational discovery finds the device where it is now, or nothing. *)
WatchOperational ==
    /\ pc \in {"watch", "resolve"}
    /\ \/ \E a \in Addrs : at[a] = Target /\ ConnectCASE(a)
       \/ /\ pc' = "end"
          /\ UNCHANGED <<plan, ctlVars, pump, sessVars, net, devVars, garbage>>

(* The first attempt of ConnectCASEWithRediscovery, and CASE on the address
   that PASE used. *)
DialStored ==
    /\ \/ plan = "case" /\ pc = "start"
       \/ plan = "pase" /\ pc = "opdone" /\ Holds("PASE")
    /\ ConnectCASE(Home)

(* After a failed handshake: rediscovery, another attempt, or the end. *)
AfterFailure ==
    /\ pc = "lost"
    /\ pc' = CASE plan = "case" /\ tries = 1 -> "resolve"
               [] plan = "ble" /\ tries < MaxCASE -> "watch"
               [] OTHER -> "end"
    /\ UNCHANGED <<plan, ctlVars, pump, sessVars, net, devVars, garbage>>

(* The caller is done, or could not dial, and closes the controller. *)
GiveUp ==
    /\ \/ pc = "oplost"
       \/ pc = "start" /\ plan = "ble"
       \/ pc = "opdone" /\ Holds("CASE")
    /\ pc' = "end"
    /\ UNCHANGED <<plan, ctlVars, pump, sessVars, net, devVars, garbage>>

CloseNotCancelled ==
    /\ pc = "end"
    /\ pump["main"].st # "recv"
    /\ open' = open \ {conn.id}
    /\ pc' = "closed"
    /\ UNCHANGED <<plan, conn, nConn, stack, peerAddr, hasCancel, bleConn, pump, sessVars, net,
                   devVars, garbage>>

Close ==
    /\ pc = "end"
    /\ IF hasCancel /\ pump["main"].st = "recv"
       THEN /\ ~pump["main"].cancelled
            /\ pump' = [pump EXCEPT !["main"].cancelled = TRUE]
            /\ UNCHANGED <<pc, open>>
       ELSE /\ open' = open \ {conn.id}
            /\ pc' = "closed"
            /\ UNCHANGED pump
    /\ UNCHANGED <<plan, conn, nConn, stack, peerAddr, hasCancel, bleConn, sessVars, net,
                   devVars, garbage>>

-----------------------------------------------------------------------------
(* Devices and network (external) *)

Reaches(m, n) == IF m.addr = BleAddr THEN n = Target /\ m.conn \in open
                 ELSE m.addr \in Addrs /\ at[m.addr] = n

Answer(m, n, body, key) ==
    net' = (net \ {m}) \cup
           {[dir |-> "in", conn |-> m.conn, addr |-> m.addr, sid |-> 0, lsid |-> m.lsid,
             eid |-> m.eid, wire |-> [key |-> key, body |-> body]]}

(* A device starts a handshake meant for it, and refuses another's. *)
DeviceStarts(n, m) ==
    LET b == m.wire.body
        mine == b.op = "PBKDFParamRequest"
                  \/ b.dest = ComputeDestinationID(b.rand, FabricOf[n], n)
        fresh == 100 + b.rand       \* no request is answered twice
        r == IF b.op = "Sigma1" THEN CASERespondSigma1(n, b, fresh)
                                ELSE PASERespondRequest(n, b, fresh)
    IN  /\ b.op \in {"PBKDFParamRequest", "Sigma1"}
        /\ IF mine
           THEN /\ dev' = [dev EXCEPT ![n].log = <<b, r>>, ![n].eid = m.eid]
                /\ Answer(m, n, r, NoKey)
           ELSE /\ Answer(m, n, Status(FALSE), NoKey)
                /\ UNCHANGED dev
        /\ UNCHANGED env

DeviceContinues(n, m) ==
    LET b == m.wire.body
        log == dev[n].log
        r == PASERespondPAKE1(n, log, b)
    IN  /\ b.op = "PAKE1" /\ Len(log) = 2 /\ dev[n].eid = m.eid
        /\ dev' = [dev EXCEPT ![n].log = log \o <<b, r>>]
        /\ Answer(m, n, r, NoKey)
        /\ UNCHANGED env

DeviceEnds(n, m) ==
    LET b == m.wire.body
        log == Append(dev[n].log, b)
        case == b.op = "Sigma3"
        ok == IF case THEN CASERespondSigma3(n, dev[n].log, b)
                      ELSE PASERespondPAKE3(n, dev[n].log, b)
        keys == IF case THEN CASESessionKeys(FabricOf[n], log)
                        ELSE PASESessionKeys(dev[n].log, Passcode[n])
        accepted == [proto |-> IF case THEN "CASE" ELSE "PASE", key |-> keys,
                     isid |-> log[1].sid, rsid |-> log[2].sid]
    IN  /\ b.op \in {"PAKE3", "Sigma3"} /\ dev[n].eid = m.eid
        /\ Len(dev[n].log) = (IF case THEN 2 ELSE 4)
        /\ \/ /\ ok
              /\ dev' = [dev EXCEPT ![n].log = <<>>, ![n].sess = @ \cup {accepted}]
              /\ Answer(m, n, Status(TRUE), NoKey)
              /\ UNCHANGED env
           \/ /\ ~ok \/ env.rejects < MaxRejects
              /\ dev' = [dev EXCEPT ![n].log = <<>>]
              /\ Answer(m, n, Status(FALSE), NoKey)
              /\ env' = IF ok THEN [env EXCEPT !.rejects = @ + 1] ELSE env

(* A request on a session is answered by the device that has it. *)
DeviceServes(n, m) ==
    /\ m.wire.body.op = "Invoke"
    /\ \E d \in dev[n].sess : d.rsid = m.sid /\ d.key = m.wire.key
    /\ Answer(m, n, [op |-> "InvokeResponse"], m.wire.key)
    /\ UNCHANGED <<dev, env>>

DeviceHandles(n) ==
    /\ \E m \in net :
         /\ m.dir = "out" /\ Reaches(m, n)
         /\ \/ DeviceStarts(n, m)
            \/ DeviceContinues(n, m)
            \/ DeviceEnds(n, m)
            \/ DeviceServes(n, m)
    /\ UNCHANGED <<plan, pc, ctlVars, pump, sessVars, at, garbage>>

(* A device on IP repeats an answer whose acknowledgement it misses. *)
DeviceRepeats ==
    /\ env.repeats < MaxRepeats
    /\ \E m \in net :
         /\ m.dir = "in" /\ m.addr # BleAddr
         /\ net' = net \cup {[m EXCEPT !.sid = env.repeats + 1]}
    /\ env' = [env EXCEPT !.repeats = @ + 1]
    /\ UNCHANGED <<plan, pc, ctlVars, pump, sessVars, dev, at, garbage>>

DeviceMoves ==
    /\ env.moves < MaxMoves
    /\ \E a, b \in Addrs :
         /\ at[a] = Target /\ a # b
         /\ at' = [at EXCEPT ![a] = at[b], ![b] = Target]
    /\ env' = [env EXCEPT !.moves = @ + 1]
    /\ UNCHANGED <<plan, pc, ctlVars, pump, sessVars, dev, net, garbage>>

(* The Bluetooth link of the controller goes down. *)
LinkDrops ==
    /\ bleConn # 0 /\ bleConn \in open
    /\ open' = open \ {bleConn}
    /\ UNCHANGED <<plan, pc, conn, nConn, stack, peerAddr, hasCancel, bleConn, pump, sessVars,
                   net, devVars, garbage>>

-----------------------------------------------------------------------------
Caller ==
    \/ ConnectPASE \/ SendHandshake \/ ReceiveHandshake \/ HandshakeTimesOut
    \/ BeginOp \/ SendOp \/ EndOp
    \/ ConnectPASEoverBLE \/ StopSubPump \/ Migrate \/ RestartPump
    \/ EstablishCASEoverIP \/ WatchOperational \/ DialStored \/ AfterFailure
    \/ GiveUp \/ Close

PumpStep(p) == PumpDispatch(p) \/ PumpStops(p)

Next ==
    \/ Caller
    \/ \E p \in Pumps : PumpStep(p)
    \/ \E n \in Nodes : DeviceHandles(n)
    \/ DeviceRepeats \/ DeviceMoves \/ LinkDrops

Spec == Init /\ [][Next]_vars

(* The caller's goroutine and the pumps are scheduled, and a deadline that has
   passed fires; the devices and the network owe nothing. *)
FairSpec == Spec /\ WF_vars(Caller) /\ \A p \in Pumps : WF_vars(PumpStops(p))

-----------------------------------------------------------------------------
(* Properties *)

(* No two pumps read one transport: they would take each other's messages
   (the comment in ConnectPASEoverBLE). *)
OneReader ==
    \A p, q \in Pumps :
      /\ p # q
      /\ pump[p].st = "recv" /\ pump[q].st = "recv"
      => pump[p].conn # pump[q].conn

(* A session in the table that has keys shares them with no device but the
   one it was made for, and both ends agree on each other's session ID. *)
SharedWithPeer ==
    \A s \in Stacks : \A i \in IDs(s) :
      LET e == table[s][i]
      IN  e.key # NoKey =>
            \A n \in Nodes : \A d \in dev[n].sess :
              d.proto = e.proto /\ d.key = e.key => n = e.node /\ d.isid = i /\ d.rsid = e.peer

(* Once a connect operation has returned nothing of a failed one is left: no
   session without keys, no exchange. *)
NothingHalfOpen ==
    pc \in {"ready", "lost", "resolve", "watch", "opdone", "oplost", "end", "closed"} =>
      /\ ~ex.open
      /\ \A i \in IDs(stack) : table[stack][i].key # NoKey

(* A request goes out under the key of the session the caller holds, never in
   the clear through the fall-back to the unsecured session, and what the pump
   hands to an exchange has been decrypted with the key of the session it came
   on, also while transports and tables are exchanged (sendSecure, runPump). *)
Secured ==
    /\ ~garbage
    /\ \A m \in net : m.dir = "out" /\ m.wire.body.op = "Invoke" =>
         /\ m.wire.key # NoKey
         /\ ex.open /\ m.eid = ex.id => m.wire.key = table[session[1]][session[2]].key

(* Every connect operation returns, and Close returns with no pump left
   running. *)
CallerEnds == <>(pc = "closed")

(* "returns the established session keys" (EstablishCASE, EstablishPASE): the
   caller has a session only when the device has accepted it. Refuted: the
   content of the final StatusReport is not looked at. *)
AcceptedByPeer ==
    pc = "ready" =>
      \E n \in Nodes : \E d \in dev[n].sess :
        d.proto = table[session[1]][session[2]].proto /\ d.key = table[session[1]][session[2]].key
=============================================================================
