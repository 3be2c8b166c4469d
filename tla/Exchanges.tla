------------------------------ MODULE Exchanges ------------------------------
(***************************************************************************)
(* Exchanges of one controller: protocol.ExchangeManager (exchange.go), the *)
(* message pump that feeds it (controller.go, runMessagePump) and the      *)
(* goroutines that run operations on it (interaction.Client, the PASE and  *)
(* CASE handshakes), each with an exchange of its own.                     *)
(*                                                                         *)
(* ExchangeManager.mu is held within one step. The pump looks an exchange  *)
(* up under the lock and then works on it without: the test of the closed  *)
(* flag and the send into the channel are steps of their own.              *)
(*                                                                         *)
(* The device answers each message of an exchange once; the network loses, *)
(* delays, reorders and duplicates what it sends.                          *)
(***************************************************************************)
EXTENDS Integers, Sequences, FiniteSets

CONSTANTS
    Procs,      \* goroutines that run operations
    MaxOps,     \* bound: operations of one goroutine
    MaxSends,   \* bound: messages sent within one exchange
    NumIDs,     \* exchange IDs before nextID wraps: 2^16 in the code
    Cap,        \* capacity of Exchange.incoming: 8 in the code
    RemoteIDs,  \* exchange IDs the device uses for exchanges of its own
    MaxRemote,  \* bound: messages of the device in such an exchange
    MaxDups,    \* bound: datagrams the network duplicates
    None        \* no exchange, no message

ASSUME ExchangesAssumption ==
    /\ MaxOps \in Nat /\ MaxSends \in Nat /\ MaxRemote \in Nat /\ MaxDups \in Nat
    /\ NumIDs \in Nat \ {0}
    /\ Cap \in Nat \ {0}
    /\ RemoteIDs \subseteq 0 .. NumIDs - 1

IDs    == 0 .. NumIDs - 1

(* exchangeKey: exchanges of our own, and those of the device. *)
Keys   == [id : IDs, side : {"local"}] \cup [id : RemoteIDs, side : {"remote"}]

(* The exchanges a goroutine creates one after the other, and those the
   manager creates for the device. *)
Local  == Procs \X (1 .. MaxOps)
Remote == {"remote"} \X RemoteIDs
Objs   == Local \cup Remote

(* A message, by its exchange, the exchange it is meant for and its number. *)
Msgs   == [key : Keys, to : Objs, n : Nat]

ASSUME NoneAssumption == None \notin Objs /\ None \notin Msgs /\ "remote" \notin Procs

VARIABLES
    nextID,     \* ExchangeManager.nextID
    table,      \* ExchangeManager.exchanges: an exchange or None for each key
    id,         \* Exchange.ID
    incoming,   \* Exchange.incoming
    closed,     \* Exchange.closed, and the channel with it
    pc, op,     \* each goroutine: its control state, its current operation
    sends,      \* messages sent in each exchange
    got,        \* messages received from each exchange, in order
    pump,       \* "recv", "lookup", "check", "send", "stopped"
    msg, tgt,   \* the pump's message and the exchange it found
    conn,       \* "up", "lost" (peer gone), "closed" (Controller.Close)
    panicked,   \* the process died of a send on a closed channel
    net,        \* datagrams on their way from the device
    nRemote, nDups

procVars == <<pc, op, sends, got>>
pumpVars == <<pump, msg, tgt>>
netVars  == <<net, nRemote, nDups>>
vars == <<nextID, table, id, incoming, closed, procVars, pumpVars, conn, panicked, netVars>>

Cur(p) == <<p, op[p]>>

(* exchangeKey *)
Key(o) == [id |-> id[o], side |-> IF o \in Local THEN "local" ELSE "remote"]

Go(p, l) == pc' = [pc EXCEPT ![p] = l]

-----------------------------------------------------------------------------
(* The owner of an exchange *)

NewExchangeSameID(p) ==
    /\ pc[p] = "idle"
    /\ op[p] < MaxOps
    /\ LET o == <<p, op[p] + 1>>
       IN /\ id' = [id EXCEPT ![o] = nextID]
          /\ table' = [table EXCEPT ![[id |-> nextID, side |-> "local"]] = o]
    /\ UNCHANGED nextID
    /\ op' = [op EXCEPT ![p] = @ + 1]
    /\ Go(p, "send")
    /\ UNCHANGED <<incoming, closed, sends, got, pumpVars, conn, panicked, netVars>>

(* NewExchange. With the ID taken from a counter, the entry of an exchange
   that has the same ID is replaced. *)
NewExchange(p) ==
    /\ pc[p] = "idle"
    /\ op[p] < MaxOps
    /\ LET o == <<p, op[p] + 1>>
       IN /\ id' = [id EXCEPT ![o] = nextID]
          /\ table' = [table EXCEPT ![[id |-> nextID, side |-> "local"]] = o]
    /\ nextID' = (nextID + 1) % NumIDs
    /\ op' = [op EXCEPT ![p] = @ + 1]
    /\ Go(p, "send")
    /\ UNCHANGED <<incoming, closed, sends, got, pumpVars, conn, panicked, netVars>>

(* Exchange.Send: on a connection that is gone the operation gives up. *)
Send(p) ==
    /\ pc[p] = "send"
    /\ LET o == Cur(p)
       IN IF conn = "up"
          THEN /\ sends' = [sends EXCEPT ![o] = sends[o] + 1]
               /\ net' = net \cup {[key |-> Key(o), to |-> o, n |-> sends[o] + 1]}
               /\ Go(p, "receive")
          ELSE /\ Go(p, "close")
               /\ UNCHANGED <<sends, net>>
    /\ UNCHANGED <<nextID, table, id, incoming, closed, op, got, pumpVars, conn, panicked,
                   nRemote, nDups>>

(* Exchange.Receive: a message, after which the operation sends again or is
   complete; or the end of a channel that is closed and drained. *)
Receive(p) ==
    /\ pc[p] = "receive"
    /\ LET o == Cur(p)
       IN IF incoming[o] # <<>>
          THEN /\ got' = [got EXCEPT ![o] = Append(got[o], Head(incoming[o]))]
               /\ incoming' = [incoming EXCEPT ![o] = Tail(incoming[o])]
               /\ Go(p, "close") \/ (sends[o] < MaxSends /\ Go(p, "send"))
          ELSE /\ closed[o]
               /\ Go(p, "close")
               /\ UNCHANGED <<got, incoming>>
    /\ UNCHANGED <<nextID, table, id, closed, op, sends, pumpVars, conn, panicked, netVars>>

TimeoutNoClose(p) ==
    /\ pc[p] \in {"send", "receive"}
    /\ Go(p, "idle")
    /\ UNCHANGED <<nextID, table, id, incoming, closed, op, sends, got, pumpVars, conn,
                   panicked, netVars>>

(* The context of the operation is cancelled or has expired. *)
Timeout(p) ==
    /\ pc[p] \in {"send", "receive"}
    /\ Go(p, "close")
    /\ UNCHANGED <<nextID, table, id, incoming, closed, op, sends, got, pumpVars, conn,
                   panicked, netVars>>

(* CloseExchange: the entry under the exchange's key goes, whichever exchange
   it holds, and the channel is closed. *)
CloseExchange(p) ==
    /\ pc[p] = "close"
    /\ table' = [table EXCEPT ![Key(Cur(p))] = None]
    /\ closed' = [closed EXCEPT ![Cur(p)] = TRUE]
    /\ Go(p, "idle")
    /\ UNCHANGED <<nextID, id, incoming, op, sends, got, pumpVars, conn, panicked, netVars>>

-----------------------------------------------------------------------------
(* The message pump *)

(* A datagram arrives, is decoded and acknowledged. *)
PumpReceive(m) ==
    /\ pump = "recv"
    /\ conn = "up"
    /\ m \in net
    /\ \/ net' = net \ {m} /\ UNCHANGED nDups
       \/ nDups < MaxDups /\ nDups' = nDups + 1 /\ UNCHANGED net
    /\ msg' = m
    /\ pump' = "lookup"
    /\ UNCHANGED <<nextID, table, id, incoming, closed, procVars, tgt, conn, panicked, nRemote>>

PumpLookupAnySide ==
    /\ pump = "lookup"
    /\ LET e == table[[id |-> msg.key.id, side |-> "local"]]
       IN IF e # None
          THEN /\ tgt' = e
               /\ pump' = "check"
          ELSE /\ pump' = "recv"
               /\ UNCHANGED tgt
    /\ UNCHANGED <<nextID, table, id, incoming, closed, procVars, msg, conn, panicked, netVars>>

(* HandleMessage: the exchange of the message's key. *)
PumpLookup ==
    /\ pump = "lookup"
    /\ \/ /\ table[msg.key] # None
          /\ tgt' = table[msg.key]
          /\ pump' = "check"
       \/ /\ table[msg.key] = None
          /\ pump' = IF msg.key.side = "local" THEN "recv" ELSE "create"
          /\ UNCHANGED tgt
    /\ UNCHANGED <<nextID, table, id, incoming, closed, procVars, msg, conn, panicked, netVars>>

(* A new exchange of the device is entered, its message dropped: no part of
   the program sets OnUnhandled. *)
PumpCreate ==
    /\ pump = "create"
    /\ table' = [table EXCEPT ![msg.key] = <<"remote", msg.key.id>>]
    /\ pump' = "recv"
    /\ UNCHANGED <<nextID, id, incoming, closed, procVars, msg, tgt, conn, panicked, netVars>>

PumpCheck ==
    /\ pump = "check"
    /\ pump' = IF closed[tgt] THEN "recv" ELSE "send"
    /\ UNCHANGED <<nextID, table, id, incoming, closed, procVars, msg, tgt, conn, panicked,
                   netVars>>

(* The send blocks while the channel is full; on a closed channel, also one
   closed while it blocks, it panics. *)
PumpSend ==
    /\ pump = "send"
    /\ \/ /\ closed[tgt]
          /\ panicked' = TRUE
          /\ UNCHANGED <<incoming, pump>>
       \/ /\ ~closed[tgt]
          /\ Len(incoming[tgt]) < Cap
          /\ incoming' = [incoming EXCEPT ![tgt] = Append(incoming[tgt], msg)]
          /\ pump' = "recv"
          /\ UNCHANGED panicked
    /\ UNCHANGED <<nextID, table, id, closed, procVars, msg, tgt, conn, netVars>>

PumpLostStops ==
    /\ pump = "recv"
    /\ conn = "lost"
    /\ pump' = "stopped"
    /\ UNCHANGED <<nextID, table, id, incoming, closed, procVars, msg, tgt, conn, panicked,
                   netVars>>

(* Receive reports ErrConnClosed: CloseAll, and the pump ends. *)
PumpLost ==
    /\ pump = "recv"
    /\ conn = "lost"
    /\ closed' = [o \in Objs |-> closed[o] \/ \E k \in Keys : table[k] = o]
    /\ table' = [k \in Keys |-> None]
    /\ pump' = "stopped"
    /\ UNCHANGED <<nextID, id, incoming, procVars, msg, tgt, conn, panicked, netVars>>

(* The pump's context is cancelled: it leaves the exchanges alone. *)
PumpCancelled ==
    /\ pump \in {"recv", "send"}
    /\ conn = "closed"
    /\ pump' = "stopped"
    /\ UNCHANGED <<nextID, table, id, incoming, closed, procVars, msg, tgt, conn, panicked,
                   netVars>>

-----------------------------------------------------------------------------
(* The device and the connection *)

(* The device sends in an exchange of its own. *)
DeviceSend(i) ==
    /\ conn = "up"
    /\ nRemote < MaxRemote
    /\ nRemote' = nRemote + 1
    /\ net' = net \cup {[key |-> [id |-> i, side |-> "remote"], to |-> <<"remote", i>>,
                         n |-> nRemote + 1]}
    /\ UNCHANGED <<nextID, table, id, incoming, closed, procVars, pumpVars, conn, panicked, nDups>>

(* The transport finds the peer gone. *)
Lose ==
    /\ conn = "up"
    /\ conn' = "lost"
    /\ UNCHANGED <<nextID, table, id, incoming, closed, procVars, pumpVars, panicked, netVars>>

(* Controller.Close cancels the pump and closes the connection. *)
Close ==
    /\ conn # "closed"
    /\ conn' = "closed"
    /\ UNCHANGED <<nextID, table, id, incoming, closed, procVars, pumpVars, panicked, netVars>>

-----------------------------------------------------------------------------
Init ==
    /\ nextID = 0
    /\ table = [k \in Keys |-> None]
    /\ id = [o \in Objs |-> IF o \in Remote THEN o[2] ELSE 0]
    /\ incoming = [o \in Objs |-> <<>>]
    /\ closed = [o \in Objs |-> FALSE]
    /\ pc = [p \in Procs |-> "idle"]
    /\ op = [p \in Procs |-> 0]
    /\ sends = [o \in Objs |-> 0]
    /\ got = [o \in Objs |-> <<>>]
    /\ pump = "recv" /\ msg = None /\ tgt = None
    /\ conn = "up" /\ panicked = FALSE
    /\ net = {} /\ nRemote = 0 /\ nDups = 0

OpStep(p) == NewExchange(p) \/ Send(p) \/ Receive(p) \/ CloseExchange(p)

PumpStep == PumpLookup \/ PumpCreate \/ PumpCheck \/ PumpSend \/ PumpLost \/ PumpCancelled

Next ==
    /\ ~panicked
    /\ \/ \E p \in Procs : OpStep(p) \/ Timeout(p)
       \/ PumpStep \/ (\E m \in net : PumpReceive(m))
       \/ (\E i \in RemoteIDs : DeviceSend(i)) \/ Lose \/ Close

Spec == Init /\ [][Next]_vars

(* Goroutines are scheduled. Nothing is assumed of the network, of the device
   and of the operations' own deadlines. *)
Fairness ==
    /\ \A p \in Procs : WF_vars(~panicked /\ OpStep(p))
    /\ WF_vars(~panicked /\ PumpStep)

FairSpec == Spec /\ Fairness

-----------------------------------------------------------------------------
(* Type invariant. *)
TypeOK ==
    /\ nextID \in IDs
    /\ table \in [Keys -> Objs \cup {None}]
    /\ id \in [Objs -> IDs]
    /\ incoming \in [Objs -> Seq(Msgs)]
    /\ closed \in [Objs -> BOOLEAN]
    /\ pc \in [Procs -> {"idle", "send", "receive", "close"}]
    /\ op \in [Procs -> 0 .. MaxOps]
    /\ \A p \in Procs : pc[p] # "idle" => op[p] > 0
    /\ sends \in [Objs -> Nat]
    /\ got \in [Objs -> Seq(Msgs)]
    /\ pump \in {"recv", "lookup", "create", "check", "send", "stopped"}
    /\ msg \in Msgs \cup {None}
    /\ tgt \in Objs \cup {None}
    /\ pump \in {"lookup", "create", "check", "send"} => msg # None
    /\ pump \in {"check", "send"} => tgt # None
    /\ conn \in {"up", "lost", "closed"}
    /\ panicked \in BOOLEAN
    /\ net \subseteq Msgs
    /\ nRemote \in Nat /\ nDups \in Nat

(* What an exchange is given carries its ID and its side, also when the pump
   delivers long after its look-up and IDs are used again (HandleMessage). *)
RoutedByKey ==
    \A o \in Objs : \A i \in 1 .. Len(incoming[o]) : incoming[o][i].key = Key(o)

(* The manager knows an exchange under its own key only, and none that is
   closed: entry and channel go together (CloseExchange, CloseAll). *)
EntriesOpen ==
    \A k \in Keys : table[k] # None => Key(table[k]) = k /\ ~closed[table[k]]

(* The manager holds no exchange of an operation that has ended, however it
   ended: every return path closes the exchange it created. *)
NoLeaks ==
    \A p \in Procs, k \in Keys, n \in 1 .. MaxOps :
        table[k] = <<p, n>> => n = op[p] /\ pc[p] # "idle"

(* While nextID has not wrapped, an operation is handed only the answers to
   its own messages: no late or duplicated answer to another exchange. *)
OwnAnswers ==
    \A o \in Objs : \A i \in 1 .. Len(got[o]) : got[o][i].to = o

(* The pump waits for room in an exchange of the device, which nobody reads. *)
PumpStuck == pump = "send" /\ tgt \in Remote /\ Len(incoming[tgt]) = Cap

(* When the connection is lost, every operation that waits in Receive goes
   on without waiting for its deadline (CloseAll), unless the pump, which has
   to find the loss, is stuck for good; it is never stuck on an exchange of our
   own, which its owner reads or closes (HandleMessage). *)
LossUnblocks ==
    \/ \A p \in Procs : (conn = "lost" /\ pc[p] = "receive")
                         ~> (pc[p] # "receive" \/ conn = "closed" \/ panicked)
    \/ <>[]PumpStuck

-----------------------------------------------------------------------------
(* What comments of the code say and the code does not do: TLC finds each of
   them violated. *)

(* exchange.go, ExchangeManager: "It is safe for concurrent use." *)
NoPanic == ~panicked

(* exchange.go: "exchangeKey uniquely identifies an exchange within a
   session": an open exchange is found under its key. *)
KeyIsUnique ==
    \A p \in Procs : pc[p] \in {"send", "receive"} /\ ~closed[Cur(p)]
                        => table[Key(Cur(p))] = Cur(p)

(* session.go: the peer's message counter is tracked "for replay protection":
   no message is delivered twice. *)
NoReplay ==
    \A o \in Objs : \A i, j \in 1 .. Len(got[o]) : i # j => got[o][i] # got[o][j]

(* exchange.go, OnUnhandled: "If nil, such messages are silently dropped." *)
RemoteDropped == \A o \in Remote : incoming[o] = <<>>
=============================================================================
