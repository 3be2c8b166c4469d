--------------------------- MODULE ExchangesProof ---------------------------
(***************************************************************************)
(* Proofs about Exchanges, for any number of goroutines, operations, IDs   *)
(* and messages: also when nextID has wrapped, the manager's entries are   *)
(* open exchanges under their own keys, no ended operation leaves one      *)
(* behind, and a message only reaches an exchange of its key.              *)
(*                                                                         *)
(* RoutedByKey is not inductive: the pump delivers to an exchange it       *)
(* looked up earlier, so the invariant follows the pump's target, and the  *)
(* exchanges that are yet to be created, whose ID is still to be set.      *)
(*                                                                         *)
(* The last part is about the other state of a session, PeerCounter.       *)
(***************************************************************************)
EXTENDS Exchanges, PeerCounter, FiniteSetTheorems, TLAPS

(* The pump's target has the key of the pump's message. *)
TargetMatches == pump \in {"check", "send"} => Key(tgt) = msg.key

(* A new exchange of the device is entered only for a message of the device. *)
CreateMatches == pump = "create" => msg.key.side = "remote"

(* Exchanges to come are untouched. *)
Fresh ==
    \A p \in Procs, n \in 1 .. MaxOps : n > op[p] =>
        /\ incoming[<<p, n>>] = <<>>
        /\ ~closed[<<p, n>>]
        /\ pump \in {"check", "send"} => tgt # <<p, n>>

(* Exchanges of the device have their ID from the start and stay open while
   the pump runs. *)
RemoteOpen ==
    \A o \in Remote : id[o] = o[2] /\ (pump # "stopped" => ~closed[o])

IndInv ==
    /\ TypeOK
    /\ RoutedByKey
    /\ EntriesOpen
    /\ NoLeaks
    /\ TargetMatches
    /\ CreateMatches
    /\ Fresh
    /\ RemoteOpen

USE ExchangesAssumption, NoneAssumption

(* An exchange is ours or the device's, never both. *)
LEMMA Sides ==
    /\ Local \cap Remote = {}
    /\ \A p \in Procs, n \in 1 .. MaxOps : <<p, n>> \in Local /\ <<p, n>> \in Objs
    /\ \A i \in RemoteIDs : <<"remote", i>> \in Remote /\ <<"remote", i>> \in Objs
                            /\ <<"remote", i>> \notin Local
    /\ \A o \in Objs : (o \in Local \/ o \in Remote) /\ o # None
  BY DEF Local, Remote, Objs

(* The key of an exchange is a key of the table. *)
LEMMA KeyType ==
    ASSUME TypeOK, RemoteOpen, NEW o \in Objs
    PROVE  Key(o) \in Keys
<1>1. CASE o \in Local
  BY <1>1 DEF TypeOK, Key, Keys
<1>2. CASE o \in Remote
  <2>1. o \notin Local /\ id[o] \in RemoteIDs
    BY <1>2, Sides DEF RemoteOpen, Remote
  <2>2. Key(o) = [id |-> id[o], side |-> "remote"]
    BY <2>1 DEF Key
  <2> QED
    BY <2>1, <2>2 DEF Keys
<1> QED
  BY <1>1, <1>2, Sides

(* The exchange of an operation under way. *)
LEMMA CurType ==
    ASSUME TypeOK, NEW p \in Procs, pc[p] # "idle"
    PROVE  Cur(p) \in Local /\ Cur(p) \in Objs
<1>1. op[p] \in 1 .. MaxOps
  BY DEF TypeOK
<1> QED
  BY <1>1, Sides DEF Cur

(* The initial state. *)
LEMMA InitInv == Init => IndInv
<1> SUFFICES ASSUME Init PROVE IndInv
  OBVIOUS
<1>1. id \in [Objs -> IDs]
  <2>1. \A o \in Remote : o[2] \in RemoteIDs
    BY DEF Remote
  <2>2. 0 \in IDs /\ RemoteIDs \subseteq IDs
    BY DEF IDs
  <2> QED
    BY <2>1, <2>2 DEF Init
<1>2. TypeOK
  <2>1. nextID \in IDs /\ net \subseteq Msgs
    BY DEF Init, IDs
  <2>2. incoming \in [Objs -> Seq(Msgs)] /\ got \in [Objs -> Seq(Msgs)]
    BY DEF Init
  <2>3. closed \in [Objs -> BOOLEAN] /\ panicked \in BOOLEAN
    BY DEF Init
  <2>4. /\ table \in [Keys -> Objs \cup {None}]
        /\ pc \in [Procs -> {"idle", "send", "receive", "close"}]
        /\ op \in [Procs -> 0 .. MaxOps]
        /\ sends \in [Objs -> Nat]
        /\ \A p \in Procs : pc[p] = "idle"
    BY DEF Init
  <2>5. /\ pump = "recv" /\ msg = None /\ tgt = None /\ conn = "up"
        /\ nRemote \in Nat /\ nDups \in Nat
    BY DEF Init
  <2> QED
    BY <1>1, <2>1, <2>2, <2>3, <2>4, <2>5 DEF TypeOK
<1>3. RoutedByKey /\ EntriesOpen /\ TargetMatches /\ CreateMatches
  BY DEF Init, RoutedByKey, EntriesOpen, TargetMatches, CreateMatches
<1>4. NoLeaks
  BY Sides DEF Init, NoLeaks
<1>5. Fresh /\ RemoteOpen
  BY Sides DEF Init, Fresh, RemoteOpen, Objs
<1> QED
  BY <1>2, <1>3, <1>4, <1>5 DEF IndInv

(* Every step keeps the types. *)
LEMMA TypeStep == IndInv /\ [Next]_vars => TypeOK'
<1> SUFFICES ASSUME IndInv, [Next]_vars PROVE TypeOK'
  OBVIOUS
<1>0. TypeOK
  BY DEF IndInv
<1>1. ASSUME NEW p \in Procs, NewExchange(p) PROVE TypeOK'
  <2>1. <<p, op[p] + 1>> \in Objs /\ op[p] + 1 \in 0 .. MaxOps
    <3>1. op[p] + 1 \in 1 .. MaxOps
      BY <1>0, <1>1 DEF TypeOK, NewExchange
    <3> QED
      BY <3>1, Sides
  <2>2. (nextID + 1) % NumIDs \in IDs /\ [id |-> nextID, side |-> "local"] \in Keys
    BY <1>0 DEF TypeOK, IDs, Keys
  <2>3. nextID' \in IDs /\ table' \in [Keys -> Objs \cup {None}] /\ id' \in [Objs -> IDs]
    BY <1>0, <1>1, <2>1, <2>2 DEF TypeOK, NewExchange
  <2>4. /\ pc' \in [Procs -> {"idle", "send", "receive", "close"}]
        /\ op' \in [Procs -> 0 .. MaxOps]
        /\ \A q \in Procs : pc'[q] # "idle" => op'[q] > 0
    BY <1>0, <1>1, <2>1 DEF TypeOK, NewExchange, Go
  <2> QED
    BY <1>0, <1>1, <2>3, <2>4 DEF TypeOK, NewExchange, pumpVars, netVars
<1>2. ASSUME NEW p \in Procs, Send(p) PROVE TypeOK'
  <2>1. Cur(p) \in Objs
    BY <1>0, <1>2, CurType DEF Send
  <2>2. Key(Cur(p)) \in Keys
    BY <2>1, KeyType DEF IndInv
  <2>3. sends[Cur(p)] + 1 \in Nat
    BY <1>0, <2>1 DEF TypeOK
  <2>4. [key |-> Key(Cur(p)), to |-> Cur(p), n |-> sends[Cur(p)] + 1] \in Msgs
    BY <2>1, <2>2, <2>3 DEF Msgs
  <2>5. sends' \in [Objs -> Nat] /\ net' \subseteq Msgs
    <3>1. CASE conn = "up"
      <4>1. /\ sends' = [sends EXCEPT ![Cur(p)] = sends[Cur(p)] + 1]
            /\ net' = net \cup {[key |-> Key(Cur(p)), to |-> Cur(p), n |-> sends[Cur(p)] + 1]}
        BY <1>2, <3>1 DEF Send
      <4> QED
        BY <1>0, <2>3, <2>4, <4>1 DEF TypeOK
    <3>2. CASE conn # "up"
      BY <1>0, <1>2, <3>2 DEF TypeOK, Send
    <3> QED
      BY <3>1, <3>2
  <2>6. /\ pc' \in [Procs -> {"idle", "send", "receive", "close"}]
        /\ \A q \in Procs : pc'[q] # "idle" => op[q] > 0
    BY <1>0, <1>2 DEF TypeOK, Send, Go
  <2> QED
    BY <1>0, <1>2, <2>5, <2>6 DEF TypeOK, Send, pumpVars
<1>3. ASSUME NEW p \in Procs, Receive(p) PROVE TypeOK'
  <2>1. Cur(p) \in Objs
    BY <1>0, <1>3, CurType DEF Receive
  <2>2. incoming' \in [Objs -> Seq(Msgs)] /\ got' \in [Objs -> Seq(Msgs)]
    <3>1. CASE incoming[Cur(p)] = <<>>
      BY <1>0, <1>3, <3>1 DEF TypeOK, Receive
    <3>2. CASE incoming[Cur(p)] # <<>>
      <4>1. incoming[Cur(p)] \in Seq(Msgs) /\ got[Cur(p)] \in Seq(Msgs)
        BY <1>0, <2>1 DEF TypeOK
      <4>2. Head(incoming[Cur(p)]) \in Msgs /\ Tail(incoming[Cur(p)]) \in Seq(Msgs)
        BY <3>2, <4>1
      <4>3. Append(got[Cur(p)], Head(incoming[Cur(p)])) \in Seq(Msgs)
        BY <4>1, <4>2
      <4>4. /\ got' = [got EXCEPT ![Cur(p)] = Append(got[Cur(p)], Head(incoming[Cur(p)]))]
            /\ incoming' = [incoming EXCEPT ![Cur(p)] = Tail(incoming[Cur(p)])]
        BY <1>3, <3>2 DEF Receive
      <4> QED
        BY <1>0, <4>2, <4>3, <4>4 DEF TypeOK
    <3> QED
      BY <3>1, <3>2
  <2>3. /\ pc' \in [Procs -> {"idle", "send", "receive", "close"}]
        /\ \A q \in Procs : pc'[q] # "idle" => op[q] > 0
    BY <1>0, <1>3 DEF TypeOK, Receive, Go
  <2> QED
    BY <1>0, <1>3, <2>2, <2>3 DEF TypeOK, Receive, pumpVars, netVars
<1>4. ASSUME NEW p \in Procs, Timeout(p) PROVE TypeOK'
  BY <1>0, <1>4 DEF TypeOK, Timeout, Go, pumpVars, netVars
<1>5. ASSUME NEW p \in Procs, CloseExchange(p) PROVE TypeOK'
  <2>1. Cur(p) \in Objs
    BY <1>0, <1>5, CurType DEF CloseExchange
  <2>2. table' \in [Keys -> Objs \cup {None}]
    BY <1>0, <1>5 DEF TypeOK, CloseExchange
  <2>3. closed' \in [Objs -> BOOLEAN]
    BY <1>0, <1>5 DEF TypeOK, CloseExchange
  <2>4. /\ pc' \in [Procs -> {"idle", "send", "receive", "close"}]
        /\ \A q \in Procs : pc'[q] # "idle" => op[q] > 0
    BY <1>0, <1>5 DEF TypeOK, CloseExchange, Go
  <2> QED
    BY <1>0, <1>5, <2>2, <2>3, <2>4 DEF TypeOK, CloseExchange, pumpVars, netVars
<1>6. ASSUME NEW m \in net, PumpReceive(m) PROVE TypeOK'
  <2>1. m \in Msgs /\ net' \subseteq Msgs /\ nDups' \in Nat
    BY <1>0, <1>6 DEF TypeOK, PumpReceive
  <2> QED
    BY <1>0, <1>6, <2>1 DEF TypeOK, PumpReceive, procVars
<1>7. ASSUME PumpLookup PROVE TypeOK'
  <2>1. msg \in Msgs /\ msg.key \in Keys
    BY <1>0, <1>7 DEF TypeOK, PumpLookup, Msgs
  <2>2. /\ tgt' \in Objs \cup {None}
        /\ pump' \in {"recv", "create", "check"}
        /\ pump' = "check" => tgt' # None
    BY <1>0, <1>7, <2>1 DEF TypeOK, PumpLookup
  <2> QED
    BY <1>0, <1>7, <2>1, <2>2 DEF TypeOK, PumpLookup, procVars, netVars
<1>8. ASSUME PumpCreate PROVE TypeOK'
  <2>1. msg.key \in Keys
    BY <1>0, <1>8 DEF TypeOK, PumpCreate, Msgs
  <2>2. msg.key.id \in RemoteIDs
    BY <1>8, <2>1 DEF IndInv, CreateMatches, PumpCreate, Keys
  <2>3. <<"remote", msg.key.id>> \in Objs
    BY <2>2, Sides
  <2>4. table' \in [Keys -> Objs \cup {None}]
    BY <1>0, <1>8, <2>3 DEF TypeOK, PumpCreate
  <2> QED
    BY <1>0, <1>8, <2>4 DEF TypeOK, PumpCreate, procVars, netVars
<1>9. ASSUME PumpCheck PROVE TypeOK'
  BY <1>0, <1>9 DEF TypeOK, PumpCheck, procVars, netVars
<1>10. ASSUME PumpSend PROVE TypeOK'
  <2>1. msg \in Msgs /\ tgt \in Objs
    BY <1>0, <1>10 DEF TypeOK, PumpSend
  <2>2. incoming' \in [Objs -> Seq(Msgs)]
    <3>1. Append(incoming[tgt], msg) \in Seq(Msgs)
      BY <1>0, <2>1 DEF TypeOK
    <3> QED
      BY <1>0, <1>10, <2>1, <3>1 DEF TypeOK, PumpSend
  <2>3. panicked' \in BOOLEAN
    BY <1>0, <1>10 DEF TypeOK, PumpSend
  <2>4. pump' = pump \/ pump' = "recv"
    BY <1>10 DEF PumpSend
  <2> QED
    BY <1>0, <1>10, <2>1, <2>2, <2>3, <2>4 DEF TypeOK, PumpSend, procVars, netVars
<1>11. ASSUME PumpLost PROVE TypeOK'
  <2>1. table' \in [Keys -> Objs \cup {None}]
    BY <1>11 DEF PumpLost
  <2>2. closed' \in [Objs -> BOOLEAN]
    BY <1>0, <1>11 DEF TypeOK, PumpLost
  <2> QED
    BY <1>0, <1>11, <2>1, <2>2 DEF TypeOK, PumpLost, procVars, netVars
<1>12. ASSUME PumpCancelled PROVE TypeOK'
  BY <1>0, <1>12 DEF TypeOK, PumpCancelled, procVars, netVars
<1>13. ASSUME NEW i \in RemoteIDs, DeviceSend(i) PROVE TypeOK'
  <2>1. [id |-> i, side |-> "remote"] \in Keys /\ <<"remote", i>> \in Objs
    BY Sides DEF Keys
  <2>2. net' \subseteq Msgs /\ nRemote' \in Nat
    <3>1. nRemote + 1 \in Nat
      BY <1>0 DEF TypeOK
    <3>2. [key |-> [id |-> i, side |-> "remote"], to |-> <<"remote", i>>, n |-> nRemote + 1]
            \in Msgs
      BY <2>1, <3>1 DEF Msgs
    <3> QED
      BY <1>0, <1>13, <3>1, <3>2 DEF TypeOK, DeviceSend
  <2> QED
    BY <1>0, <1>13, <2>2 DEF TypeOK, DeviceSend, procVars, pumpVars
<1>14. ASSUME Lose \/ Close PROVE TypeOK'
  BY <1>0, <1>14 DEF TypeOK, Lose, Close, procVars, pumpVars, netVars
<1>15. ASSUME UNCHANGED vars PROVE TypeOK'
  BY <1>0, <1>15 DEF TypeOK, vars, procVars, pumpVars, netVars
<1> QED
  BY <1>1, <1>2, <1>3, <1>4, <1>5, <1>6, <1>7, <1>8, <1>9, <1>10, <1>11, <1>12, <1>13,
     <1>14, <1>15 DEF Next, OpStep, PumpStep

-----------------------------------------------------------------------------
(* The parts of the invariant beside the types. *)
Parts ==
    /\ RoutedByKey
    /\ EntriesOpen
    /\ NoLeaks
    /\ TargetMatches
    /\ CreateMatches
    /\ Fresh
    /\ RemoteOpen

(* NewExchange sets the ID of an exchange that nobody holds yet. *)
LEMMA NewExchangeStep ==
    ASSUME IndInv, NEW p \in Procs, NewExchange(p) PROVE Parts'
<1>0. TypeOK /\ RoutedByKey /\ EntriesOpen /\ NoLeaks /\ TargetMatches /\ CreateMatches
      /\ Fresh /\ RemoteOpen
  BY DEF IndInv
<1>1. op[p] \in 0 .. MaxOps /\ op[p] + 1 \in 1 .. MaxOps /\ pc[p] = "idle"
  BY <1>0 DEF TypeOK, NewExchange
<1>2. PICK o \in Objs : o = <<p, op[p] + 1>> /\ o \in Local /\ o # None /\ o \notin Remote
  BY <1>1, Sides
<1>3. PICK k0 \in Keys : k0 = [id |-> nextID, side |-> "local"]
  BY <1>0 DEF TypeOK, Keys
<1>4. /\ id' = [id EXCEPT ![o] = nextID]
      /\ table' = [table EXCEPT ![k0] = o]
      /\ op' = [op EXCEPT ![p] = op[p] + 1]
      /\ pc' = [pc EXCEPT ![p] = "send"]
      /\ UNCHANGED <<incoming, closed, pump, msg, tgt>>
  BY <1>2, <1>3 DEF NewExchange, Go, pumpVars
<1>5. incoming[o] = <<>> /\ ~closed[o] /\ (pump \in {"check", "send"} => tgt # o)
  BY <1>0, <1>1, <1>2 DEF Fresh
<1>6. \A x \in Objs : x # o => Key(x)' = Key(x)
  BY <1>0, <1>4 DEF TypeOK, Key
<1>7. Key(o)' = k0
  BY <1>0, <1>2, <1>3, <1>4 DEF TypeOK, Key
<1>8. \A k \in Keys : table[k] # o
  BY <1>0, <1>1, <1>2 DEF NoLeaks
<1>9. RoutedByKey'
  <2>1. ASSUME NEW x \in Objs, NEW i \in 1 .. Len(incoming'[x])
        PROVE  incoming'[x][i].key = Key(x)'
    <3>1. x # o
      BY <1>4, <1>5, <2>1
    <3> QED
      BY <1>0, <1>4, <1>6, <2>1, <3>1 DEF RoutedByKey
  <2> QED
    BY <2>1 DEF RoutedByKey
<1>10. EntriesOpen'
  <2>1. ASSUME NEW k \in Keys, table'[k] # None
        PROVE  (Key(table[k]) = k)' /\ ~closed'[table'[k]]
    <3>1. CASE k = k0
      <4>1. table'[k] = o
        BY <1>0, <1>4, <3>1 DEF TypeOK
      <4> QED
        BY <1>4, <1>5, <1>7, <3>1, <4>1 DEF Key
    <3>2. CASE k # k0
      <4>1. table'[k] = table[k] /\ table[k] \in Objs /\ table[k] # o
        BY <1>0, <1>4, <1>8, <2>1, <3>2 DEF TypeOK
      <4>2. Key(table[k]) = k /\ ~closed[table[k]]
        BY <1>0, <2>1, <4>1 DEF EntriesOpen
      <4>3. id'[table[k]] = id[table[k]]
        BY <1>0, <1>4, <4>1 DEF TypeOK
      <4> QED
        BY <1>4, <4>1, <4>2, <4>3 DEF Key
    <3> QED
      BY <3>1, <3>2
  <2> QED
    BY <2>1 DEF EntriesOpen
<1>11. NoLeaks'
  <2>1. ASSUME NEW q \in Procs, NEW k \in Keys, NEW n \in 1 .. MaxOps, table'[k] = <<q, n>>
        PROVE  n = op'[q] /\ pc'[q] # "idle"
    <3>1. CASE k = k0
      <4>1. <<q, n>> = o
        BY <1>0, <1>4, <2>1, <3>1 DEF TypeOK
      <4>2. q = p /\ n = op[p] + 1
        BY <1>2, <4>1
      <4> QED
        BY <1>0, <1>4, <4>2 DEF TypeOK
    <3>2. CASE k # k0
      <4>1. table[k] = <<q, n>>
        BY <1>0, <1>4, <2>1, <3>2 DEF TypeOK
      <4>2. n = op[q] /\ pc[q] # "idle"
        BY <1>0, <4>1 DEF NoLeaks
      <4>3. q # p
        BY <1>1, <4>2
      <4> QED
        BY <1>0, <1>4, <4>2, <4>3 DEF TypeOK
    <3> QED
      BY <3>1, <3>2
  <2> QED
    BY <2>1 DEF NoLeaks
<1>12. TargetMatches' /\ CreateMatches'
  <2>1. ASSUME pump \in {"check", "send"} PROVE id'[tgt] = id[tgt]
    BY <1>0, <1>4, <1>5, <2>1 DEF TypeOK
  <2> QED
    BY <1>0, <1>4, <2>1 DEF TargetMatches, CreateMatches, Key
<1>13. Fresh'
  <2>1. ASSUME NEW q \in Procs, NEW n \in 1 .. MaxOps, n > op'[q] PROVE n > op[q]
    BY <1>0, <1>1, <1>4, <2>1 DEF TypeOK
  <2> QED
    BY <1>0, <1>4, <2>1 DEF Fresh
<1>14. RemoteOpen'
  <2>1. \A x \in Remote : x \in Objs /\ id'[x] = id[x]
    BY <1>0, <1>2, <1>4 DEF TypeOK, Objs
  <2> QED
    BY <1>0, <1>4, <2>1 DEF RemoteOpen
<1> QED
  BY <1>9, <1>10, <1>11, <1>12, <1>13, <1>14 DEF Parts

(* Steps that leave the exchanges, the table and the pump alone. *)
LEMMA FrameStep ==
    ASSUME IndInv, UNCHANGED <<id, table, closed, incoming, op, pump, msg, tgt>>,
           \A p \in Procs : pc[p] # "idle" => pc'[p] # "idle"
    PROVE  Parts'
<1>1. RoutedByKey' /\ EntriesOpen'
  BY DEF IndInv, RoutedByKey, EntriesOpen, Key
<1>2. NoLeaks'
  BY DEF IndInv, NoLeaks
<1>3. TargetMatches' /\ CreateMatches' /\ Fresh' /\ RemoteOpen'
  BY DEF IndInv, TargetMatches, CreateMatches, Fresh, RemoteOpen, Key
<1> QED
  BY <1>1, <1>2, <1>3 DEF Parts

(* Receive takes from a channel, PumpSend puts the message of the target's
   key into one. *)
LEMMA ReceiveStep ==
    ASSUME IndInv, NEW p \in Procs, Receive(p) PROVE Parts'
<1>0. TypeOK /\ RoutedByKey /\ Fresh
  BY DEF IndInv
<1>1. CASE incoming[Cur(p)] = <<>>
  BY <1>0, <1>1, FrameStep DEF Receive, Go, pumpVars, TypeOK
<1>2. CASE incoming[Cur(p)] # <<>>
  <2>1. PICK o \in Objs : o = Cur(p)
    BY <1>0, CurType DEF Receive
  <2>2. /\ incoming' = [incoming EXCEPT ![o] = Tail(incoming[o])]
        /\ pc' \in [Procs -> {"idle", "send", "receive", "close"}]
        /\ \A q \in Procs : pc[q] # "idle" => pc'[q] # "idle"
        /\ UNCHANGED <<id, table, closed, op, pump, msg, tgt>>
    BY <1>0, <1>2, <2>1 DEF Receive, Go, pumpVars, TypeOK
  <2>3. RoutedByKey'
    <3>1. ASSUME NEW x \in Objs, NEW i \in 1 .. Len(incoming'[x])
          PROVE  incoming'[x][i].key = Key(x)
      <4>1. CASE x # o
        <5>1. incoming'[x] = incoming[x]
          BY <1>0, <2>2, <4>1 DEF TypeOK
        <5> QED
          BY <1>0, <3>1, <5>1 DEF RoutedByKey
      <4>2. CASE x = o
        <5>1. incoming[o] \in Seq(Msgs) /\ incoming[o] # <<>> /\ incoming'[o] = Tail(incoming[o])
          BY <1>0, <1>2, <2>1, <2>2 DEF TypeOK
        <5>2. i + 1 \in 1 .. Len(incoming[o]) /\ incoming'[o][i] = incoming[o][i + 1]
          BY <3>1, <4>2, <5>1
        <5> QED
          BY <1>0, <4>2, <5>2 DEF RoutedByKey
      <4> QED
        BY <4>1, <4>2
    <3>2. \A x \in Objs : Key(x)' = Key(x)
      BY <2>2 DEF Key
    <3> QED
      BY <3>1, <3>2 DEF RoutedByKey
  <2>4. EntriesOpen' /\ NoLeaks' /\ TargetMatches' /\ CreateMatches' /\ RemoteOpen'
    BY <2>2 DEF IndInv, EntriesOpen, NoLeaks, TargetMatches, CreateMatches, RemoteOpen, Key
  <2>5. Fresh'
    <3>1. ASSUME NEW q \in Procs, NEW n \in 1 .. MaxOps, n > op[q] PROVE <<q, n>> # o
      <4>1. incoming[<<q, n>>] = <<>>
        BY <1>0, <3>1 DEF Fresh
      <4> QED
        BY <1>2, <2>1, <4>1
    <3>2. ASSUME NEW q \in Procs, NEW n \in 1 .. MaxOps, n > op[q]
          PROVE  incoming'[<<q, n>>] = incoming[<<q, n>>]
      BY <1>0, <2>2, <3>1, <3>2, Sides DEF TypeOK
    <3> QED
      BY <1>0, <2>2, <3>2 DEF Fresh
  <2> QED
    BY <2>3, <2>4, <2>5 DEF Parts
<1> QED
  BY <1>1, <1>2

LEMMA PumpSendStep ==
    ASSUME IndInv, PumpSend PROVE Parts'
<1>0. TypeOK /\ RoutedByKey /\ Fresh /\ TargetMatches
  BY DEF IndInv
<1>1. CASE closed[tgt]
  BY <1>1, FrameStep DEF PumpSend, procVars
<1>2. CASE ~closed[tgt]
  <2>1. PICK o \in Objs : o = tgt
    BY <1>0 DEF TypeOK, PumpSend
  <2>2. /\ incoming' = [incoming EXCEPT ![o] = Append(incoming[o], msg)]
        /\ pump' = "recv"
        /\ UNCHANGED <<id, table, closed, op, pc>>
    BY <1>2, <2>1 DEF PumpSend, procVars
  <2>3. msg \in Msgs /\ msg.key = Key(o) /\ incoming[o] \in Seq(Msgs)
    BY <1>0, <2>1 DEF TypeOK, TargetMatches, PumpSend
  <2>4. RoutedByKey'
    <3>1. ASSUME NEW x \in Objs, NEW i \in 1 .. Len(incoming'[x])
          PROVE  incoming'[x][i].key = Key(x)
      <4>1. CASE x # o
        <5>1. incoming'[x] = incoming[x]
          BY <1>0, <2>2, <4>1 DEF TypeOK
        <5> QED
          BY <1>0, <3>1, <5>1 DEF RoutedByKey
      <4>2. CASE x = o
        <5>1. incoming'[o] = Append(incoming[o], msg)
          BY <1>0, <2>2 DEF TypeOK
        <5>2. \/ i = Len(incoming[o]) + 1 /\ incoming'[o][i] = msg
              \/ i \in 1 .. Len(incoming[o]) /\ incoming'[o][i] = incoming[o][i]
          BY <2>3, <3>1, <4>2, <5>1
        <5> QED
          BY <1>0, <2>3, <4>2, <5>2 DEF RoutedByKey
      <4> QED
        BY <4>1, <4>2
    <3>2. \A x \in Objs : Key(x)' = Key(x)
      BY <2>2 DEF Key
    <3> QED
      BY <3>1, <3>2 DEF RoutedByKey
  <2>5. EntriesOpen' /\ NoLeaks' /\ TargetMatches' /\ CreateMatches' /\ RemoteOpen'
    BY <2>2 DEF IndInv, EntriesOpen, NoLeaks, TargetMatches, CreateMatches, RemoteOpen, Key,
                PumpSend
  <2>6. Fresh'
    <3>1. ASSUME NEW q \in Procs, NEW n \in 1 .. MaxOps, n > op[q]
          PROVE  <<q, n>> # o /\ <<q, n>> \in Objs
      BY <1>0, <2>1, <3>1, Sides DEF Fresh, PumpSend
    <3>2. ASSUME NEW q \in Procs, NEW n \in 1 .. MaxOps, n > op[q]
          PROVE  incoming'[<<q, n>>] = incoming[<<q, n>>]
      BY <1>0, <2>2, <3>1, <3>2 DEF TypeOK
    <3> QED
      BY <1>0, <2>2, <3>2 DEF Fresh
  <2> QED
    BY <2>4, <2>5, <2>6 DEF Parts
<1> QED
  BY <1>1, <1>2

(* CloseExchange closes the exchange of an operation and removes the only
   entry that can hold it. *)
LEMMA CloseExchangeStep ==
    ASSUME IndInv, NEW p \in Procs, CloseExchange(p) PROVE Parts'
<1>0. TypeOK /\ EntriesOpen /\ NoLeaks /\ Fresh /\ RemoteOpen
  BY DEF IndInv
<1>1. PICK o \in Objs : o = Cur(p) /\ o \in Local /\ o = <<p, op[p]>> /\ o \notin Remote
  BY <1>0, CurType, Sides DEF CloseExchange, Cur
<1>2. /\ table' = [table EXCEPT ![Key(o)] = None]
      /\ closed' = [closed EXCEPT ![o] = TRUE]
      /\ pc' = [pc EXCEPT ![p] = "idle"]
      /\ UNCHANGED <<id, incoming, op, pump, msg, tgt>>
  BY <1>1 DEF CloseExchange, Go, pumpVars
<1>3. \A k \in Keys : table'[k] # None => table'[k] = table[k] /\ table[k] # o
  BY <1>0, <1>2 DEF TypeOK, EntriesOpen
<1>4. \A x \in Objs : x # o => closed'[x] = closed[x]
  BY <1>0, <1>2 DEF TypeOK
<1>5. RoutedByKey'
  BY <1>2 DEF IndInv, RoutedByKey, Key
<1>6. EntriesOpen'
  <2>1. ASSUME NEW k \in Keys, table'[k] # None
        PROVE  (Key(table[k]) = k)' /\ ~closed'[table'[k]]
    <3>1. table'[k] = table[k] /\ table[k] \in Objs /\ table[k] # o /\ table[k] # None
      BY <1>0, <1>3, <2>1 DEF TypeOK
    <3>2. Key(table[k]) = k /\ ~closed[table[k]]
      BY <1>0, <3>1 DEF EntriesOpen
    <3> QED
      BY <1>2, <1>4, <3>1, <3>2 DEF Key
  <2> QED
    BY <2>1 DEF EntriesOpen
<1>7. NoLeaks'
  <2>1. ASSUME NEW q \in Procs, NEW k \in Keys, NEW n \in 1 .. MaxOps, table'[k] = <<q, n>>
        PROVE  n = op'[q] /\ pc'[q] # "idle"
    <3>1. <<q, n>> # None
      BY Sides
    <3>2. table[k] = <<q, n>> /\ <<q, n>> # o
      BY <1>3, <2>1, <3>1
    <3>3. n = op[q] /\ pc[q] # "idle"
      BY <1>0, <3>2 DEF NoLeaks
    <3>4. q # p
      BY <1>1, <3>2, <3>3
    <3> QED
      BY <1>0, <1>2, <3>3, <3>4 DEF TypeOK
  <2> QED
    BY <2>1 DEF NoLeaks
<1>8. TargetMatches' /\ CreateMatches'
  BY <1>2 DEF IndInv, TargetMatches, CreateMatches, Key
<1>9. Fresh'
  <2>1. ASSUME NEW q \in Procs, NEW n \in 1 .. MaxOps, n > op[q]
        PROVE  <<q, n>> \in Objs /\ <<q, n>> # o
    BY <1>0, <1>1, <2>1, Sides DEF TypeOK
  <2>2. ASSUME NEW q \in Procs, NEW n \in 1 .. MaxOps, n > op[q]
        PROVE  closed'[<<q, n>>] = closed[<<q, n>>]
    BY <1>4, <2>1, <2>2
  <2> QED
    BY <1>0, <1>2, <2>2 DEF Fresh
<1>10. RemoteOpen'
  <2>1. \A x \in Remote : x \in Objs /\ x # o
    BY <1>1 DEF Objs
  <2> QED
    BY <1>0, <1>2, <1>4, <2>1 DEF RemoteOpen
<1> QED
  BY <1>5, <1>6, <1>7, <1>8, <1>9, <1>10 DEF Parts

(* The pump's own steps between taking a message and delivering it. *)
LEMMA PumpReceiveStep ==
    ASSUME IndInv, NEW m \in net, PumpReceive(m) PROVE Parts'
<1>1. UNCHANGED <<id, table, closed, incoming, op, pc>> /\ pump = "recv" /\ pump' = "lookup"
  BY DEF PumpReceive, procVars
<1> QED
  BY <1>1 DEF IndInv, Parts, RoutedByKey, EntriesOpen, NoLeaks, TargetMatches, CreateMatches,
              Fresh, RemoteOpen, Key

LEMMA PumpLookupStep ==
    ASSUME IndInv, PumpLookup PROVE Parts'
<1>0. TypeOK /\ EntriesOpen /\ NoLeaks /\ Fresh
  BY DEF IndInv
<1>1. UNCHANGED <<id, table, closed, incoming, op, pc, msg>> /\ pump = "lookup"
  BY DEF PumpLookup, procVars
<1>2. msg \in Msgs /\ msg.key \in Keys
  BY <1>0 DEF TypeOK, PumpLookup, Msgs
<1>3. RoutedByKey' /\ EntriesOpen' /\ NoLeaks' /\ RemoteOpen'
  <2>1. pump' # "stopped"
    BY DEF PumpLookup
  <2> QED
    BY <1>1, <2>1 DEF IndInv, RoutedByKey, EntriesOpen, NoLeaks, RemoteOpen, Key
<1>4. CASE table[msg.key] = None
  <2>1. pump' = "recv" \/ (pump' = "create" /\ msg.key.side # "local")
    BY <1>4 DEF PumpLookup
  <2>2. msg.key.side \in {"local", "remote"}
    BY <1>2 DEF Keys
  <2>3. TargetMatches' /\ CreateMatches' /\ Fresh'
    BY <1>0, <1>1, <2>1, <2>2 DEF TargetMatches, CreateMatches, Fresh
  <2> QED
    BY <1>3, <2>3 DEF Parts
<1>5. CASE table[msg.key] # None
  <2>1. pump' = "check" /\ tgt' = table[msg.key]
    BY <1>5 DEF PumpLookup
  <2>2. Key(table[msg.key]) = msg.key
    BY <1>0, <1>2, <1>5 DEF EntriesOpen
  <2>3. TargetMatches' /\ CreateMatches'
    BY <1>1, <2>1, <2>2 DEF TargetMatches, CreateMatches, Key
  <2>4. ASSUME NEW q \in Procs, NEW n \in 1 .. MaxOps, n > op[q] PROVE tgt' # <<q, n>>
    <3>1. op[q] \in 0 .. MaxOps /\ op[q] # n
      BY <1>0, <2>4 DEF TypeOK
    <3>2. table[msg.key] # <<q, n>>
      BY <1>0, <1>2, <3>1 DEF NoLeaks
    <3> QED
      BY <2>1, <3>2
  <2>5. Fresh'
    BY <1>0, <1>1, <2>4 DEF Fresh
  <2> QED
    BY <1>3, <2>3, <2>5 DEF Parts
<1> QED
  BY <1>4, <1>5

LEMMA PumpCreateStep ==
    ASSUME IndInv, PumpCreate PROVE Parts'
<1>0. TypeOK /\ EntriesOpen /\ NoLeaks /\ Fresh /\ CreateMatches /\ RemoteOpen
  BY DEF IndInv
<1>1. PICK k0 \in Keys : k0 = msg.key
  BY <1>0 DEF TypeOK, PumpCreate, Msgs
<1>2. k0.side = "remote" /\ k0.id \in RemoteIDs /\ k0 = [id |-> k0.id, side |-> "remote"]
  BY <1>0, <1>1 DEF CreateMatches, PumpCreate, Keys
<1>3. PICK o \in Objs : o = <<"remote", k0.id>> /\ o \in Remote /\ o \notin Local
  BY <1>2, Sides
<1>4. /\ table' = [table EXCEPT ![k0] = o]
      /\ pump = "create" /\ pump' = "recv"
      /\ UNCHANGED <<id, closed, incoming, op, pc>>
  BY <1>1, <1>3 DEF PumpCreate, procVars
<1>5. id[o] = k0.id /\ ~closed[o]
  BY <1>0, <1>3, <1>4 DEF RemoteOpen
<1>6. Key(o) = k0
  BY <1>2, <1>3, <1>5 DEF Key
<1>7. RoutedByKey' /\ TargetMatches' /\ CreateMatches' /\ Fresh' /\ RemoteOpen'
  BY <1>4 DEF IndInv, RoutedByKey, TargetMatches, CreateMatches, Fresh, RemoteOpen, Key
<1>8. EntriesOpen'
  <2>1. ASSUME NEW k \in Keys, table'[k] # None
        PROVE  (Key(table[k]) = k)' /\ ~closed'[table'[k]]
    <3>1. CASE k = k0
      <4>1. table'[k] = o
        BY <1>0, <1>4, <3>1 DEF TypeOK
      <4> QED
        BY <1>4, <1>5, <1>6, <3>1, <4>1 DEF Key
    <3>2. CASE k # k0
      <4>1. table'[k] = table[k]
        BY <1>0, <1>4, <3>2 DEF TypeOK
      <4> QED
        BY <1>0, <1>4, <2>1, <4>1 DEF EntriesOpen, Key
    <3> QED
      BY <3>1, <3>2
  <2> QED
    BY <2>1 DEF EntriesOpen
<1>9. NoLeaks'
  <2>1. ASSUME NEW q \in Procs, NEW k \in Keys, NEW n \in 1 .. MaxOps, table'[k] = <<q, n>>
        PROVE  n = op[q] /\ pc[q] # "idle"
    <3>1. <<q, n>> # o
      BY <1>3, Sides
    <3>2. table[k] = <<q, n>>
      BY <1>0, <1>4, <2>1, <3>1 DEF TypeOK
    <3> QED
      BY <1>0, <3>2 DEF NoLeaks
  <2> QED
    BY <1>4, <2>1 DEF NoLeaks
<1> QED
  BY <1>7, <1>8, <1>9 DEF Parts

LEMMA PumpCheckStep ==
    ASSUME IndInv, PumpCheck PROVE Parts'
<1>1. /\ UNCHANGED <<id, table, closed, incoming, op, pc, msg, tgt>>
      /\ pump = "check" /\ pump' \in {"recv", "send"}
  BY DEF PumpCheck, procVars
<1> QED
  BY <1>1 DEF IndInv, Parts, RoutedByKey, EntriesOpen, NoLeaks, TargetMatches, CreateMatches,
              Fresh, RemoteOpen, Key

LEMMA PumpStopStep ==
    ASSUME IndInv, PumpLost \/ PumpCancelled PROVE Parts'
<1>0. TypeOK /\ NoLeaks /\ Fresh
  BY DEF IndInv
<1>1. pump' = "stopped" /\ UNCHANGED <<id, incoming, op, pc>>
  BY DEF PumpLost, PumpCancelled, procVars
<1>2. RoutedByKey' /\ TargetMatches' /\ CreateMatches' /\ RemoteOpen'
  BY <1>1 DEF IndInv, RoutedByKey, TargetMatches, CreateMatches, RemoteOpen, Key
<1>3. CASE PumpCancelled
  <2>1. UNCHANGED <<table, closed>>
    BY <1>3 DEF PumpCancelled
  <2>2. EntriesOpen' /\ NoLeaks' /\ Fresh'
    BY <1>1, <2>1 DEF IndInv, EntriesOpen, NoLeaks, Fresh, Key
  <2> QED
    BY <1>2, <2>2 DEF Parts
<1>4. CASE PumpLost
  <2>1. /\ closed' = [o \in Objs |-> closed[o] \/ \E k \in Keys : table[k] = o]
        /\ \A k \in Keys : table'[k] = None
    BY <1>4 DEF PumpLost
  <2>2. EntriesOpen'
    BY <2>1 DEF EntriesOpen
  <2>3. NoLeaks'
    BY <2>1, Sides DEF NoLeaks
  <2>4. ASSUME NEW q \in Procs, NEW n \in 1 .. MaxOps, n > op[q]
        PROVE  ~closed'[<<q, n>>] /\ incoming[<<q, n>>] = <<>>
    <3>1. \A k \in Keys : table[k] # <<q, n>>
      BY <1>0, <2>4 DEF NoLeaks, TypeOK
    <3>2. ~closed[<<q, n>>] /\ incoming[<<q, n>>] = <<>> /\ <<q, n>> \in Objs
      BY <1>0, <2>4, Sides DEF Fresh
    <3> QED
      BY <2>1, <3>1, <3>2
  <2>5. Fresh'
    BY <1>1, <2>4 DEF Fresh
  <2> QED
    BY <1>2, <2>2, <2>3, <2>5 DEF Parts
<1> QED
  BY <1>3, <1>4

-----------------------------------------------------------------------------
(* The invariant is inductive. *)
LEMMA Inductive == Spec => []IndInv
<1>1. ASSUME IndInv, [Next]_vars PROVE IndInv'
  <2>1. TypeOK'
    BY <1>1, TypeStep
  <2>2. TypeOK
    BY <1>1 DEF IndInv
  <2>3. ASSUME NEW p \in Procs, Send(p) PROVE Parts'
    BY <1>1, <2>2, <2>3, FrameStep DEF Send, Go, pumpVars, TypeOK
  <2>4. ASSUME NEW p \in Procs, Timeout(p) PROVE Parts'
    BY <1>1, <2>2, <2>4, FrameStep DEF Timeout, Go, pumpVars, TypeOK
  <2>5. ASSUME NEW i \in RemoteIDs, DeviceSend(i) PROVE Parts'
    BY <1>1, <2>5, FrameStep DEF DeviceSend, procVars, pumpVars
  <2>6. ASSUME Lose \/ Close \/ UNCHANGED vars PROVE Parts'
    BY <1>1, <2>6, FrameStep DEF Lose, Close, vars, procVars, pumpVars
  <2>7. Parts'
    BY <1>1, <2>3, <2>4, <2>5, <2>6, NewExchangeStep, ReceiveStep, CloseExchangeStep,
       PumpReceiveStep, PumpLookupStep, PumpCreateStep, PumpCheckStep, PumpSendStep,
       PumpStopStep DEF Next, OpStep, PumpStep
  <2> QED
    BY <2>1, <2>7 DEF IndInv, Parts
<1> QED
  BY <1>1, InitInv, PTL DEF Spec

(* An exchange is given only messages of its own ID and side, although the
   pump delivers to what it looked up earlier and nextID wraps. *)
THEOREM DeliversByKey == Spec => []RoutedByKey
<1>1. IndInv => RoutedByKey
  BY DEF IndInv
<1> QED
  BY <1>1, Inductive, PTL

(* The manager's table holds open exchanges under their own keys only. *)
THEOREM TableIsOpen == Spec => []EntriesOpen
<1>1. IndInv => EntriesOpen
  BY DEF IndInv
<1> QED
  BY <1>1, Inductive, PTL

(* No operation that has ended leaves its exchange in the table. *)
THEOREM NothingLeaks == Spec => []NoLeaks
<1>1. IndInv => NoLeaks
  BY DEF IndInv
<1> QED
  BY <1>1, Inductive, PTL

-----------------------------------------------------------------------------
(* No late answer reaches another operation, as long as nextID has not gone *)
(* round: no more exchanges are created than there are IDs. Otherwise two   *)
(* exchanges share a key, and a key is all HandleMessage looks at.          *)
NoWrap == IsFiniteSet(Local) /\ Cardinality(Local) <= NumIDs

(* The exchanges created so far. *)
Made == {o \in Local : o[2] <= op[o[1]]}

(* A message of the device names the exchange it is meant for by its key. *)
Addressed(m) == m.to \in Made \cup Remote /\ m.key = Key(m.to)

(* Every exchange has taken the next ID, so no two have the same. *)
IdInv ==
    /\ nextID = Cardinality(Made) % NumIDs
    /\ \A o \in Made : id[o] < Cardinality(Made)
    /\ \A o, q \in Made : id[o] = id[q] => o = q

AnswerInv ==
    /\ \A m \in net : Addressed(m)
    /\ msg # None => Addressed(msg)
    /\ \A o \in Objs : \A i \in 1 .. Len(incoming[o]) : incoming[o][i].to = o

OwnInv == IdInv /\ AnswerInv /\ OwnAnswers

(* Sequences after Append and Tail, element by element. *)
LEMMA AppendElements ==
    ASSUME NEW S, NEW s \in Seq(S), NEW e \in S
    PROVE  /\ Len(Append(s, e)) = Len(s) + 1
           /\ \A i \in 1 .. Len(s) : Append(s, e)[i] = s[i]
           /\ Append(s, e)[Len(s) + 1] = e
OBVIOUS

LEMMA TailElements ==
    ASSUME NEW S, NEW s \in Seq(S), s # <<>>
    PROVE  /\ Len(Tail(s)) = Len(s) - 1
           /\ \A i \in 1 .. Len(Tail(s)) : Tail(s)[i] = s[i + 1]
           /\ Head(s) = s[1] /\ Len(s) \in Nat \ {0}
OBVIOUS

(* Exchanges that exist are told apart by their keys. *)
LEMMA KeysDiffer ==
    ASSUME TypeOK, RemoteOpen, IdInv,
           NEW o \in Made \cup Remote, NEW q \in Made \cup Remote, Key(o) = Key(q)
    PROVE  o = q
<1>1. id[o] = id[q] /\ (o \in Local <=> q \in Local)
  BY DEF Key
<1>2. CASE o \in Local
  <2>1. o \in Made /\ q \in Made
    BY <1>1, <1>2, Sides
  <2> QED
    BY <1>1, <2>1 DEF IdInv
<1>3. CASE o \notin Local
  <2>1. o \in Remote /\ q \in Remote
    BY <1>1, <1>3 DEF Made
  <2>2. o[2] = q[2]
    BY <1>1, <2>1 DEF RemoteOpen
  <2> QED
    BY <2>1, <2>2 DEF Remote
<1> QED
  BY <1>2, <1>3

(* NewExchange: the ID is one that no exchange has had. *)
LEMMA OwnNew ==
    ASSUME IndInv, NoWrap, OwnInv, NEW p \in Procs, NewExchange(p)
    PROVE  OwnInv'
<1>0. TypeOK /\ Fresh /\ IdInv
  BY DEF IndInv, OwnInv
<1>1. op[p] \in 0 .. MaxOps /\ op[p] + 1 \in 1 .. MaxOps
  BY <1>0 DEF TypeOK, NewExchange
<1>. DEFINE o == <<p, op[p] + 1>>
            c == Cardinality(Made)
<1>2. o \in Local /\ o \in Objs /\ o \notin Remote /\ o \notin Made
  BY <1>0, <1>1, Sides DEF Made, TypeOK
<1>3. /\ id' = [id EXCEPT ![o] = nextID]
      /\ op' = [op EXCEPT ![p] = op[p] + 1]
      /\ nextID' = (nextID + 1) % NumIDs
      /\ UNCHANGED <<incoming, got, msg, net>>
  BY DEF NewExchange, pumpVars, netVars
<1>4. Made' = Made \cup {o}
  <2>1. ASSUME NEW x \in Local PROVE x \in Made' <=> x \in Made \/ x = o
    <3>1. PICK q \in Procs, n \in 1 .. MaxOps : x = <<q, n>>
      BY DEF Local
    <3>2. x[1] = q /\ x[2] = n /\ op[q] \in Nat
      BY <1>0, <3>1 DEF TypeOK
    <3>3. CASE q = p
      <4>1. op'[q] = op[p] + 1
        BY <1>0, <1>3, <3>3 DEF TypeOK
      <4>2. n <= op[p] + 1 <=> n <= op[p] \/ n = op[p] + 1
        BY <1>1
      <4> QED
        BY <3>1, <3>2, <3>3, <4>1, <4>2 DEF Made
    <3>4. CASE q # p
      <4>1. op'[q] = op[q] /\ x # o
        BY <1>0, <1>3, <3>1, <3>4 DEF TypeOK
      <4> QED
        BY <3>2, <4>1 DEF Made
    <3> QED
      BY <3>3, <3>4
  <2>2. Made' \subseteq Local /\ Made \cup {o} \subseteq Local
    BY <1>2 DEF Made
  <2> QED
    BY <2>1, <2>2
<1>5. /\ c \in Nat /\ Cardinality(Made') = c + 1 /\ c < NumIDs
  <2>1. IsFiniteSet(Made) /\ Made \subseteq Local
    BY FS_Subset DEF Made, NoWrap
  <2>2. IsFiniteSet(Made \cup {o}) /\ Cardinality(Made \cup {o}) = c + 1
    BY <1>2, <2>1, FS_AddElement
  <2>3. Cardinality(Made \cup {o}) <= Cardinality(Local)
    BY <1>2, <2>1, FS_Subset DEF NoWrap
  <2>4. c \in Nat /\ Cardinality(Local) \in Nat
    BY <2>1, FS_CardinalityType DEF NoWrap
  <2> QED
    BY <1>4, <2>2, <2>3, <2>4 DEF NoWrap
<1>6. nextID = c
  BY <1>0, <1>5 DEF IdInv
<1>7. /\ id'[o] = c
      /\ \A x \in Made \cup Remote : x # o /\ id'[x] = id[x] /\ Key(x)' = Key(x)
  <2>1. \A x \in Made \cup Remote : x \in Objs /\ x # o
    BY <1>2 DEF Made, Objs
  <2> QED
    BY <1>0, <1>2, <1>3, <1>6, <2>1 DEF TypeOK, Key
<1>8. \A x \in Made : id[x] \in Nat
  BY <1>0 DEF TypeOK, Made, Objs, IDs
<1>9. IdInv'
  <2>1. nextID' = Cardinality(Made') % NumIDs
    BY <1>3, <1>5, <1>6
  <2>2. \A x \in Made' : id'[x] < Cardinality(Made')
    BY <1>0, <1>4, <1>5, <1>7, <1>8 DEF IdInv
  <2>3. \A x, y \in Made' : id'[x] = id'[y] => x = y
    BY <1>0, <1>4, <1>5, <1>7, <1>8 DEF IdInv
  <2> QED
    BY <2>1, <2>2, <2>3 DEF IdInv
<1>10. \A m : Addressed(m) => Addressed(m)'
  BY <1>4, <1>7 DEF Addressed
<1>11. AnswerInv'
  BY <1>3, <1>10 DEF OwnInv, AnswerInv
<1> QED
  BY <1>3, <1>9, <1>11 DEF OwnInv, OwnAnswers

(* Steps that create no exchange and fill no queue: what is new on the
   network and in the pump's hands is addressed. *)
LEMMA OwnFrame ==
    ASSUME OwnInv, UNCHANGED <<nextID, id, op, incoming, got>>,
           \A m \in net' : m \in net \/ Addressed(m),
           msg' = msg \/ msg' \in net
    PROVE  OwnInv'
<1>1. Made' = Made
  BY DEF Made
<1>2. \A m : Addressed(m) <=> Addressed(m)'
  BY <1>1 DEF Addressed, Key
<1>3. IdInv'
  BY <1>1 DEF OwnInv, IdInv
<1>4. AnswerInv'
  BY <1>2 DEF OwnInv, AnswerInv
<1> QED
  BY <1>3, <1>4 DEF OwnInv, OwnAnswers

(* Receive moves the message to its owner. *)
LEMMA OwnReceive ==
    ASSUME IndInv, OwnInv, NEW p \in Procs, Receive(p)
    PROVE  OwnInv'
<1>0. TypeOK
  BY DEF IndInv
<1>1. UNCHANGED <<nextID, id, op, net, msg>>
  BY DEF Receive, pumpVars, netVars
<1>2. CASE incoming[Cur(p)] = <<>>
  BY <1>1, <1>2, OwnFrame DEF Receive
<1>3. CASE incoming[Cur(p)] # <<>>
  <2>. DEFINE o == Cur(p)
  <2>1. o \in Objs
    BY <1>0, CurType DEF Receive
  <2>2. /\ got' = [got EXCEPT ![o] = Append(got[o], Head(incoming[o]))]
        /\ incoming' = [incoming EXCEPT ![o] = Tail(incoming[o])]
    BY <1>3 DEF Receive
  <2>3. incoming[o] \in Seq(Msgs) /\ got[o] \in Seq(Msgs)
    BY <1>0, <2>1 DEF TypeOK
  <2>4. Head(incoming[o]).to = o /\ Head(incoming[o]) \in Msgs
    BY <1>3, <2>1, <2>3, TailElements DEF OwnInv, AnswerInv
  <2>5. \A i \in 1 .. Len(Tail(incoming[o])) : Tail(incoming[o])[i].to = o
    BY <1>3, <2>1, <2>3, TailElements DEF OwnInv, AnswerInv
  <2>6. \A i \in 1 .. Len(Append(got[o], Head(incoming[o]))) :
          Append(got[o], Head(incoming[o]))[i].to = o
    <3>1. \A i \in 1 .. Len(got[o]) : got[o][i].to = o
      BY <2>1 DEF OwnInv, OwnAnswers
    <3> QED
      BY <2>3, <2>4, <3>1, AppendElements
  <2>7. \A x \in Objs : /\ incoming'[x] = IF x = o THEN Tail(incoming[o]) ELSE incoming[x]
                        /\ got'[x] = IF x = o THEN Append(got[o], Head(incoming[o])) ELSE got[x]
    BY <1>0, <2>2 DEF TypeOK
  <2>8. Made' = Made /\ \A m : Addressed(m) <=> Addressed(m)'
    BY <1>1 DEF Made, Addressed, Key
  <2>9. IdInv'
    BY <1>1, <2>8 DEF OwnInv, IdInv
  <2>10. \A x \in Objs : \A i \in 1 .. Len(incoming'[x]) : incoming'[x][i].to = x
    BY <2>5, <2>7 DEF OwnInv, AnswerInv
  <2>11. \A x \in Objs : \A i \in 1 .. Len(got'[x]) : got'[x][i].to = x
    BY <2>6, <2>7 DEF OwnInv, OwnAnswers
  <2> QED
    BY <1>1, <2>8, <2>9, <2>10, <2>11 DEF OwnInv, AnswerInv, OwnAnswers
<1> QED
  BY <1>2, <1>3

(* PumpSend: the target has the message's key, so it is the addressee. *)
LEMMA OwnPumpSend ==
    ASSUME IndInv, OwnInv, PumpSend
    PROVE  OwnInv'
<1>0. TypeOK /\ RemoteOpen /\ Fresh /\ TargetMatches
  BY DEF IndInv
<1>1. UNCHANGED <<nextID, id, op, net, msg, got>> /\ pump = "send"
  BY DEF PumpSend, procVars, netVars
<1>2. CASE incoming' = incoming
  BY <1>1, <1>2, OwnFrame
<1>3. CASE incoming' = [incoming EXCEPT ![tgt] = Append(incoming[tgt], msg)]
  <2>1. tgt \in Objs /\ msg \in Msgs /\ Addressed(msg)
    BY <1>0, <1>1 DEF TypeOK, OwnInv, AnswerInv
  <2>2. tgt \in Made \cup Remote
    <3>1. CASE tgt \in Remote
      BY <3>1
    <3>2. CASE tgt \in Local
      <4>1. PICK q \in Procs, n \in 1 .. MaxOps : tgt = <<q, n>>
        BY <3>2 DEF Local
      <4>2. op[q] \in Nat /\ ~(n > op[q])
        BY <1>0, <1>1, <4>1 DEF Fresh, TypeOK
      <4> QED
        BY <3>2, <4>1, <4>2 DEF Made
    <3> QED
      BY <2>1, <3>1, <3>2, Sides
  <2>3. msg.to = tgt
    BY <1>0, <1>1, <2>1, <2>2, KeysDiffer DEF OwnInv, Addressed, TargetMatches
  <2>4. incoming[tgt] \in Seq(Msgs)
    BY <1>0, <2>1 DEF TypeOK
  <2>5. \A i \in 1 .. Len(Append(incoming[tgt], msg)) : Append(incoming[tgt], msg)[i].to = tgt
    <3>1. \A i \in 1 .. Len(incoming[tgt]) : incoming[tgt][i].to = tgt
      BY <2>1 DEF OwnInv, AnswerInv
    <3> QED
      BY <2>1, <2>3, <2>4, <3>1, AppendElements
  <2>6. \A x \in Objs : incoming'[x] = IF x = tgt THEN Append(incoming[tgt], msg) ELSE incoming[x]
    BY <1>0, <1>3 DEF TypeOK
  <2>7. \A x \in Objs : \A i \in 1 .. Len(incoming'[x]) : incoming'[x][i].to = x
    BY <2>5, <2>6 DEF OwnInv, AnswerInv
  <2>8. Made' = Made /\ \A m : Addressed(m) <=> Addressed(m)'
    BY <1>1 DEF Made, Addressed, Key
  <2> QED
    BY <1>1, <2>7, <2>8 DEF OwnInv, IdInv, AnswerInv, OwnAnswers
<1> QED
  BY <1>2, <1>3 DEF PumpSend

(* What the device sends is addressed. *)
LEMMA OwnSends ==
    ASSUME IndInv, OwnInv, (\E p \in Procs : Send(p)) \/ \E i \in RemoteIDs : DeviceSend(i)
    PROVE  OwnInv'
<1>0. TypeOK /\ RemoteOpen
  BY DEF IndInv
<1>1. ASSUME NEW p \in Procs, Send(p) PROVE OwnInv'
  <2>1. Cur(p) \in Made
    <3>1. Cur(p) \in Local
      BY <1>0, <1>1, CurType DEF Send
    <3>2. Cur(p)[1] = p /\ Cur(p)[2] = op[p] /\ op[p] \in Nat
      BY <1>0 DEF Cur, TypeOK
    <3> QED
      BY <3>1, <3>2 DEF Made
  <2>2. \A n : Addressed([key |-> Key(Cur(p)), to |-> Cur(p), n |-> n])
    BY <2>1 DEF Addressed
  <2>3. \A m \in net' : m \in net \/ Addressed(m)
    BY <1>1, <2>2 DEF Send
  <2> QED
    BY <1>1, <2>3, OwnFrame DEF Send, pumpVars
<1>2. ASSUME NEW i \in RemoteIDs, DeviceSend(i) PROVE OwnInv'
  <2>1. Key(<<"remote", i>>) = [id |-> i, side |-> "remote"] /\ <<"remote", i>> \in Remote
    BY <1>0, Sides DEF Key, RemoteOpen
  <2>2. \A n : Addressed([key |-> [id |-> i, side |-> "remote"], to |-> <<"remote", i>>, n |-> n])
    BY <2>1 DEF Addressed
  <2>3. \A m \in net' : m \in net \/ Addressed(m)
    BY <1>2, <2>2 DEF DeviceSend
  <2> QED
    BY <1>2, <2>3, OwnFrame DEF DeviceSend, procVars, pumpVars
<1> QED
  BY <1>1, <1>2

(* The other steps. *)
LEMMA OwnOthers ==
    ASSUME OwnInv,
           \/ \E p \in Procs : Timeout(p) \/ CloseExchange(p)
           \/ \E m \in net : PumpReceive(m)
           \/ PumpLookup \/ PumpCreate \/ PumpCheck \/ PumpLost \/ PumpCancelled
           \/ Lose \/ Close \/ UNCHANGED vars
    PROVE  OwnInv'
<1>1. /\ UNCHANGED <<nextID, id, op, incoming, got>>
      /\ net' \subseteq net
      /\ msg' = msg \/ msg' \in net
  BY DEF Timeout, CloseExchange, PumpReceive, PumpLookup, PumpCreate, PumpCheck, PumpLost,
         PumpCancelled, Lose, Close, vars, procVars, pumpVars, netVars
<1> QED
  BY <1>1, OwnFrame

LEMMA OwnNext == IndInv /\ (NoWrap => OwnInv) /\ [Next]_vars => (NoWrap => OwnInv')
  BY OwnNew, OwnReceive, OwnPumpSend, OwnSends, OwnOthers DEF Next, OpStep, PumpStep

LEMMA OwnInit == Init => OwnInv
<1> SUFFICES ASSUME Init PROVE OwnInv
  OBVIOUS
<1>1. Made = {}
  <2>1. \A o \in Local : o[1] \in Procs /\ o[2] \in 1 .. MaxOps
    BY DEF Local
  <2> QED
    BY <2>1 DEF Init, Made
<1>2. IdInv
  BY <1>1, FS_EmptySet DEF Init, IdInv
<1>3. \A o \in Objs : incoming[o] = <<>> /\ got[o] = <<>>
  BY DEF Init
<1> QED
  BY <1>2, <1>3 DEF Init, OwnInv, AnswerInv, OwnAnswers

(* An operation is handed only the answers to its own messages, however late
   and how often they come, for any number of goroutines that make no more
   exchanges than there are IDs. *)
THEOREM AnswersAreOwn == ASSUME NoWrap PROVE Spec => []OwnAnswers
<1>1. Init => OwnInv
  BY OwnInit
<1>2. IndInv /\ OwnInv /\ [Next]_vars => OwnInv'
  BY OwnNext, NoWrap
<1>3. OwnInv => OwnAnswers
  BY DEF OwnInv
<1> QED
  BY <1>1, <1>2, <1>3, Inductive, PTL DEF Spec

-----------------------------------------------------------------------------
(* The replay window of a session, for every window and every range of
   counters: PeerCounter implements ReplayFilter. The invariant is that the
   bitmap records the window exactly; it is inductive with the types. *)
CounterInv == CounterTypeOK /\ BitmapExact

-----------------------------------------------------------------------------
(* A session starts with an empty window. *)
LEMMA CounterInitInv == CounterInit => CounterInv
<1>. SUFFICES ASSUME CounterInit PROVE CounterInv
  OBVIOUS
<1>1. maxSeen = 0 /\ initiated = FALSE /\ bitmap = {} /\ accepted = {}
  BY DEF CounterInit
<1>2. maxSeen \in Counters
  BY <1>1, PeerCounterAssumption DEF Counters
<1>3. CounterTypeOK
  BY <1>1, <1>2 DEF CounterTypeOK
<1>4. BitmapExact
  BY <1>1 DEF BitmapExact
<1>. QED
  BY <1>3, <1>4 DEF CounterInv

(* The first counter of a session starts the window (validate, initiated). *)
LEMMA FirstKeepsInv ==
    ASSUME CounterInv, NEW c \in Counters, ValidateFirst(c)
    PROVE  CounterInv'
<1>1. accepted = {}
  BY DEF CounterInv, BitmapExact, ValidateFirst
<1>2. accepted' = {c} /\ maxSeen' = c /\ bitmap' = {0} /\ initiated' = TRUE
  BY <1>1 DEF ValidateFirst, Answer
<1>3. CounterTypeOK'
  BY <1>2, PeerCounterAssumption DEF CounterTypeOK, Bits
<1>4. \A i \in Bits : i \in bitmap' <=> maxSeen' - i \in accepted'
  BY <1>2, PeerCounterAssumption DEF Bits, Counters
<1>. QED
  BY <1>2, <1>3, <1>4, PeerCounterAssumption DEF CounterInv, BitmapExact, Counters

(* A larger counter shifts the window: bit i of the new bitmap is bit i - n
   of the old one, n being the distance (validate, bitmap <<= diff). *)
LEMMA AboveKeepsInv ==
    ASSUME CounterInv, NEW c \in Counters, ValidateAbove(c)
    PROVE  CounterInv'
<1>. DEFINE n == c - maxSeen
<1>1. /\ maxSeen \in Nat /\ c \in Nat /\ W \in Nat \ {0}
      /\ n \in Nat \ {0} /\ accepted \subseteq Int
  BY PeerCounterAssumption DEF CounterInv, CounterTypeOK, ValidateAbove, Counters
<1>2. /\ accepted' = accepted \cup {c} /\ maxSeen' = c /\ initiated' = TRUE
      /\ bitmap' = (IF n >= W THEN {} ELSE {i \in Bits : i - n \in bitmap}) \cup {0}
  BY DEF ValidateAbove, Answer, ShiftLeft, CounterInv, CounterTypeOK
<1>3. CounterTypeOK'
  BY <1>1, <1>2 DEF CounterInv, CounterTypeOK, Bits
<1>4. \A a \in accepted : a <= maxSeen
  BY DEF CounterInv, BitmapExact
<1>5. ASSUME NEW i \in Bits PROVE i \in bitmap' <=> c - i \in accepted'
  <2>1. i \in Int /\ 0 <= i /\ i < W
    BY <1>1 DEF Bits
  <2>2. CASE i = 0
    BY <1>1, <1>2, <2>2
  <2>3. CASE i > 0 /\ i - n < 0
    <3>1. i - n \notin bitmap
      BY <1>1, <2>1, <2>3 DEF CounterInv, CounterTypeOK, Bits
    <3>2. i \notin bitmap'
      BY <1>2, <2>3, <3>1
    <3>3. c - i > maxSeen /\ c - i # c
      BY <1>1, <2>1, <2>3
    <3>4. c - i \notin accepted
      BY <1>1, <1>4, <2>1, <3>3
    <3>. QED
      BY <1>2, <3>2, <3>3, <3>4
  <2>4. CASE i > 0 /\ i - n >= 0
    <3>1. i - n \in Bits /\ n < W
      BY <1>1, <2>1, <2>4 DEF Bits
    <3>2. i \in bitmap' <=> i - n \in bitmap
      BY <1>1, <1>2, <2>1, <2>4, <3>1
    <3>3. i - n \in bitmap <=> maxSeen - (i - n) \in accepted
      BY <3>1 DEF CounterInv, BitmapExact
    <3>4. maxSeen - (i - n) = c - i /\ c - i # c
      BY <1>1, <2>1, <2>4
    <3>. QED
      BY <1>2, <3>2, <3>3, <3>4
  <2>. QED
    BY <2>1, <2>2, <2>3, <2>4, <1>1
<1>6. \A a \in accepted' : a <= c
  BY <1>1, <1>2, <1>4
<1>. QED
  BY <1>2, <1>3, <1>5, <1>6 DEF CounterInv, BitmapExact

(* A counter in the window sets its bit, others change nothing (validate). *)
LEMMA BelowKeepsInv ==
    ASSUME CounterInv, NEW c \in Counters, ValidateBelow(c)
    PROVE  CounterInv'
<1>1. maxSeen \in Nat /\ c \in Nat /\ W \in Nat \ {0} /\ maxSeen - c \in Nat
  BY PeerCounterAssumption DEF CounterInv, CounterTypeOK, ValidateBelow, Counters
<1>2. CASE maxSeen - c >= W \/ maxSeen - c \in bitmap
  <2>1. accepted' = accepted /\ bitmap' = bitmap /\ maxSeen' = maxSeen /\ initiated' = initiated
    BY <1>2 DEF ValidateBelow, Answer
  <2>. QED
    BY <2>1 DEF CounterInv, CounterTypeOK, BitmapExact
<1>3. CASE ~(maxSeen - c >= W \/ maxSeen - c \in bitmap)
  <2>1. /\ accepted' = accepted \cup {c} /\ bitmap' = bitmap \cup {maxSeen - c}
        /\ maxSeen' = maxSeen /\ initiated' = initiated /\ initiated /\ c <= maxSeen
    BY <1>3 DEF ValidateBelow, Answer
  <2>2. maxSeen - c \in Bits
    BY <1>1, <1>3 DEF Bits
  <2>3. CounterTypeOK'
    BY <2>1, <2>2 DEF CounterInv, CounterTypeOK
  <2>4. \A i \in Bits : i \in bitmap' <=> maxSeen - i \in accepted'
    BY <1>1, <2>1 DEF CounterInv, BitmapExact, Bits
  <2>. QED
    BY <2>1, <2>3, <2>4 DEF CounterInv, BitmapExact
<1>. QED
  BY <1>2, <1>3

(* The bitmap is an exact record of the window in every reachable state. *)
THEOREM WindowIsExact == CounterSpec => []BitmapExact
<1>1. CounterInit => CounterInv
  BY CounterInitInv
<1>2. CounterInv /\ [CounterNext]_counterVars => CounterInv'
  <2>1. ASSUME CounterInv, NEW c \in Counters, Validate(c) PROVE CounterInv'
    BY <2>1, FirstKeepsInv, AboveKeepsInv, BelowKeepsInv DEF Validate
  <2>2. ASSUME CounterInv, UNCHANGED counterVars PROVE CounterInv'
    BY <2>2 DEF counterVars, CounterInv, CounterTypeOK, BitmapExact
  <2>. QED
    BY <2>1, <2>2 DEF CounterNext
<1>3. CounterInv => BitmapExact
  BY DEF CounterInv
<1>. QED
  BY <1>1, <1>2, <1>3, PTL DEF CounterSpec

-----------------------------------------------------------------------------
(* Every call of validate answers as the filter does. *)
LEMMA ValidateIsAsk ==
    ASSUME CounterInv, NEW c \in Counters, Validate(c)
    PROVE  Filter!Ask(c)
<1>1. maxSeen \in Nat /\ c \in Nat /\ W \in Nat \ {0} /\ accepted \subseteq Int
  BY PeerCounterAssumption DEF CounterInv, CounterTypeOK, Counters
<1>2. CASE ValidateFirst(c)
  <2>1. accepted = {}
    BY <1>2 DEF CounterInv, BitmapExact, ValidateFirst
  <2>. QED
    BY <1>2, <2>1 DEF ValidateFirst, Answer, Filter!Ask, Filter!Fresh
<1>3. CASE ValidateAbove(c)
  <2>1. c > maxSeen /\ \A a \in accepted : a <= maxSeen
    BY <1>3 DEF ValidateAbove, CounterInv, BitmapExact
  <2>2. Filter!Fresh(c)
    BY <1>1, <2>1 DEF Filter!Fresh
  <2>. QED
    BY <1>3, <2>2 DEF ValidateAbove, Answer, Filter!Ask
<1>4. CASE ValidateBelow(c)
  <2>1. initiated /\ c <= maxSeen /\ maxSeen \in accepted /\ \A a \in accepted : a <= maxSeen
    BY <1>4 DEF ValidateBelow, CounterInv, BitmapExact
  <2>2. CASE maxSeen - c >= W \/ maxSeen - c \in bitmap
    <3>1. ~Filter!Fresh(c)
      <4>1. CASE maxSeen - c >= W
        BY <1>1, <2>1, <4>1 DEF Filter!Fresh
      <4>2. CASE maxSeen - c \in bitmap
        <5>1. maxSeen - c \in Bits /\ maxSeen - (maxSeen - c) = c
          BY <1>1, <4>2 DEF CounterInv, CounterTypeOK
        <5>2. c \in accepted
          BY <4>2, <5>1 DEF CounterInv, BitmapExact
        <5>. QED
          BY <5>2 DEF Filter!Fresh
      <4>. QED
        BY <2>2, <4>1, <4>2
    <3>. QED
      BY <1>4, <2>2, <3>1 DEF ValidateBelow, Answer, Filter!Ask
  <2>3. CASE ~(maxSeen - c >= W \/ maxSeen - c \in bitmap)
    <3>1. maxSeen - c \in Bits /\ maxSeen - (maxSeen - c) = c
      BY <1>1, <2>1, <2>3 DEF Bits
    <3>2. c \notin accepted
      BY <2>3, <3>1 DEF CounterInv, BitmapExact
    <3>3. Filter!Fresh(c)
      BY <1>1, <2>1, <2>3, <3>2 DEF Filter!Fresh
    <3>. QED
      BY <1>4, <2>3, <3>3 DEF ValidateBelow, Answer, Filter!Ask
  <2>. QED
    BY <2>2, <2>3
<1>. QED
  BY <1>2, <1>3, <1>4 DEF Validate

(* peerMessageCounter implements the replay filter: whatever arrives in
   whatever order, validate accepts no counter twice and refuses only
   replays and counters W or more below the largest. *)
THEOREM ImplementsFilter == CounterSpec => IsFilter
<1>1. CounterInit => CounterInv /\ Filter!Init
  BY CounterInitInv DEF CounterInit, Filter!Init
<1>2. CounterInv /\ [CounterNext]_counterVars =>
        CounterInv' /\ [\E c \in Counters : Filter!Ask(c)]_<<accepted, answer>>
  <2>1. ASSUME CounterInv, NEW c \in Counters, Validate(c) PROVE CounterInv' /\ Filter!Ask(c)
    BY <2>1, FirstKeepsInv, AboveKeepsInv, BelowKeepsInv, ValidateIsAsk DEF Validate
  <2>2. ASSUME CounterInv, UNCHANGED counterVars PROVE CounterInv' /\ UNCHANGED <<accepted, answer>>
    BY <2>2 DEF counterVars, CounterInv, CounterTypeOK, BitmapExact
  <2>. QED
    BY <2>1, <2>2 DEF CounterNext
<1>. QED
  BY <1>1, <1>2, PTL DEF CounterSpec, IsFilter, Filter!Spec
=============================================================================
