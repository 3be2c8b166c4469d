-------------------------- MODULE ControllerProof ---------------------------
(***************************************************************************)
(* Proofs about Controller, for any number of BLE connections, session IDs *)
(* and attempts: two pumps never read one transport, a failed connect      *)
(* leaves nothing behind, requests go out and answers come in under the    *)
(* keys of their session while transports and tables are exchanged, and    *)
(* only the device a session was made for can have its keys.               *)
(***************************************************************************)
EXTENDS Controller, TLAPS, WellFoundedInduction

Labels == {"start", "send", "wait", "lost", "subDone", "subFailed", "migrate", "stopMain",
           "ready", "opsend", "opwait", "opdone", "oplost", "watch", "resolve", "end", "closed"}

PumpStates == [st : {"off", "recv", "ended"}, conn : Nat, stack : Nat, cancelled : BOOLEAN]

IsSeq(s) == \E M : s \in Seq(M)

(* Some variables hold messages and keys of many forms; of these only the
   fields are typed. *)
IsExchange(e) ==
    /\ e = [open |-> e.open, stack |-> e.stack, id |-> e.id, sid |-> e.sid, inbox |-> e.inbox]
    /\ e.open \in BOOLEAN /\ e.id \in Nat

IsSession(e) ==
    /\ e = [proto |-> e.proto, peer |-> e.peer, key |-> e.key, node |-> e.node]
    /\ e.proto \in {"PASE", "CASE"}

IsMessage(m) ==
    /\ m = [dir |-> m.dir, conn |-> m.conn, addr |-> m.addr, sid |-> m.sid, lsid |-> m.lsid,
            eid |-> m.eid, wire |-> m.wire]
    /\ m.conn \in Nat /\ m.eid \in Nat

TypeOK ==
    /\ plan \in {"case", "pase", "ble"} /\ pc \in Labels
    /\ conn.id \in Nat /\ nConn \in Nat /\ stack \in Stacks
    /\ pump \in [Pumps -> PumpStates]
    /\ table = [s \in Stacks |-> table[s]]
    /\ \A s \in Stacks : IDs(s) \subseteq 1 .. NumSIDs
    /\ nextID \in [Stacks -> 1 .. NumSIDs]
    /\ nextEx \in Nat /\ tries \in Nat
    /\ IsExchange(ex)

(* A PASE session is made on a stack of its own, the one after the
   controller's, until the controller takes that stack over. *)
Beside == OnSub \/ pc = "migrate"
Work   == IF Beside THEN stack + 1 ELSE stack

(* Transports are numbered in the order they are made, and the controller
   reads the latest one it has taken over. *)
PumpInv ==
    /\ pump["main"].conn <= conn.id /\ conn.id <= nConn
    /\ OnSub => /\ pump["sub"].conn = nConn /\ pump["sub"].stack = stack + 1
                /\ pc \in {"send", "wait", "subDone", "subFailed"}
    /\ pc \in {"subDone", "subFailed"} => OnSub
    /\ Beside => plan = "ble" /\ tries = 0 /\ conn.id < nConn /\ stack + 1 \in Stacks
    /\ pc = "start" => tries = 0

(* The caller's session is in the table it works with. *)
HasSession == {"send", "wait", "subDone", "migrate", "stopMain", "ready", "opsend", "opwait",
               "opdone", "oplost"}

SessionInv ==
    pc \in HasSession =>
      /\ session[1] = Work /\ session[2] \in IDs(Work)
      /\ plan = "ble" /\ table[Work][session[2]].proto = "PASE" => tries = 0

(* The stacks not reached yet are empty, and the first session of a stack
   over BLE is its only one before CASE. *)
FreshInv ==
    /\ pc \notin {"end", "closed"} =>
         \A s \in Stacks : s > Work => IDs(s) = {} /\ nextID[s] = 1
    /\ plan = "ble" /\ tries = 0 => IDs(stack) \subseteq {1}
    /\ Beside => IDs(Work) \subseteq {1}

EntryInv == \A s \in Stacks : \A i \in IDs(s) : IsSession(table[s][i])

CoreInv == TypeOK /\ PumpInv /\ SessionInv /\ FreshInv /\ EntryInv

-----------------------------------------------------------------------------
(* Only the session that is being established has no keys. *)
KeyInv ==
    /\ \A s \in Stacks : \A i \in IDs(s) :
         table[s][i].key = NoKey => pc \in {"send", "wait"} /\ s = session[1] /\ i = session[2]
    /\ pc \in {"send", "wait"} => table[session[1]][session[2]].key = NoKey

(* The caller's exchange: during a handshake it belongs to the unsecured
   session, during an operation to the caller's. *)
ExchangeInv ==
    /\ ex.open => pc \in {"send", "wait", "opsend", "opwait"}
    /\ pc \in {"send", "wait"} => ex.sid = 0
    /\ pc \in {"opsend", "opwait"} => ex.sid = session[2]
    /\ ex.id < nextEx

HandshakeInv ==
    pc \in {"send", "wait"} =>
      /\ hs = [proto |-> hs.proto, sid |-> hs.sid, n |-> hs.n, peer |-> hs.peer, log |-> hs.log]
      /\ IsSeq(hs.log)
      /\ hs.log[Len(hs.log)].op # "Invoke"

(* Whatever is encrypted on the way was made with a session that has its
   keys in the controller's table still. *)
MessageInv(m) ==
    /\ IsMessage(m) /\ m.eid < nextEx
    /\ m.wire.key # NoKey =>
         /\ m.conn <= conn.id
         /\ m.lsid \in IDs(stack) /\ table[stack][m.lsid].key # NoKey
    /\ m.dir = "out" /\ m.wire.body.op = "Invoke" =>
         /\ m.wire.key # NoKey
         /\ ex.open /\ m.eid = ex.id => m.wire.key = table[session[1]][session[2]].key

NetInv == \A m \in net : MessageInv(m)

SecureInv == KeyInv /\ ExchangeInv /\ HandshakeInv /\ NetInv /\ ~garbage

IndInv == CoreInv /\ SecureInv

-----------------------------------------------------------------------------
USE ControllerAssumption

LEMMA ModSmall ==
    ASSUME NEW k \in Nat, NEW N \in Nat \ {0}, k < N
    PROVE  k % N = k
OBVIOUS

LEMMA ModNat ==
    ASSUME NEW k \in Int, NEW N \in Nat \ {0}
    PROVE  k % N \in Nat /\ k % N < N
OBVIOUS

(* CreateSession finds a free ID when there is one, and 1 in a new table. *)
LEMMA FreeIDFound ==
    ASSUME TypeOK, NEW s \in Stacks, FreeIDs(s) # {}
    PROVE  NextFree(s) \in FreeIDs(s)
<1>. DEFINE d(i) == (i - nextID[s]) % NumSIDs
            T == {d(i) : i \in FreeIDs(s)}
<1>0. nextID[s] \in Nat /\ FreeIDs(s) \subseteq Nat
  BY DEF TypeOK, FreeIDs
<1>1. \A i \in FreeIDs(s) : d(i) \in Nat
  BY <1>0, ModNat
<1>2. T \subseteq Nat /\ T # {}
  BY <1>1
<1>3. \E x \in T : \A y \in T : ~(<<y, x>> \in OpToRel(<, Nat))
  BY <1>2, NatLessThanWellFounded, WFMin
<1>4. PICK x \in T : \A y \in T : ~(y < x)
  <2>1. PICK x \in T : \A y \in T : ~(<<y, x>> \in OpToRel(<, Nat))
    BY <1>3
  <2>2. \A y \in T : <<y, x>> \in Nat \X Nat
    BY <1>2
  <2>3. \A y \in T : ~(y < x)
    BY <2>1, <2>2 DEF OpToRel
  <2>. QED
    BY <2>3
<1>5. PICK i \in FreeIDs(s) : x = d(i)
  OBVIOUS
<1>6. \A j \in FreeIDs(s) : d(i) <= d(j)
  <2>1. \A j \in FreeIDs(s) : d(j) \in T /\ ~(d(j) < d(i))
    BY <1>4, <1>5
  <2>. QED
    BY <1>1, <2>1
<1>. QED
  BY <1>6 DEF NextFree

LEMMA FirstID ==
    ASSUME TypeOK, NEW s \in Stacks, IDs(s) = {}, nextID[s] = 1
    PROVE  1 \in FreeIDs(s) /\ NextFree(s) = 1
<1>1. FreeIDs(s) = 1 .. NumSIDs
  BY DEF FreeIDs
<1>2. 1 \in FreeIDs(s)
  BY <1>1
<1>3. NextFree(s) \in FreeIDs(s)
  BY <1>2, FreeIDFound
<1>4. \A i \in FreeIDs(s) : (i - nextID[s]) % NumSIDs = i - 1
  BY <1>1, ModSmall
<1>5. \A j \in FreeIDs(s) : (1 - nextID[s]) % NumSIDs <= (j - nextID[s]) % NumSIDs
  BY <1>1, <1>2, <1>4
<1>6. \A j \in FreeIDs(s) : (NextFree(s) - nextID[s]) % NumSIDs <= (j - nextID[s]) % NumSIDs
  BY <1>2, <1>5 DEF NextFree
<1>7. NextFree(s) - 1 <= 0
  BY <1>2, <1>3, <1>4, <1>6
<1>. QED
  BY <1>1, <1>2, <1>3, <1>7

(* A session is put into a table, takes its keys, or is removed. *)
LEMMA TableFacts ==
    ASSUME TypeOK, NEW s \in Stacks, NEW i, NEW rec
    PROVE  /\ table' = WithSession(s, i, rec) =>
                /\ IDs(s)' = IDs(s) \cup {i} /\ table'[s][i] = rec
                /\ \A j \in IDs(s) \ {i} : table'[s][j] = table[s][j]
                /\ \A t \in Stacks \ {s} : table'[t] = table[t]
                /\ table' = [t \in Stacks |-> table'[t]]
           /\ table' = RemoveSession(s, i) =>
                /\ IDs(s)' = IDs(s) \ {i}
                /\ \A j \in IDs(s) \ {i} : table'[s][j] = table[s][j]
                /\ \A t \in Stacks \ {s} : table'[t] = table[t]
                /\ table' = [t \in Stacks |-> table'[t]]
<1>1. table = [t \in Stacks |-> table[t]]
  BY DEF TypeOK
<1>2. ASSUME table' = WithSession(s, i, rec)
      PROVE  /\ table' = [table EXCEPT ![s] = table'[s]]
             /\ table'[s] = [j \in IDs(s) \cup {i} |-> IF j = i THEN rec ELSE table[s][j]]
  BY <1>1, <1>2 DEF WithSession
<1>3. ASSUME table' = RemoveSession(s, i)
      PROVE  /\ table' = [table EXCEPT ![s] = table'[s]]
             /\ table'[s] = [j \in IDs(s) \ {i} |-> table[s][j]]
  BY <1>1, <1>3 DEF RemoveSession
<1>4. ASSUME table' = [table EXCEPT ![s] = table'[s]]
      PROVE  /\ \A t \in Stacks \ {s} : table'[t] = table[t]
             /\ table' = [t \in Stacks |-> table'[t]]
  BY <1>1, <1>4
<1>. QED
  BY <1>2, <1>3, <1>4 DEF IDs

TakesKeys(s, i, pr, ky) ==
    table' = [table EXCEPT ![s][i] = [@ EXCEPT !.peer = pr, !.key = ky]]

LEMMA KeysFacts ==
    ASSUME TypeOK, NEW s \in Stacks, NEW i \in IDs(s), NEW pr, NEW ky, IsSession(table[s][i]),
           TakesKeys(s, i, pr, ky)
    PROVE  /\ \A t \in Stacks : IDs(t)' = IDs(t)
           /\ table'[s][i].key = ky /\ table'[s][i].proto = table[s][i].proto
           /\ table'[s][i].peer = pr /\ table'[s][i].node = table[s][i].node
           /\ IsSession(table'[s][i])
           /\ \A j \in IDs(s) \ {i} : table'[s][j] = table[s][j]
           /\ \A t \in Stacks \ {s} : table'[t] = table[t]
           /\ table' = [t \in Stacks |-> table'[t]]
<1>. DEFINE e == [table[s][i] EXCEPT !.peer = pr, !.key = ky]
<1>1. table = [t \in Stacks |-> table[t]]
  BY DEF TypeOK
<1>2. /\ e.key = ky /\ e.proto = table[s][i].proto
      /\ e.peer = pr /\ e.node = table[s][i].node /\ IsSession(e)
  <2>1. PICK a, b, c, d : table[s][i] = [proto |-> a, peer |-> b, key |-> c, node |-> d]
    BY DEF IsSession
  <2>2. e \in [proto : {a}, peer : {pr}, key : {ky}, node : {d}]
    <3>1. ASSUME NEW r, r = [proto |-> a, peer |-> b, key |-> c, node |-> d]
          PROVE  [r EXCEPT !.peer = pr, !.key = ky]
                   \in [proto : {a}, peer : {pr}, key : {ky}, node : {d}]
      BY <3>1
    <3>. QED
      BY <2>1, <3>1
  <2>3. table[s][i].proto = a /\ table[s][i].node = d
    BY <2>1
  <2>. HIDE DEF e
  <2>. QED
    BY <2>2, <2>3 DEF IsSession
<1>3. table' = [table EXCEPT ![s] = [table[s] EXCEPT ![i] = e]]
  BY DEF TakesKeys
<1>. HIDE DEF e
<1>4. table'[s] = [table[s] EXCEPT ![i] = e] /\ \A t \in Stacks \ {s} : table'[t] = table[t]
  BY <1>1, <1>3
<1>5. table' = [t \in Stacks |-> table'[t]]
  BY <1>1, <1>3
<1>6. DOMAIN table'[s] = DOMAIN table[s]
  BY <1>4
<1>7. i \in DOMAIN table[s]
  BY DEF IDs
<1>8. table'[s][i] = e /\ \A j \in DOMAIN table[s] \ {i} : table'[s][j] = table[s][j]
  BY <1>4, <1>7
<1>. QED
  BY <1>2, <1>4, <1>5, <1>6, <1>8 DEF IDs

-----------------------------------------------------------------------------
(* The steps that make and remove no session and change no transport. *)
Moves ==
    {<<"send", "wait">>, <<"wait", "send">>, <<"stopMain", "ready">>, <<"ready", "opsend">>,
     <<"opsend", "opwait">>, <<"opwait", "opdone">>, <<"opwait", "oplost">>,
     <<"opdone", "watch">>, <<"watch", "end">>, <<"resolve", "end">>, <<"lost", "resolve">>,
     <<"lost", "watch">>, <<"lost", "end">>, <<"oplost", "end">>, <<"start", "end">>,
     <<"opdone", "end">>, <<"end", "closed">>}

PumpsAsBefore ==
    /\ pump' \in [Pumps -> PumpStates]
    /\ pump'["sub"].conn = pump["sub"].conn /\ pump'["sub"].stack = pump["sub"].stack
    /\ OnSub' <=> OnSub

LEMMA PumpTypes ==
    ASSUME TypeOK
    PROVE  /\ pump["main"] \in PumpStates /\ pump["sub"] \in PumpStates
           /\ pump["main"].conn \in Nat /\ pump["sub"].conn \in Nat
           /\ pump["main"].stack \in Nat /\ pump["sub"].stack \in Nat
<1>1. pump \in [Pumps -> PumpStates] /\ "main" \in Pumps /\ "sub" \in Pumps
  BY DEF TypeOK, Pumps
<1>. QED
  BY <1>1 DEF PumpStates

LEMMA QuietCore ==
    ASSUME CoreInv, UNCHANGED <<plan, stack, table, nextID, session, tries>>,
           pc' \in Labels, IsExchange(ex'), nextEx' \in Nat,
           pump' \in [Pumps -> PumpStates], conn'.id \in Nat, nConn' \in Nat, PumpInv',
           pc' \in HasSession => pc \in HasSession,
           pc' \notin {"end", "closed"} => pc \notin {"end", "closed"} /\ (Beside' <=> Beside),
           Beside' => Beside
    PROVE  CoreInv'
<1>1. TypeOK'
  BY DEF CoreInv, TypeOK, IDs
<1>2. SessionInv'
  <2>. SUFFICES ASSUME pc' \in HasSession
                PROVE  /\ session'[1] = Work' /\ session'[2] \in IDs(Work)'
                       /\ plan' = "ble" /\ table'[Work'][session'[2]].proto = "PASE" => tries' = 0
    BY DEF SessionInv
  <2>1. pc' \notin {"end", "closed"}
    BY DEF HasSession
  <2>2. Work' = Work /\ pc \in HasSession
    BY <2>1 DEF Work
  <2>. QED
    BY <2>2 DEF CoreInv, SessionInv, IDs
<1>3. FreshInv'
  <2>1. pc' \notin {"end", "closed"} => pc \notin {"end", "closed"} /\ Work' = Work
    BY DEF Work
  <2>2. Beside' => Work' = Work
    BY DEF Work
  <2>. QED
    BY <2>1, <2>2 DEF CoreInv, FreshInv, IDs
<1>4. EntryInv'
  BY DEF CoreInv, EntryInv, IDs
<1>. QED
  BY <1>1, <1>2, <1>3, <1>4 DEF CoreInv

LEMMA QuietStep ==
    ASSUME CoreInv, UNCHANGED <<plan, stack, table, nextID, session, tries, conn, nConn>>,
           PumpsAsBefore, pump'["main"].conn <= conn.id,
           IsExchange(ex'), nextEx' \in Nat, pc' = pc \/ <<pc, pc'>> \in Moves
    PROVE  CoreInv'
<1>t. TypeOK /\ PumpInv
  BY DEF CoreInv
<1>1. pc' \in Labels
  BY <1>t DEF TypeOK, Labels, Moves
<1>2. Beside' <=> Beside
  BY <1>t DEF Beside, PumpsAsBefore, Moves
<1>3. PumpInv'
  <2>1. OnSub => pc' \in {"send", "wait", "subDone", "subFailed"}
    BY <1>t DEF PumpInv, Moves
  <2>2. pc' \in {"subDone", "subFailed"} => OnSub
    BY <1>t DEF PumpInv, Moves
  <2>3. pc' = "start" => pc = "start"
    BY DEF Moves
  <2>. QED
    BY <1>t, <1>2, <2>1, <2>2, <2>3 DEF PumpInv, PumpsAsBefore
<1>4. pc' \in HasSession => pc \in HasSession
  BY DEF HasSession, Moves
<1>5. pc' \notin {"end", "closed"} => pc \notin {"end", "closed"}
  BY DEF Moves
<1>6. pump' \in [Pumps -> PumpStates] /\ conn'.id \in Nat /\ nConn' \in Nat
  BY <1>t DEF TypeOK, PumpsAsBefore
<1>. QED
  BY <1>1, <1>2, <1>3, <1>4, <1>5, <1>6, QuietCore

-----------------------------------------------------------------------------
(* What BeginHandshake does when there is a free session ID. *)
Begun(proto, s, i, n) ==
    /\ i \in 1 .. NumSIDs /\ i \notin IDs(s)
    /\ IDs(s) = {} /\ nextID[s] = 1 => i = 1
    /\ IDs(s)' = IDs(s) \cup {i}
    /\ table'[s][i] = [proto |-> proto, peer |-> 0, key |-> NoKey, node |-> n]
    /\ \A j \in IDs(s) : table'[s][j] = table[s][j]
    /\ \A t \in Stacks \ {s} : table'[t] = table[t]
    /\ table' = [t \in Stacks |-> table'[t]]
    /\ nextID' \in [Stacks -> 1 .. NumSIDs]
    /\ \A t \in Stacks \ {s} : nextID'[t] = nextID[t]
    /\ session' = <<s, i>>
    /\ ex' = [open |-> TRUE, stack |-> s, id |-> nextEx, sid |-> 0, inbox |-> <<>>]
    /\ nextEx' = nextEx + 1
    /\ hs' = IF proto = "PASE" THEN PASEInitiatorNew(UserCode, i, nRand)
                               ELSE CASEInitiatorNew(n, i, nRand)
    /\ pc' = "send"

NoneLeft(s) ==
    /\ FreeIDs(s) = {} /\ pc' = "lost"
    /\ UNCHANGED <<table, nextID, hs, session, ex, nextEx>>

LEMMA BeginFacts ==
    ASSUME TypeOK, NEW s \in Stacks, NEW proto, NEW n, BeginHandshake(proto, s, n)
    PROVE  NoneLeft(s) \/ \E i \in 1 .. NumSIDs : Begun(proto, s, i, n)
<1>1. CASE FreeIDs(s) = {}
  BY <1>1 DEF BeginHandshake, NoneLeft
<1>2. CASE FreeIDs(s) # {}
  <2>. DEFINE i == NextFree(s)
              e == [proto |-> proto, peer |-> 0, key |-> NoKey, node |-> n]
  <2>1. i \in FreeIDs(s) /\ (IDs(s) = {} /\ nextID[s] = 1 => i = 1)
    BY <1>2, FreeIDFound, FirstID
  <2>2. i \in 1 .. NumSIDs /\ i \notin IDs(s)
    BY <2>1 DEF FreeIDs
  <2>3. /\ table' = WithSession(s, i, e)
        /\ nextID' = [nextID EXCEPT ![s] = (i % NumSIDs) + 1]
        /\ hs' = IF proto = "PASE" THEN PASEInitiatorNew(UserCode, i, nRand)
                                   ELSE CASEInitiatorNew(n, i, nRand)
        /\ session' = <<s, i>>
        /\ ex' = [open |-> TRUE, stack |-> s, id |-> nextEx, sid |-> 0, inbox |-> <<>>]
        /\ nextEx' = nextEx + 1
        /\ pc' = "send"
    BY <1>2 DEF BeginHandshake, WithExchange
  <2>. HIDE DEF i, e
  <2>4. (i % NumSIDs) + 1 \in 1 .. NumSIDs
    <3>1. i % NumSIDs \in Nat /\ i % NumSIDs < NumSIDs
      BY <2>2, ModNat
    <3>. QED
      BY <3>1
  <2>5. nextID' \in [Stacks -> 1 .. NumSIDs] /\ \A t \in Stacks \ {s} : nextID'[t] = nextID[t]
    BY <2>3, <2>4 DEF TypeOK
  <2>6. /\ IDs(s)' = IDs(s) \cup {i} /\ table'[s][i] = e
        /\ \A j \in IDs(s) \ {i} : table'[s][j] = table[s][j]
        /\ \A t \in Stacks \ {s} : table'[t] = table[t]
        /\ table' = [t \in Stacks |-> table'[t]]
    BY <2>3, TableFacts
  <2>7. Begun(proto, s, i, n)
    BY <2>1, <2>2, <2>3, <2>5, <2>6 DEF Begun, e
  <2>. QED
    BY <2>2, <2>7
<1>. QED
  BY <1>1, <1>2

(* A session more: what holds of the table then. *)
LEMMA BegunTable ==
    ASSUME CoreInv, NEW s \in Stacks, NEW proto \in {"PASE", "CASE"}, NEW n, NEW i \in 1 .. NumSIDs,
           Begun(proto, s, i, n)
    PROVE  /\ \A t \in Stacks : IDs(t)' \subseteq 1 .. NumSIDs
           /\ \A t \in Stacks \ {s} : IDs(t)' = IDs(t)
           /\ EntryInv' /\ IsExchange(ex') /\ nextEx' \in Nat
           /\ session'[1] = s /\ session'[2] = i
           /\ i \in IDs(s)' /\ table'[s][i].proto = proto /\ table'[s][i].key = NoKey
<1>t. TypeOK /\ EntryInv
  BY DEF CoreInv
<1>1. \A t \in Stacks \ {s} : IDs(t)' = IDs(t)
  BY DEF Begun, IDs
<1>2. \A t \in Stacks : IDs(t)' \subseteq 1 .. NumSIDs
  <2>1. \A t \in Stacks : IDs(t) \subseteq 1 .. NumSIDs
    BY <1>t DEF TypeOK
  <2>2. IDs(s)' \subseteq 1 .. NumSIDs
    <3>1. IDs(s)' = IDs(s) \cup {i}
      BY DEF Begun
    <3>. QED
      BY <2>1, <3>1
  <2>. QED
    BY <1>1, <2>1, <2>2
<1>3. table'[s][i].proto = proto /\ table'[s][i].key = NoKey /\ IsSession(table'[s][i])
  BY DEF Begun, IsSession
<1>4. ASSUME NEW t \in Stacks, NEW j \in IDs(t)' PROVE IsSession(table'[t][j])
  <2>1. CASE t # s
    BY <1>1, <1>4, <1>t, <2>1 DEF Begun, EntryInv
  <2>2. CASE t = s /\ j # i
    BY <1>4, <1>t, <2>2 DEF Begun, EntryInv
  <2>. QED
    BY <1>3, <2>1, <2>2
<1>5. IsExchange(ex') /\ nextEx' \in Nat
  BY <1>t DEF Begun, IsExchange, TypeOK
<1>. QED
  BY <1>1, <1>2, <1>3, <1>4, <1>5 DEF Begun, EntryInv

(* ConnectPASE and ConnectCASE on the controller's own stack. *)
LEMMA ConnectOnMain ==
    ASSUME CoreInv, NEW proto \in {"PASE", "CASE"}, NEW n, BeginHandshake(proto, stack, n),
           pc \in {"start", "opdone", "watch", "resolve"},
           StartPumpIfNone, UNCHANGED <<plan, conn, nConn, stack>>,
           tries' \in Nat, plan = "ble" => tries' # 0 /\ proto = "CASE"
    PROVE  CoreInv'
<1>t. TypeOK /\ PumpInv /\ SessionInv /\ FreshInv /\ EntryInv
  BY DEF CoreInv
<1>s. stack \in Stacks /\ ~Beside /\ ~OnSub /\ Work = stack
  BY <1>t DEF TypeOK, PumpInv, Beside, Work
<1>p. pump' \in [Pumps -> PumpStates] /\ pump'["sub"] = pump["sub"] /\ pump'["main"].conn <= conn.id
  <2>1. CASE hasCancel
    BY <1>t, <2>1 DEF StartPumpIfNone, TypeOK, PumpInv
  <2>2. CASE ~hasCancel
    <3>1. Started(stack, conn.id) \in PumpStates /\ Started(stack, conn.id).conn = conn.id
      BY <1>t DEF TypeOK, Started, PumpStates, Stacks
    <3>2. pump' = [pump EXCEPT !["main"] = Started(stack, conn.id)]
      BY <2>2 DEF StartPumpIfNone
    <3>. QED
      BY <1>t, <3>1, <3>2 DEF TypeOK, Pumps
  <2>. QED
    BY <2>1, <2>2
<1>q. pc' \in {"send", "lost"}
  BY <1>s, <1>t, BeginFacts DEF NoneLeft, Begun
<1>b. ~Beside' /\ ~OnSub' /\ Work' = stack
  BY <1>p, <1>q, <1>s DEF Beside, OnSub, Work
<1>1. PumpInv'
  BY <1>b, <1>p, <1>q, <1>t DEF PumpInv
<1>2. CASE NoneLeft(stack)
  <2>1. TypeOK'
    BY <1>2, <1>p, <1>q, <1>t DEF NoneLeft, TypeOK, IDs, Labels
  <2>2. SessionInv'
    BY <1>2 DEF NoneLeft, SessionInv, HasSession
  <2>3. FreshInv' /\ EntryInv'
    BY <1>2, <1>b, <1>s, <1>t DEF NoneLeft, FreshInv, EntryInv, IDs
  <2>. QED
    BY <1>1, <2>1, <2>2, <2>3 DEF CoreInv
<1>3. ASSUME NEW i \in 1 .. NumSIDs, Begun(proto, stack, i, n) PROVE CoreInv'
  <2>0. /\ \A t \in Stacks : IDs(t)' \subseteq 1 .. NumSIDs
        /\ \A t \in Stacks \ {stack} : IDs(t)' = IDs(t)
        /\ EntryInv' /\ IsExchange(ex') /\ nextEx' \in Nat
        /\ session'[1] = stack /\ session'[2] = i
        /\ i \in IDs(stack)' /\ table'[stack][i].proto = proto
    BY <1>3, <1>s, BegunTable
  <2>1. TypeOK'
    BY <1>3, <1>p, <1>q, <1>t, <2>0 DEF TypeOK, Begun, Labels
  <2>2. SessionInv'
    <3>1. session'[1] = Work' /\ session'[2] \in IDs(Work)'
      BY <1>b, <2>0 DEF IDs
    <3>2. plan' = "ble" /\ table'[Work'][session'[2]].proto = "PASE" => FALSE
      BY <1>b, <2>0
    <3>. QED
      BY <3>1, <3>2 DEF SessionInv, IDs
  <2>3. FreshInv'
    <3>1. ASSUME NEW t \in Stacks, t > stack PROVE IDs(t)' = {} /\ nextID'[t] = 1
      <4>1. t # stack /\ t > Work
        BY <1>s, <3>1 DEF Stacks
      <4>2. IDs(t) = {} /\ nextID[t] = 1
        BY <1>t, <4>1 DEF FreshInv
      <4>. QED
        BY <1>3, <2>0, <4>1, <4>2 DEF Begun
    <3>. QED
      BY <1>b, <3>1 DEF FreshInv, IDs
  <2>. QED
    BY <1>1, <2>0, <2>1, <2>2, <2>3 DEF CoreInv
<1>. QED
  BY <1>2, <1>3, <1>s, <1>t, BeginFacts

(* ConnectPASEoverBLE makes a transport and a stack of their own. *)
LEMMA ConnectOverBLE ==
    ASSUME CoreInv, ConnectPASEoverBLE
    PROVE  /\ CoreInv'
           /\ \E k \in Stacks, i \in 1 .. NumSIDs : k = stack + 1 /\ Begun("PASE", k, i, Target)
           /\ pc \in {"start", "oplost"} /\ ~Beside
<1>t. TypeOK /\ PumpInv /\ SessionInv /\ FreshInv /\ EntryInv
  BY DEF CoreInv
<1>a. /\ plan = "ble" /\ pc \in {"start", "oplost"} /\ stack <= MaxBLE
      /\ nConn' = nConn + 1 /\ BeginHandshake("PASE", stack + 1, Target)
      /\ pump' = [pump EXCEPT !["sub"] = Started(stack + 1, nConn + 1)]
      /\ pc = "oplost" => Holds("PASE")
      /\ UNCHANGED <<plan, conn, stack, tries>>
  BY DEF ConnectPASEoverBLE
<1>s. stack \in Stacks /\ stack + 1 \in Stacks /\ ~Beside /\ ~OnSub /\ Work = stack
  <2>1. stack \in Nat /\ stack >= 1
    BY <1>t DEF TypeOK, Stacks
  <2>2. stack + 1 \in Stacks
    BY <1>a, <2>1 DEF Stacks
  <2>. QED
    BY <1>a, <1>t, <2>2 DEF TypeOK, PumpInv, Beside, Work
<1>n. stack \in Nat /\ stack + 1 > stack
  BY <1>t DEF TypeOK, Stacks
<1>k. PICK k \in Stacks : k = stack + 1
  BY <1>s
<1>z. tries = 0
  <2>1. CASE pc = "oplost"
    BY <1>a, <1>s, <1>t, <2>1 DEF Holds, SessionInv, HasSession
  <2>2. CASE pc = "start"
    BY <1>t, <2>2 DEF PumpInv
  <2>. QED
    BY <1>a, <2>1, <2>2
<1>f. IDs(k) = {} /\ nextID[k] = 1
  BY <1>a, <1>k, <1>n, <1>s, <1>t DEF FreshInv
<1>g. PICK i \in 1 .. NumSIDs : Begun("PASE", k, i, Target)
  <2>1. ~NoneLeft(k)
    BY <1>f, <1>t, FirstID DEF NoneLeft
  <2>2. BeginHandshake("PASE", k, Target)
    BY <1>a, <1>k
  <2>. QED
    BY <1>t, <2>1, <2>2, BeginFacts
<1>h. i = 1
  BY <1>f, <1>g DEF Begun
<1>p. /\ pump' \in [Pumps -> PumpStates] /\ pump'["main"] = pump["main"]
      /\ pump'["sub"].st = "recv" /\ pump'["sub"].conn = nConn + 1 /\ pump'["sub"].stack = k
  <2>1. Started(k, nConn + 1) \in PumpStates
    BY <1>k, <1>n, <1>t DEF TypeOK, Started, PumpStates
  <2>2. /\ Started(k, nConn + 1).st = "recv" /\ Started(k, nConn + 1).conn = nConn + 1
        /\ Started(k, nConn + 1).stack = k
    BY DEF Started
  <2>. QED
    BY <1>a, <1>k, <1>t, <2>1, <2>2 DEF TypeOK, Pumps
<1>b. pc' = "send" /\ OnSub' /\ Beside' /\ Work' = k
  BY <1>a, <1>g, <1>k, <1>p DEF Begun, OnSub, Beside, Work
<1>0. /\ \A t \in Stacks : IDs(t)' \subseteq 1 .. NumSIDs
      /\ \A t \in Stacks \ {k} : IDs(t)' = IDs(t)
      /\ EntryInv' /\ IsExchange(ex') /\ nextEx' \in Nat
      /\ session'[1] = k /\ session'[2] = i /\ i \in IDs(k)'
  BY <1>g, BegunTable
<1>1. TypeOK'
  <2>1. nextID' \in [Stacks -> 1 .. NumSIDs] /\ table' = [t \in Stacks |-> table'[t]]
    BY <1>g DEF Begun
  <2>2. nConn' \in Nat /\ conn'.id \in Nat /\ stack' \in Stacks /\ plan' = "ble" /\ tries' \in Nat
    BY <1>a, <1>t DEF TypeOK
  <2>3. pc' \in Labels
    BY <1>b DEF Labels
  <2>. QED
    BY <1>0, <1>p, <2>1, <2>2, <2>3 DEF TypeOK
<1>2. PumpInv'
  <2>1. pump["main"].conn \in Nat /\ conn.id \in Nat /\ nConn \in Nat
    BY <1>t, PumpTypes DEF TypeOK
  <2>2. pump["main"].conn <= conn.id /\ conn.id <= nConn + 1 /\ conn.id < nConn + 1
    BY <1>t, <2>1 DEF PumpInv
  <2>. QED
    BY <1>a, <1>b, <1>k, <1>p, <1>s, <1>z, <2>2 DEF PumpInv
<1>3. SessionInv'
  BY <1>0, <1>a, <1>b, <1>z DEF SessionInv, IDs
<1>4. FreshInv'
  <2>1. ASSUME NEW t \in Stacks, t > k PROVE IDs(t)' = {} /\ nextID'[t] = 1
    <3>1. t # k /\ t > Work
      BY <1>k, <1>n, <1>s, <2>1 DEF Stacks
    <3>2. IDs(t) = {} /\ nextID[t] = 1
      BY <1>a, <1>t, <3>1 DEF FreshInv
    <3>. QED
      BY <1>0, <1>g, <3>1, <3>2 DEF Begun
  <2>2. IDs(k)' \subseteq {1}
    BY <1>f, <1>g, <1>h DEF Begun
  <2>3. IDs(stack)' = IDs(stack)
    BY <1>0, <1>a, <1>k, <1>n, <1>s DEF IDs
  <2>. QED
    BY <1>a, <1>b, <1>t, <1>z, <2>1, <2>2, <2>3 DEF FreshInv, IDs
<1>. QED
  BY <1>0, <1>1, <1>2, <1>3, <1>4, <1>a, <1>g, <1>k, <1>s DEF CoreInv

(* The stack the caller works with exists. *)
LEMMA WorkExists == CoreInv => Work \in Stacks
BY DEF CoreInv, TypeOK, PumpInv, Work

(* The handshake has failed: its session goes. *)
LEMMA FailCore ==
    ASSUME CoreInv, pc = "wait", FailHandshake,
           UNCHANGED <<plan, conn, nConn, stack, pump>>
    PROVE  CoreInv'
<1>t. TypeOK /\ PumpInv /\ SessionInv /\ FreshInv /\ EntryInv /\ Work \in Stacks
  BY WorkExists DEF CoreInv
<1>s. session[1] = Work
  BY <1>t DEF SessionInv, HasSession
<1>f. /\ table' = RemoveSession(Work, session[2]) /\ ex' = NoEx
      /\ pc' = IF OnSub THEN "subFailed" ELSE "lost"
      /\ UNCHANGED <<nextID, nextEx, tries>>
  BY <1>s DEF FailHandshake
<1>r. /\ IDs(Work)' = IDs(Work) \ {session[2]} \/ Work' # Work
      /\ DOMAIN table'[Work] = IDs(Work) \ {session[2]}
      /\ \A j \in IDs(Work) \ {session[2]} : table'[Work][j] = table[Work][j]
      /\ \A t \in Stacks \ {Work} : table'[t] = table[t]
      /\ table' = [t \in Stacks |-> table'[t]]
  BY <1>f, <1>t, TableFacts DEF IDs, RemoveSession, TypeOK
<1>i. \A t \in Stacks : DOMAIN table'[t] \subseteq IDs(t)
  BY <1>r DEF IDs
<1>b. OnSub' = OnSub /\ (Beside' <=> Beside) /\ Work' = Work
  BY <1>f DEF OnSub, Beside, Work
<1>1. TypeOK'
  BY <1>f, <1>i, <1>r, <1>t DEF TypeOK, IDs, Labels, IsExchange, NoEx
<1>2. PumpInv'
  BY <1>b, <1>f, <1>t DEF PumpInv
<1>3. SessionInv'
  BY <1>f DEF SessionInv, HasSession
<1>4. FreshInv'
  <2>1. \A t \in Stacks : IDs(t)' \subseteq IDs(t)
    BY <1>i DEF IDs
  <2>2. IDs(stack)' \subseteq IDs(stack) /\ IDs(Work)' \subseteq IDs(Work)
    BY <1>b, <1>i, <1>t DEF IDs, TypeOK
  <2>3. pc' \notin {"end", "closed"} /\ pc \notin {"end", "closed"}
    BY <1>f
  <2>. QED
    BY <1>b, <1>f, <1>t, <2>1, <2>2, <2>3 DEF FreshInv
<1>5. EntryInv'
  BY <1>i, <1>r, <1>t DEF EntryInv, IDs
<1>. QED
  BY <1>1, <1>2, <1>3, <1>4, <1>5 DEF CoreInv

(* The handshake has succeeded: the session takes its keys. *)
LEMMA DoneCore ==
    ASSUME CoreInv, pc = "wait", NEW pr, NEW ky,
           TakesKeys(session[1], session[2], pr, ky),
           ex' = NoEx, pc' = IF OnSub THEN "subDone" ELSE "ready",
           UNCHANGED <<plan, conn, nConn, stack, pump, nextID, nextEx, session, tries>>
    PROVE  CoreInv'
<1>t. TypeOK /\ PumpInv /\ SessionInv /\ FreshInv /\ EntryInv /\ Work \in Stacks
  BY WorkExists DEF CoreInv
<1>s. session[1] = Work /\ session[2] \in IDs(Work) /\ IsSession(table[Work][session[2]])
  BY <1>t DEF SessionInv, HasSession, EntryInv
<1>r. /\ \A t \in Stacks : DOMAIN table'[t] = IDs(t)
      /\ table'[Work][session[2]].proto = table[Work][session[2]].proto
      /\ IsSession(table'[Work][session[2]])
      /\ \A j \in IDs(Work) \ {session[2]} : table'[Work][j] = table[Work][j]
      /\ \A t \in Stacks \ {Work} : table'[t] = table[t]
      /\ table' = [t \in Stacks |-> table'[t]]
  <2>0. PICK w \in Stacks : w = Work
    BY <1>t
  <2>1. PICK j \in IDs(w) : w = Work /\ j = session[2]
    BY <1>s, <2>0
  <2>2. TakesKeys(w, j, pr, ky)
    BY <1>s, <2>1
  <2>3. IsSession(table[w][j])
    BY <1>s, <2>1
  <2>4. /\ \A t \in Stacks : IDs(t)' = IDs(t)
        /\ table'[w][j].proto = table[w][j].proto
        /\ IsSession(table'[w][j])
        /\ \A l \in IDs(w) \ {j} : table'[w][l] = table[w][l]
        /\ \A t \in Stacks \ {w} : table'[t] = table[t]
        /\ table' = [t \in Stacks |-> table'[t]]
    <3>1. TypeOK
      BY <1>t
    <3>. QED
      BY <2>2, <2>3, <3>1, KeysFacts
  <2>5. \A t \in Stacks : DOMAIN table'[t] = IDs(t)
    BY <2>4 DEF IDs
  <2>. QED
    BY <2>1, <2>4, <2>5
<1>b. OnSub' = OnSub /\ (Beside' <=> Beside) /\ Work' = Work
  BY DEF OnSub, Beside, Work
<1>1. TypeOK'
  BY <1>r, <1>t DEF TypeOK, IDs, Labels, IsExchange, NoEx
<1>2. PumpInv'
  BY <1>b, <1>t DEF PumpInv
<1>3. SessionInv'
  BY <1>b, <1>r, <1>s, <1>t DEF SessionInv, HasSession, IDs
<1>4. FreshInv'
  <2>1. \A t \in Stacks : IDs(t)' = IDs(t)
    BY <1>r DEF IDs
  <2>2. IDs(Work)' = IDs(Work) /\ IDs(stack)' = IDs(stack)
    BY <1>b, <1>r, <1>t DEF IDs, TypeOK
  <2>. QED
    BY <1>b, <1>t, <2>1, <2>2 DEF FreshInv
<1>5. EntryInv'
  BY <1>r, <1>t DEF EntryInv, IDs
<1>. QED
  BY <1>1, <1>2, <1>3, <1>4, <1>5 DEF CoreInv

-----------------------------------------------------------------------------
(* A message arrives at the exchange, or the exchange is closed. *)
Gets(f, e, x) == f = [e EXCEPT !.inbox = x]

LEMMA ExchangeFields ==
    ASSUME NEW e, IsExchange(e), NEW x, NEW f, Gets(f, e, x) \/ f = [e EXCEPT !.open = FALSE]
    PROVE  IsExchange(f) /\ (f.open => e.open) /\ f.id = e.id /\ f.sid = e.sid
<1>1. PICK o, s, i, d, b : e = [open |-> o, stack |-> s, id |-> i, sid |-> d, inbox |-> b]
  BY DEF IsExchange
<1>2. o \in BOOLEAN /\ i \in Nat
  BY <1>1 DEF IsExchange
<1>3. CASE f \in [open : {o}, stack : {s}, id : {i}, sid : {d}, inbox : {x}]
  BY <1>1, <1>2, <1>3 DEF IsExchange
<1>4. CASE f \in [open : {FALSE}, stack : {s}, id : {i}, sid : {d}, inbox : {b}]
  BY <1>1, <1>2, <1>4 DEF IsExchange
<1>5. [e EXCEPT !.inbox = x] \in [open : {o}, stack : {s}, id : {i}, sid : {d}, inbox : {x}]
  BY <1>1
<1>6. [e EXCEPT !.open = FALSE] \in [open : {FALSE}, stack : {s}, id : {i}, sid : {d}, inbox : {b}]
  BY <1>1
<1>. QED
  BY <1>3, <1>4, <1>5, <1>6 DEF Gets

(* How a pump changes the exchange. *)
LEMMA PumpExchange ==
    ASSUME IsExchange(ex), NEW p \in Pumps, PumpDispatch(p) \/ PumpStops(p)
    PROVE  IsExchange(ex') /\ (ex'.open => ex.open) /\ ex'.id = ex.id /\ ex'.sid = ex.sid
<1>1. CASE PumpDispatch(p)
  <2>1. PICK m \in net : ex' = ex \/ ex' = [ex EXCEPT !.inbox = Append(@, m.wire.body)]
    BY <1>1 DEF PumpDispatch
  <2>2. ex' = ex \/ Gets(ex', ex, Append(ex.inbox, m.wire.body))
    BY <2>1 DEF Gets
  <2>. QED
    BY <2>2, ExchangeFields
<1>2. CASE PumpStops(p)
  <2>1. ex' = ex \/ ex' = [ex EXCEPT !.open = FALSE]
    BY <1>2 DEF PumpStops
  <2>. QED
    BY <2>1, ExchangeFields
<1>. QED
  BY <1>1, <1>2

(* The pumps themselves. *)
LEMMA PumpCore ==
    ASSUME CoreInv, NEW p \in Pumps, PumpDispatch(p) \/ PumpStops(p)
    PROVE  CoreInv'
<1>t. TypeOK /\ PumpInv
  BY DEF CoreInv
<1>u. UNCHANGED <<plan, pc, stack, table, nextID, session, tries, conn, nConn, nextEx>>
  BY DEF PumpDispatch, PumpStops, ctlVars
<1>e. IsExchange(ex') /\ nextEx' \in Nat
  BY <1>t, <1>u, PumpExchange DEF TypeOK
<1>0. "main" \in Pumps /\ "sub" \in Pumps /\ "main" # "sub"
  BY DEF Pumps
<1>1. ASSUME NEW r \in PumpStates, pump' = [pump EXCEPT ![p] = r], r.st # "off", pump[p].st # "off",
             p = "sub" => r.conn = pump[p].conn, r.stack = pump[p].stack,
             p = "main" => r.conn <= conn.id
      PROVE  PumpsAsBefore /\ pump'["main"].conn <= conn.id
  <2>1. pump' \in [Pumps -> PumpStates]
    BY <1>1, <1>t DEF TypeOK
  <2>2. \A q \in Pumps : pump'[q] = IF q = p THEN r ELSE pump[q]
    BY <1>1, <1>t DEF TypeOK
  <2>. QED
    BY <1>0, <1>1, <1>t, <2>1, <2>2 DEF PumpsAsBefore, OnSub, PumpInv, Pumps
<1>p. pump[p] \in PumpStates /\ pump[p].conn \in Nat
  BY <1>t, PumpTypes DEF Pumps
<1>2. CASE PumpDispatch(p)
  <2>. DEFINE r == [pump[p] EXCEPT !.conn = ConnOf(p)]
  <2>1. pump' = [pump EXCEPT ![p] = r] /\ pump[p].st = "recv"
    BY <1>2 DEF PumpDispatch
  <2>2. ConnOf(p) \in Nat
    BY <1>p, <1>t DEF ConnOf, TypeOK
  <2>3. /\ r \in PumpStates /\ r.st = pump[p].st /\ r.conn = ConnOf(p) /\ r.stack = pump[p].stack
    BY <1>p, <2>2 DEF PumpStates
  <2>. HIDE DEF r
  <2>4. /\ p = "sub" => r.conn = pump[p].conn
        /\ p = "main" => r.conn <= conn.id
    BY <1>t, <2>3 DEF ConnOf, TypeOK
  <2>5. PumpsAsBefore /\ pump'["main"].conn <= conn.id
    BY <1>1, <2>1, <2>3, <2>4
  <2>. QED
    BY <1>e, <1>u, <2>5, QuietStep
<1>3. CASE PumpStops(p)
  <2>. DEFINE r == [pump[p] EXCEPT !.st = "ended"]
  <2>1. pump' = [pump EXCEPT ![p] = r] /\ pump[p].st = "recv"
    BY <1>3 DEF PumpStops
  <2>3. /\ r \in PumpStates /\ r.st = "ended" /\ r.conn = pump[p].conn /\ r.stack = pump[p].stack
    BY <1>p DEF PumpStates
  <2>. HIDE DEF r
  <2>4. p = "main" => r.conn <= conn.id
    BY <1>t, <2>3 DEF PumpInv
  <2>5. PumpsAsBefore /\ pump'["main"].conn <= conn.id
    BY <1>1, <2>1, <2>3, <2>4
  <2>. QED
    BY <1>e, <1>u, <2>5, QuietStep
<1>. QED
  BY <1>2, <1>3

(* The main pump is told to stop: it still reads what it read. *)
LEMMA CancelMain ==
    ASSUME CoreInv, pump' = [pump EXCEPT !["main"].cancelled = TRUE]
    PROVE  PumpsAsBefore /\ pump'["main"].conn <= conn.id
<1>t. TypeOK /\ PumpInv
  BY DEF CoreInv
<1>. DEFINE r == [pump["main"] EXCEPT !.cancelled = TRUE]
<1>1. pump' = [pump EXCEPT !["main"] = r]
  OBVIOUS
<1>2. r \in PumpStates /\ r.conn = pump["main"].conn
  <2>1. pump["main"] \in PumpStates
    BY <1>t, PumpTypes
  <2>. QED
    BY <2>1 DEF PumpStates
<1>. HIDE DEF r
<1>3. /\ pump' \in [Pumps -> PumpStates] /\ pump'["main"] = r /\ pump'["sub"] = pump["sub"]
  BY <1>1, <1>2, <1>t DEF TypeOK, Pumps
<1>. QED
  BY <1>2, <1>3, <1>t DEF PumpsAsBefore, OnSub, PumpInv

(* The sub-controller's pump is stopped and its stack taken over. *)
LEMMA StopSubCore ==
    ASSUME CoreInv, StopSubPump
    PROVE  CoreInv'
<1>t. TypeOK /\ PumpInv
  BY DEF CoreInv
<1>u. UNCHANGED <<plan, stack, table, nextID, session, tries, conn, nConn, ex, nextEx>>
  BY DEF StopSubPump, sessVars
<1>e. IsExchange(ex') /\ nextEx' \in Nat
  BY <1>t, <1>u DEF TypeOK
<1>s. pump["sub"] \in PumpStates /\ "sub" \in Pumps /\ "main" \in Pumps
  BY <1>t, PumpTypes DEF Pumps
<1>1. CASE pump["sub"].st = "recv"
  <2>. DEFINE r == [pump["sub"] EXCEPT !.cancelled = TRUE]
  <2>1. pump' = [pump EXCEPT !["sub"] = r] /\ pc' = pc
    BY <1>1 DEF StopSubPump
  <2>2. /\ r \in PumpStates /\ r.st = "recv" /\ r.conn = pump["sub"].conn
        /\ r.stack = pump["sub"].stack
    BY <1>1, <1>s DEF PumpStates
  <2>. HIDE DEF r
  <2>3. /\ pump' \in [Pumps -> PumpStates] /\ pump'["sub"] = r /\ pump'["main"] = pump["main"]
    BY <1>t, <2>1, <2>2 DEF TypeOK, Pumps
  <2>4. PumpsAsBefore /\ pump'["main"].conn <= conn.id
    BY <1>1, <1>t, <2>2, <2>3 DEF PumpsAsBefore, OnSub, PumpInv
  <2>. QED
    BY <1>e, <1>u, <2>1, <2>4, QuietStep
<1>2. CASE pump["sub"].st # "recv"
  <2>1. /\ pump' = [pump EXCEPT !["sub"] = Off] /\ pc \in {"subDone", "subFailed"}
        /\ pc' = IF pc = "subFailed" THEN "end" ELSE "migrate"
    BY <1>2 DEF StopSubPump
  <2>2. Off \in PumpStates /\ Off.st = "off"
    BY DEF Off, PumpStates
  <2>3. pump' \in [Pumps -> PumpStates] /\ pump'["sub"] = Off /\ pump'["main"] = pump["main"]
    BY <1>t, <2>1, <2>2 DEF TypeOK, Pumps
  <2>4. ~OnSub' /\ Beside /\ (Beside' <=> pc' = "migrate")
    BY <1>t, <2>1, <2>2, <2>3 DEF OnSub, Beside, PumpInv
  <2>5. PumpInv'
    BY <1>t, <1>u, <2>1, <2>3, <2>4 DEF PumpInv
  <2>6. /\ pc' \in Labels /\ (pc' \in HasSession => pc \in HasSession)
        /\ (pc' \notin {"end", "closed"} => pc \notin {"end", "closed"} /\ (Beside' <=> Beside))
    BY <2>1, <2>4 DEF Labels, HasSession
  <2>7. conn'.id \in Nat /\ nConn' \in Nat
    BY <1>t, <1>u DEF TypeOK
  <2>. QED
    BY <1>e, <1>u, <2>3, <2>4, <2>5, <2>6, <2>7, QuietCore
<1>. QED
  BY <1>1, <1>2

LEMMA MigrateCore ==
    ASSUME CoreInv, Migrate
    PROVE  CoreInv'
<1>t. TypeOK /\ PumpInv /\ SessionInv /\ FreshInv /\ EntryInv
  BY DEF CoreInv
<1>u. /\ pc = "migrate" /\ pc' = "stopMain" /\ conn'.id = nConn /\ stack' = session[1]
      /\ UNCHANGED <<plan, nConn, pump, table, nextID, session, tries, ex, nextEx>>
  BY DEF Migrate, sessVars
<1>b. Beside /\ ~OnSub /\ Work = stack + 1 /\ stack + 1 \in Stacks /\ plan = "ble" /\ tries = 0
  BY <1>t, <1>u DEF Beside, Work, PumpInv
<1>s. session[1] = Work /\ session[2] \in IDs(Work)
  BY <1>t, <1>u DEF SessionInv, HasSession
<1>c. stack' = stack + 1 /\ Work' = stack + 1 /\ ~OnSub' /\ ~Beside'
  BY <1>b, <1>s, <1>u DEF Work, Beside, OnSub
<1>1. TypeOK'
  BY <1>b, <1>c, <1>t, <1>u DEF TypeOK, IDs, Labels
<1>2. PumpInv'
  <2>1. pump["main"].conn \in Nat /\ conn.id \in Nat /\ nConn \in Nat
    BY <1>t, PumpTypes DEF TypeOK
  <2>2. pump["main"].conn <= nConn
    BY <1>t, <2>1 DEF PumpInv
  <2>. QED
    BY <1>c, <1>u, <2>1, <2>2 DEF PumpInv
<1>3. SessionInv'
  BY <1>b, <1>c, <1>s, <1>u DEF SessionInv, IDs
<1>4. FreshInv'
  BY <1>b, <1>c, <1>t, <1>u DEF FreshInv, IDs
<1>5. EntryInv'
  BY <1>t, <1>u DEF EntryInv, IDs
<1>. QED
  BY <1>1, <1>2, <1>3, <1>4, <1>5 DEF CoreInv

LEMMA EstablishCore ==
    ASSUME CoreInv, EstablishCASEoverIP
    PROVE  CoreInv'
<1>t. TypeOK /\ PumpInv
  BY DEF CoreInv
<1>u. /\ pc = "opdone"
      /\ UNCHANGED <<plan, stack, table, nextID, session, tries, ex, nextEx>>
  BY DEF EstablishCASEoverIP, sessVars
<1>e. IsExchange(ex') /\ nextEx' \in Nat
  BY <1>t, <1>u DEF TypeOK
<1>1. CASE bleConn = 0
  <2>1. UNCHANGED <<pump, conn, nConn>> /\ pc' = "watch"
    BY <1>1 DEF EstablishCASEoverIP
  <2>2. PumpsAsBefore /\ pump'["main"].conn <= conn.id
    BY <1>t, <2>1 DEF PumpsAsBefore, OnSub, TypeOK, PumpInv
  <2>. QED
    BY <1>e, <1>u, <2>1, <2>2, QuietStep DEF Moves
<1>2. CASE bleConn # 0 /\ hasCancel /\ pump["main"].st = "recv"
  <2>1. UNCHANGED <<pc, conn, nConn>> /\ pump' = [pump EXCEPT !["main"].cancelled = TRUE]
    BY <1>2 DEF EstablishCASEoverIP
  <2>. QED
    BY <1>e, <1>u, <2>1, CancelMain, QuietStep
<1>3. CASE bleConn # 0 /\ ~(hasCancel /\ pump["main"].st = "recv")
  <2>1. pump' = pump /\ pc' = "watch" /\ nConn' = nConn + 1 /\ conn'.id = nConn + 1
    BY <1>3 DEF EstablishCASEoverIP
  <2>2. ~OnSub /\ ~Beside /\ ~OnSub' /\ ~Beside'
    BY <1>t, <1>u, <2>1 DEF Beside, OnSub, PumpInv
  <2>3. pump["main"].conn \in Nat /\ conn.id \in Nat /\ nConn \in Nat
    BY <1>t, PumpTypes DEF TypeOK
  <2>4. pump["main"].conn <= nConn + 1
    BY <1>t, <2>3 DEF PumpInv
  <2>5. PumpInv'
    BY <2>1, <2>2, <2>3, <2>4 DEF PumpInv
  <2>6. pump' \in [Pumps -> PumpStates] /\ conn'.id \in Nat /\ nConn' \in Nat
    BY <1>t, <2>1 DEF TypeOK
  <2>. QED
    BY <1>e, <1>u, <2>1, <2>2, <2>5, <2>6, QuietCore DEF Labels, HasSession
<1>. QED
  BY <1>1, <1>2, <1>3

(* A step of the caller that leaves pumps, transports and sessions alone. *)
LEMMA CallerMoves ==
    ASSUME CoreInv, UNCHANGED <<plan, stack, table, nextID, session, tries, conn, nConn, pump>>,
           IsExchange(ex'), nextEx' \in Nat, pc' = pc \/ <<pc, pc'>> \in Moves
    PROVE  CoreInv'
<1>1. PumpsAsBefore /\ pump'["main"].conn <= conn.id
  BY DEF CoreInv, TypeOK, PumpInv, PumpsAsBefore, OnSub
<1>. QED
  BY <1>1, QuietStep

(* What exchange.Receive leads to. *)
Answered ==
    /\ pc = "wait" /\ pc' = "send"
    /\ \E m, x : /\ x # None /\ x = Establish(hs, m).send
                 /\ hs' = [hs EXCEPT !.log = Append(Append(@, m), x)]
    /\ ex.inbox # <<>> /\ Gets(ex', ex, Tail(ex.inbox))
    /\ UNCHANGED <<table, nextID, nextEx, session, tries>>

Established ==
    /\ pc = "wait" /\ pc' = (IF OnSub THEN "subDone" ELSE "ready")
    /\ TakesKeys(session[1], session[2], PeerSessionID(hs), SessionKeys(hs))
    /\ ex' = NoEx
    /\ UNCHANGED <<nextID, nextEx, session, tries>>

LEMMA ReceiveCases ==
    ASSUME ReceiveHandshake
    PROVE  /\ Answered \/ Established \/ (pc = "wait" /\ FailHandshake)
           /\ UNCHANGED <<plan, conn, nConn, stack, pump, net, garbage>>
<1>. DEFINE m == Head(ex.inbox)
            r == Establish(hs, m)
<1>1. CASE r.send # None
  BY <1>1 DEF ReceiveHandshake, Answered, Gets, ctlVars
<1>2. CASE r.send = None /\ r.done
  BY <1>2 DEF ReceiveHandshake, Established, TakesKeys, ctlVars
<1>3. CASE r.send = None /\ ~r.done
  BY <1>3 DEF ReceiveHandshake, ctlVars
<1>. QED
  BY <1>1, <1>2, <1>3

LEMMA CoreNext == CoreInv /\ [Next]_vars => CoreInv'
<1>. SUFFICES ASSUME CoreInv, [Next]_vars PROVE CoreInv'
  OBVIOUS
<1>t. TypeOK /\ PumpInv /\ SessionInv
  BY DEF CoreInv
<1>x. IsExchange(ex) /\ nextEx \in Nat /\ nextEx + 1 \in Nat /\ tries \in Nat /\ tries + 1 \in Nat
      /\ tries + 1 # 0
  BY <1>t DEF TypeOK
<1>o. IsExchange(NoEx)
  BY DEF IsExchange, NoEx
<1>0. ASSUME UNCHANGED <<plan, pc, stack, table, nextID, session, tries, conn, nConn, pump, ex, nextEx>>
      PROVE  CoreInv'
  BY <1>0, <1>x, CallerMoves
<1>1. CASE ConnectPASE
  <2>1. /\ pc = "start" /\ plan = "pase" /\ BeginHandshake("PASE", stack, Target) /\ StartPumpIfNone
        /\ UNCHANGED <<plan, conn, nConn, stack, tries>>
    BY <1>1 DEF ConnectPASE
  <2>. QED
    BY <1>x, <2>1, ConnectOnMain
<1>2. ASSUME NEW a, ConnectCASE(a), pc \in {"start", "opdone", "watch", "resolve"} PROVE CoreInv'
  <2>1. /\ BeginHandshake("CASE", stack, Target) /\ StartPumpIfNone
        /\ UNCHANGED <<plan, conn, nConn, stack>> /\ tries' = tries + 1
    BY <1>2 DEF ConnectCASE
  <2>. QED
    BY <1>2, <1>x, <2>1, ConnectOnMain
<1>3. CASE SendHandshake
  <2>1. /\ pc = "send" /\ pc' = "wait"
        /\ UNCHANGED <<plan, stack, table, nextID, session, tries, conn, nConn, pump, ex, nextEx>>
    BY <1>3 DEF SendHandshake, ctlVars, sessVars
  <2>. QED
    BY <1>x, <2>1, CallerMoves DEF Moves
<1>4. CASE ReceiveHandshake
  <2>u. UNCHANGED <<plan, conn, nConn, stack, pump>>
    BY <1>4, ReceiveCases
  <2>1. CASE Answered
    <3>1. IsExchange(ex')
      BY <1>x, <2>1, ExchangeFields DEF Answered
    <3>. QED
      BY <1>x, <2>1, <2>u, <3>1, CallerMoves DEF Answered, Moves
  <2>2. CASE Established
    BY <2>2, <2>u, DoneCore DEF Established
  <2>3. CASE pc = "wait" /\ FailHandshake
    BY <2>3, <2>u, FailCore
  <2>. QED
    BY <1>4, <2>1, <2>2, <2>3, ReceiveCases
<1>5. CASE HandshakeTimesOut
  BY <1>5, FailCore DEF HandshakeTimesOut, ctlVars
<1>6. CASE BeginOp
  <2>1. /\ pc = "ready" /\ pc' = "opsend" /\ nextEx' = nextEx + 1
        /\ ex' = [open |-> TRUE, stack |-> session[1], id |-> nextEx, sid |-> session[2], inbox |-> <<>>]
        /\ UNCHANGED <<plan, stack, table, nextID, session, tries, conn, nConn, pump>>
    BY <1>6 DEF BeginOp, WithExchange, ctlVars
  <2>2. IsExchange(ex')
    BY <1>x, <2>1 DEF IsExchange
  <2>. QED
    BY <1>x, <2>1, <2>2, CallerMoves DEF Moves
<1>7. CASE SendOp
  <2>1. /\ pc = "opsend" /\ pc' = "opwait"
        /\ UNCHANGED <<plan, stack, table, nextID, session, tries, conn, nConn, pump, ex, nextEx>>
    BY <1>7 DEF SendOp, ctlVars, sessVars
  <2>. QED
    BY <1>x, <2>1, CallerMoves DEF Moves
<1>8. CASE EndOp
  <2>1. /\ pc = "opwait" /\ pc' \in {"opdone", "oplost"} /\ ex' = NoEx
        /\ UNCHANGED <<plan, stack, table, nextID, session, tries, conn, nConn, pump, nextEx>>
    BY <1>8 DEF EndOp, ctlVars
  <2>. QED
    BY <1>o, <1>x, <2>1, CallerMoves DEF Moves
<1>9. CASE RestartPump
  <2>u. UNCHANGED <<plan, stack, table, nextID, session, tries, conn, nConn, ex, nextEx>> /\ pc = "stopMain"
    BY <1>9 DEF RestartPump, sessVars
  <2>1. CASE hasCancel /\ pump["main"].st = "recv"
    <3>1. pump' = [pump EXCEPT !["main"].cancelled = TRUE] /\ pc' = pc
      BY <1>9, <2>1 DEF RestartPump
    <3>. QED
      BY <1>x, <2>u, <3>1, CancelMain, QuietStep
  <2>2. CASE ~(hasCancel /\ pump["main"].st = "recv")
    <3>1. pump' = [pump EXCEPT !["main"] = Started(stack, conn.id)] /\ pc' = "ready"
      BY <1>9, <2>2 DEF RestartPump
    <3>2. Started(stack, conn.id) \in PumpStates /\ Started(stack, conn.id).conn = conn.id
      BY <1>t DEF TypeOK, Started, PumpStates, Stacks
    <3>3. /\ pump' \in [Pumps -> PumpStates] /\ pump'["sub"] = pump["sub"]
          /\ pump'["main"].conn = conn.id
      BY <1>t, <3>1, <3>2 DEF TypeOK, Pumps
    <3>4. PumpsAsBefore /\ pump'["main"].conn <= conn.id
      BY <1>t, <3>3 DEF PumpsAsBefore, OnSub, TypeOK
    <3>. QED
      BY <1>x, <2>u, <3>1, <3>4, QuietStep DEF Moves
  <2>. QED
    BY <2>1, <2>2
<1>10. CASE WatchOperational
  <2>1. ASSUME NEW a \in Addrs, ConnectCASE(a) PROVE CoreInv'
    BY <1>10, <1>2, <2>1 DEF WatchOperational
  <2>2. CASE pc' = "end" /\ UNCHANGED <<plan, ctlVars, pump, sessVars, net, devVars, garbage>>
    <3>1. /\ pc \in {"watch", "resolve"}
          /\ UNCHANGED <<plan, stack, table, nextID, session, tries, conn, nConn, pump, ex, nextEx>>
      BY <1>10, <2>2 DEF WatchOperational, ctlVars, sessVars
    <3>. QED
      BY <1>x, <2>2, <3>1, CallerMoves DEF Moves
  <2>. QED
    BY <1>10, <2>1, <2>2 DEF WatchOperational
<1>11. CASE DialStored
  BY <1>11, <1>2 DEF DialStored
<1>12. CASE AfterFailure
  <2>1. /\ pc = "lost" /\ pc' \in {"resolve", "watch", "end"}
        /\ UNCHANGED <<plan, stack, table, nextID, session, tries, conn, nConn, pump, ex, nextEx>>
    BY <1>12 DEF AfterFailure, ctlVars, sessVars
  <2>. QED
    BY <1>x, <2>1, CallerMoves DEF Moves
<1>13. CASE GiveUp
  <2>1. /\ pc \in {"oplost", "start", "opdone"} /\ pc' = "end"
        /\ UNCHANGED <<plan, stack, table, nextID, session, tries, conn, nConn, pump, ex, nextEx>>
    BY <1>13 DEF GiveUp, ctlVars, sessVars
  <2>. QED
    BY <1>x, <2>1, CallerMoves DEF Moves
<1>14. CASE Close
  <2>u. UNCHANGED <<plan, stack, table, nextID, session, tries, conn, nConn, ex, nextEx>> /\ pc = "end"
    BY <1>14 DEF Close, sessVars
  <2>1. CASE hasCancel /\ pump["main"].st = "recv"
    <3>1. pump' = [pump EXCEPT !["main"].cancelled = TRUE] /\ pc' = pc
      BY <1>14, <2>1 DEF Close
    <3>. QED
      BY <1>x, <2>u, <3>1, CancelMain, QuietStep
  <2>2. CASE ~(hasCancel /\ pump["main"].st = "recv")
    <3>1. pump' = pump /\ pc' = "closed"
      BY <1>14, <2>2 DEF Close
    <3>. QED
      BY <1>x, <2>u, <3>1, CallerMoves DEF Moves
  <2>. QED
    BY <2>1, <2>2
<1>15. CASE Caller
  BY <1>1, <1>3, <1>4, <1>5, <1>6, <1>7, <1>8, <1>9, <1>10, <1>11, <1>12, <1>13, <1>14, <1>15,
     ConnectOverBLE, StopSubCore, MigrateCore, EstablishCore DEF Caller
<1>16. ASSUME NEW p \in Pumps, PumpStep(p) PROVE CoreInv'
  BY <1>16, PumpCore DEF PumpStep
<1>17. ASSUME NEW n \in Nodes, DeviceHandles(n) PROVE CoreInv'
  BY <1>0, <1>17 DEF DeviceHandles, ctlVars, sessVars
<1>18. CASE DeviceRepeats \/ DeviceMoves \/ LinkDrops
  BY <1>0, <1>18 DEF DeviceRepeats, DeviceMoves, LinkDrops, ctlVars, sessVars
<1>19. CASE UNCHANGED vars
  BY <1>0, <1>19 DEF vars, ctlVars, sessVars
<1>. QED
  BY <1>15, <1>16, <1>17, <1>18, <1>19 DEF Next

LEMMA CoreInit == Init => CoreInv
<1>. SUFFICES ASSUME Init PROVE CoreInv
  OBVIOUS
<1>1. 1 \in Stacks /\ stack = 1 /\ pc = "start" /\ plan \in {"case", "pase", "ble"}
  BY DEF Init, Stacks
<1>2. \A s \in Stacks : IDs(s) = {}
  BY DEF Init, IDs
<1>3. pump \in [Pumps -> PumpStates] /\ pump["main"].conn = 0 /\ ~OnSub
  <2>1. Off \in PumpStates
    BY DEF Off, PumpStates
  <2>. QED
    BY <2>1 DEF Init, Pumps, OnSub, Off
<1>4. TypeOK
  BY <1>1, <1>2, <1>3 DEF Init, TypeOK, Labels, IsExchange, NoEx
<1>5. PumpInv
  BY <1>1, <1>3 DEF Init, PumpInv, Beside
<1>6. SessionInv
  BY <1>1 DEF SessionInv, HasSession
<1>7. FreshInv /\ EntryInv
  BY <1>1, <1>2, <1>3 DEF Init, FreshInv, EntryInv, Beside
<1>. QED
  BY <1>4, <1>5, <1>6, <1>7 DEF CoreInv

LEMMA CoreInvariance == Spec => []CoreInv
<1>. QED
  BY CoreInit, CoreNext, PTL DEF Spec

(* ConnectPASEoverBLE, EstablishCASE: the pump of the sub-controller and the
   controller's own never read the same transport, whatever sessions are
   made, links are dropped and pumps are stopped late. The sub-controller has
   the latest transport until its pump has ended, and only then does the
   controller take that transport over. *)
THEOREM TransportHasOneReader == Spec => []OneReader
<1>1. CoreInv => OneReader
  <2>. SUFFICES ASSUME CoreInv, pump["main"].st = "recv", pump["sub"].st = "recv"
                PROVE  pump["main"].conn # pump["sub"].conn
    BY DEF OneReader, Pumps
  <2>1. TypeOK /\ PumpInv /\ OnSub /\ Beside
    BY DEF CoreInv, OnSub, Beside
  <2>2. pump["main"].conn \in Nat /\ conn.id \in Nat /\ nConn \in Nat
    BY <2>1, PumpTypes DEF TypeOK
  <2>. QED
    BY <2>1, <2>2 DEF PumpInv
<1>. QED
  BY <1>1, CoreInvariance, PTL

-----------------------------------------------------------------------------
(* The second half: keys. *)
InHandshake == {"send", "wait"}

LEMMA KeysAreKeys == ASSUME NEW h PROVE SessionKeys(h) # NoKey
<1>1. ASSUME NEW a, NEW b, NEW c PROVE <<a, b, c>> # <<>>
  OBVIOUS
<1>. QED
  BY <1>1 DEF SessionKeys, PASESessionKeys, CASESessionKeys, DeriveSessionKeys, Key, NoKey

(* A step that leaves the tables alone. *)
LEMMA SecureFrame ==
    ASSUME CoreInv, SecureInv, UNCHANGED <<table, session, stack>>,
           conn'.id \in Nat, conn.id <= conn'.id, ~garbage',
           pc' \in InHandshake <=> pc \in InHandshake,
           ExchangeInv', HandshakeInv', nextEx' \in Nat, nextEx <= nextEx',
           ex'.open => (ex.open /\ ex'.id = ex.id) \/ nextEx <= ex'.id,
           \A m \in net' \ net : MessageInv(m)'
    PROVE  SecureInv'
<1>s. KeyInv /\ NetInv /\ nextEx \in Nat /\ conn.id \in Nat /\ IsExchange(ex)
  BY DEF SecureInv, CoreInv, TypeOK
<1>1. KeyInv'
  BY <1>s DEF KeyInv, IDs, InHandshake
<1>2. ASSUME NEW m \in net PROVE MessageInv(m)'
  <2>1. MessageInv(m) /\ m.eid \in Nat /\ m.conn \in Nat
    BY <1>s DEF NetInv, MessageInv, IsMessage
  <2>2. IsMessage(m) /\ m.eid < nextEx'
    BY <1>s, <2>1 DEF MessageInv
  <2>3. m.wire.key # NoKey =>
          /\ m.conn <= conn'.id
          /\ m.lsid \in IDs(stack)' /\ table'[stack'][m.lsid].key # NoKey
    BY <1>s, <2>1 DEF MessageInv, IDs
  <2>4. m.dir = "out" /\ m.wire.body.op = "Invoke" =>
          /\ m.wire.key # NoKey
          /\ ex'.open /\ m.eid = ex'.id => m.wire.key = table'[session'[1]][session'[2]].key
    BY <1>s, <2>1 DEF MessageInv
  <2>. QED
    BY <2>2, <2>3, <2>4 DEF MessageInv
<1>3. NetInv'
  BY <1>2 DEF NetInv
<1>. QED
  BY <1>1, <1>3 DEF SecureInv

(* The caller goes on without an exchange, and nothing is sent. *)
LEMMA SecureMoves ==
    ASSUME CoreInv, SecureInv, UNCHANGED <<table, session, stack, net, garbage, nextEx>>,
           conn'.id \in Nat, conn.id <= conn'.id,
           pc \notin InHandshake, pc' \notin InHandshake,
           ex' = ex \/ ex' = NoEx, ex'.open => pc' \in {"opsend", "opwait"},
           pc' \in {"opsend", "opwait"} => pc \in {"opsend", "opwait"} /\ ex' = ex
    PROVE  SecureInv'
<1>s. ExchangeInv /\ nextEx \in Nat /\ ~garbage /\ IsExchange(ex)
  BY DEF SecureInv, CoreInv, TypeOK
<1>0. NoEx.open = FALSE /\ NoEx.id = 0
  BY DEF NoEx
<1>1. ExchangeInv'
  <2>1. ex.id \in Nat /\ ex.id < nextEx
    BY <1>s DEF ExchangeInv, IsExchange
  <2>2. ex'.id < nextEx'
    BY <1>0, <1>s, <2>1
  <2>. QED
    BY <1>s, <2>2 DEF ExchangeInv, InHandshake
<1>2. HandshakeInv'
  BY DEF HandshakeInv, InHandshake
<1>3. ex'.open => (ex.open /\ ex'.id = ex.id)
  BY <1>0
<1>. QED
  BY <1>1, <1>2, <1>3, <1>s, SecureFrame

(* Messages that are put onto the net by others than the caller. *)
LEMMA SecureNet ==
    ASSUME CoreInv, SecureInv,
           UNCHANGED <<table, session, stack, nextEx, pc, hs>>, conn' = conn, ~garbage',
           IsExchange(ex'), ex'.open => ex.open, ex'.id = ex.id, ex'.sid = ex.sid,
           \A m \in net' \ net : MessageInv(m)'
    PROVE  SecureInv'
<1>s. ExchangeInv /\ HandshakeInv /\ nextEx \in Nat /\ conn.id \in Nat
  BY DEF SecureInv, CoreInv, TypeOK
<1>1. ExchangeInv'
  BY <1>s DEF ExchangeInv
<1>2. HandshakeInv'
  BY <1>s DEF HandshakeInv
<1>. QED
  BY <1>1, <1>2, <1>s, SecureFrame

(* A handshake begins: its session is the only one without keys. *)
LEMMA SecureBegins ==
    ASSUME CoreInv, SecureInv, pc \notin InHandshake, ~ex.open, NEW s \in Stacks, NEW proto \in {"PASE", "CASE"},
           NEW i \in 1 .. NumSIDs, NEW n, Begun(proto, s, i, n),
           UNCHANGED <<conn, stack, net, garbage>>
    PROVE  SecureInv'
<1>t. TypeOK /\ EntryInv
  BY DEF CoreInv
<1>s. KeyInv /\ NetInv /\ ExchangeInv /\ ~garbage
  BY DEF SecureInv
<1>0. /\ \A t \in Stacks \ {s} : IDs(t)' = IDs(t)
      /\ session'[1] = s /\ session'[2] = i
      /\ i \in IDs(s)' /\ table'[s][i].key = NoKey
  BY BegunTable
<1>1. ASSUME NEW t \in Stacks, NEW j \in IDs(t)', t # s \/ j # i
      PROVE  j \in IDs(t) /\ table'[t][j] = table[t][j]
  <2>1. CASE t # s
    BY <1>0, <1>1, <2>1 DEF Begun
  <2>2. CASE t = s
    BY <1>1, <2>2 DEF Begun
  <2>. QED
    BY <2>1, <2>2
<1>2. KeyInv'
  <2>1. ASSUME NEW t \in Stacks, NEW j \in IDs(t)', table'[t][j].key = NoKey
        PROVE  t = s /\ j = i
    BY <1>1, <1>s, <2>1 DEF KeyInv, InHandshake
  <2>2. pc' = "send"
    BY DEF Begun
  <2>. QED
    BY <1>0, <2>1, <2>2 DEF KeyInv
<1>3. ExchangeInv'
  BY <1>t DEF Begun, ExchangeInv, TypeOK
<1>4. HandshakeInv'
  <2>1. ASSUME NEW x PROVE <<x>> \in Seq({x}) /\ Len(<<x>>) = 1 /\ <<x>>[1] = x
    OBVIOUS
  <2>2. CASE proto = "PASE"
    <3>1. hs' = [proto |-> "PASE", sid |-> i, n |-> nRand, peer |-> UserCode,
                 log |-> <<PBKDFParamRequest(nRand, i)>>]
      BY <2>2 DEF Begun, PASEInitiatorNew
    <3>2. PBKDFParamRequest(nRand, i).op = "PBKDFParamRequest"
      BY DEF PBKDFParamRequest
    <3>. QED
      BY <2>1, <3>1, <3>2 DEF HandshakeInv, IsSeq
  <2>3. CASE proto = "CASE"
    <3>1. hs' = [proto |-> "CASE", sid |-> i, n |-> nRand, peer |-> n,
                 log |-> <<GenerateSigma1(nRand, i, n)>>]
      BY <2>3 DEF Begun, CASEInitiatorNew
    <3>2. GenerateSigma1(nRand, i, n).op = "Sigma1"
      BY DEF GenerateSigma1
    <3>. QED
      BY <2>1, <3>1, <3>2 DEF HandshakeInv, IsSeq
  <2>. QED
    BY <2>2, <2>3
<1>5. ASSUME NEW m \in net PROVE MessageInv(m)'
  <2>1. MessageInv(m) /\ m.eid \in Nat
    BY <1>s DEF NetInv, MessageInv, IsMessage
  <2>2. ex'.id = nextEx /\ nextEx' = nextEx + 1 /\ nextEx \in Nat
    BY <1>t DEF Begun, TypeOK
  <2>3. m.eid < nextEx' /\ m.eid # ex'.id /\ IsMessage(m)
    BY <2>1, <2>2 DEF MessageInv
  <2>4. ASSUME m.wire.key # NoKey
        PROVE  m.lsid \in IDs(stack)' /\ table'[stack'][m.lsid].key # NoKey
    <3>1. m.lsid \in IDs(stack) /\ table[stack][m.lsid].key # NoKey /\ stack \in Stacks
      BY <1>t, <2>1, <2>4 DEF MessageInv, TypeOK
    <3>2. DOMAIN table'[stack] = IDs(stack) \/ DOMAIN table'[stack] = IDs(stack) \cup {i}
      BY <1>0, <3>1 DEF Begun, IDs
    <3>3. table'[stack][m.lsid] = table[stack][m.lsid]
      BY <3>1 DEF Begun
    <3>. QED
      BY <3>1, <3>2, <3>3 DEF IDs
  <2>. QED
    BY <2>1, <2>3, <2>4 DEF MessageInv
<1>. QED
  BY <1>2, <1>3, <1>4, <1>5, <1>s DEF SecureInv, NetInv

(* The handshake ends, with keys or without: no session is left without. *)
LEMMA SecureEstablished ==
    ASSUME CoreInv, SecureInv, Established, UNCHANGED <<conn, stack, net, garbage>>
    PROVE  SecureInv'
<1>t. TypeOK /\ EntryInv /\ SessionInv /\ Work \in Stacks
  BY WorkExists DEF CoreInv
<1>s. KeyInv /\ NetInv /\ ExchangeInv /\ ~garbage
  BY DEF SecureInv
<1>w. PICK w \in Stacks : w = Work
  BY <1>t
<1>j. PICK j \in IDs(w) : j = session[2] /\ session[1] = w
  BY <1>t, <1>w DEF SessionInv, HasSession, Established
<1>k. TakesKeys(w, j, PeerSessionID(hs), SessionKeys(hs)) /\ IsSession(table[w][j])
  BY <1>j, <1>t DEF Established, EntryInv
<1>r. /\ \A t \in Stacks : IDs(t)' = IDs(t)
      /\ table'[w][j].key = SessionKeys(hs)
      /\ \A l \in IDs(w) \ {j} : table'[w][l] = table[w][l]
      /\ \A t \in Stacks \ {w} : table'[t] = table[t]
  BY <1>k, <1>t, KeysFacts
<1>p. pc' \notin InHandshake /\ pc' \in {"subDone", "ready"}
  BY DEF Established, InHandshake
<1>1. \A t \in Stacks : \A l \in IDs(t) :
        /\ table'[t][l].key # NoKey
        /\ t # w \/ l # j => table'[t][l] = table[t][l]
  <2>1. ASSUME NEW t \in Stacks, NEW l \in IDs(t), t # w \/ l # j
        PROVE  table'[t][l] = table[t][l] /\ table[t][l].key # NoKey
    BY <1>j, <1>r, <1>s, <2>1 DEF KeyInv
  <2>2. table'[w][j].key # NoKey
    BY <1>r, KeysAreKeys
  <2>. QED
    BY <2>1, <2>2
<1>2. KeyInv'
  BY <1>1, <1>p, <1>r DEF KeyInv, InHandshake
<1>3. ~ex'.open /\ ExchangeInv'
  <2>1. ex' = NoEx /\ nextEx' = nextEx /\ 0 < nextEx
    BY <1>s, <1>t DEF Established, ExchangeInv, TypeOK, IsExchange
  <2>. QED
    BY <1>p, <2>1 DEF ExchangeInv, NoEx
<1>4. HandshakeInv'
  BY <1>p DEF HandshakeInv, InHandshake
<1>5. ASSUME NEW m \in net PROVE MessageInv(m)'
  <2>1. MessageInv(m) /\ stack \in Stacks /\ nextEx' = nextEx
    BY <1>s, <1>t DEF NetInv, TypeOK, Established
  <2>2. m.wire.key # NoKey => m.lsid \in IDs(stack)' /\ table'[stack'][m.lsid].key # NoKey
    <3>1. DOMAIN table'[stack] = IDs(stack)
      BY <1>r, <2>1 DEF IDs
    <3>. QED
      BY <1>1, <2>1, <3>1 DEF MessageInv, IDs
  <2>. QED
    BY <1>3, <2>1, <2>2 DEF MessageInv
<1>. QED
  BY <1>2, <1>3, <1>4, <1>5, <1>s DEF SecureInv, NetInv

LEMMA SecureFails ==
    ASSUME CoreInv, SecureInv, pc = "wait", FailHandshake, UNCHANGED <<conn, stack, net, garbage>>
    PROVE  SecureInv'
<1>t. TypeOK /\ EntryInv /\ SessionInv /\ Work \in Stacks
  BY WorkExists DEF CoreInv
<1>s. KeyInv /\ NetInv /\ ExchangeInv /\ ~garbage
  BY DEF SecureInv
<1>w. PICK w \in Stacks : w = Work
  BY <1>t
<1>j. PICK j \in IDs(w) : j = session[2] /\ session[1] = w
  BY <1>t, <1>w DEF SessionInv, HasSession
<1>r. /\ IDs(w)' = IDs(w) \ {j}
      /\ \A l \in IDs(w) \ {j} : table'[w][l] = table[w][l]
      /\ \A t \in Stacks \ {w} : table'[t] = table[t]
  <2>1. table' = RemoveSession(w, j)
    BY <1>j DEF FailHandshake
  <2>. QED
    BY <1>t, <2>1, TableFacts
<1>p. pc' \notin InHandshake /\ pc' \in {"subFailed", "lost"}
  BY DEF FailHandshake, InHandshake
<1>1. \A t \in Stacks : /\ \A l \in DOMAIN table'[t] :
                             l \in IDs(t) /\ table'[t][l] = table[t][l] /\ table[t][l].key # NoKey
                        /\ \A l \in IDs(t) : table[t][l].key # NoKey =>
                             l \in DOMAIN table'[t] /\ table'[t][l] = table[t][l]
  <2>0. table[w][j].key = NoKey
    BY <1>j, <1>s DEF KeyInv
  <2>1. ASSUME NEW t \in Stacks, t # w
        PROVE  DOMAIN table'[t] = IDs(t) /\ \A l \in IDs(t) : table'[t][l] = table[t][l] /\ table[t][l].key # NoKey
    BY <1>j, <1>r, <1>s, <2>1 DEF KeyInv, IDs
  <2>2. /\ DOMAIN table'[w] = IDs(w) \ {j}
        /\ \A l \in IDs(w) \ {j} : table'[w][l] = table[w][l] /\ table[w][l].key # NoKey
    BY <1>j, <1>r, <1>s DEF KeyInv, IDs
  <2>. QED
    BY <2>0, <2>1, <2>2
<1>2. KeyInv'
  BY <1>1, <1>p DEF KeyInv, InHandshake, IDs
<1>3. ~ex'.open /\ ExchangeInv'
  <2>1. ex' = NoEx /\ nextEx' = nextEx /\ 0 < nextEx
    BY <1>s, <1>t DEF FailHandshake, ExchangeInv, TypeOK, IsExchange
  <2>. QED
    BY <1>p, <2>1 DEF ExchangeInv, NoEx
<1>4. HandshakeInv'
  BY <1>p DEF HandshakeInv, InHandshake
<1>5. ASSUME NEW m \in net PROVE MessageInv(m)'
  <2>1. MessageInv(m) /\ stack \in Stacks /\ nextEx' = nextEx
    BY <1>s, <1>t DEF NetInv, TypeOK, FailHandshake
  <2>2. m.wire.key # NoKey => m.lsid \in IDs(stack)' /\ table'[stack'][m.lsid].key # NoKey
    BY <1>1, <2>1 DEF MessageInv, IDs
  <2>. QED
    BY <1>3, <2>1, <2>2 DEF MessageInv
<1>. QED
  BY <1>2, <1>3, <1>4, <1>5, <1>s DEF SecureInv, NetInv

(* The controller takes over a new table: before CASE every session has the
   first ID, so what is encrypted under the old one meets a key in the new. *)
LEMMA SecureMigrates ==
    ASSUME CoreInv, SecureInv, Migrate
    PROVE  SecureInv'
<1>t. TypeOK /\ PumpInv /\ SessionInv /\ FreshInv
  BY DEF CoreInv
<1>s. KeyInv /\ NetInv /\ ExchangeInv /\ ~garbage
  BY DEF SecureInv
<1>u. /\ pc = "migrate" /\ pc' = "stopMain" /\ conn'.id = nConn /\ stack' = session[1]
      /\ UNCHANGED <<table, session, ex, nextEx, hs, net, garbage>>
  BY DEF Migrate, sessVars
<1>b. Beside /\ Work \in Stacks /\ plan = "ble" /\ tries = 0 /\ stack \in Stacks
  BY <1>t, <1>u, WorkExists DEF Beside, PumpInv, CoreInv, TypeOK
<1>c. session[1] = Work /\ session[2] \in IDs(Work)
  BY <1>t, <1>u DEF SessionInv, HasSession
<1>1. 1 \in IDs(Work) /\ table[Work][1].key # NoKey /\ IDs(stack) \subseteq {1}
  <2>1. session[2] = 1
    BY <1>b, <1>c, <1>t DEF FreshInv
  <2>2. table[Work][1].key # NoKey
    BY <1>b, <1>c, <1>s, <1>u, <2>1 DEF KeyInv
  <2>. QED
    BY <1>b, <1>c, <1>t, <2>1, <2>2 DEF FreshInv
<1>2. KeyInv'
  BY <1>s, <1>u DEF KeyInv, IDs
<1>3. ~ex.open /\ ExchangeInv'
  BY <1>s, <1>u DEF ExchangeInv
<1>4. HandshakeInv'
  BY <1>u DEF HandshakeInv
<1>5. ASSUME NEW m \in net PROVE MessageInv(m)'
  <2>1. MessageInv(m) /\ m.conn \in Nat /\ conn.id \in Nat /\ nConn \in Nat /\ conn.id <= nConn
    BY <1>s, <1>t DEF NetInv, MessageInv, IsMessage, TypeOK, PumpInv
  <2>2. ASSUME m.wire.key # NoKey
        PROVE  /\ m.conn <= conn'.id
               /\ m.lsid \in IDs(stack)' /\ table'[stack'][m.lsid].key # NoKey
    <3>1. m.lsid = 1 /\ m.conn <= conn.id
      BY <1>1, <2>1, <2>2 DEF MessageInv
    <3>2. stack' = Work /\ table' = table
      BY <1>c, <1>u
    <3>. QED
      BY <1>1, <1>u, <2>1, <3>1, <3>2 DEF IDs
  <2>. QED
    BY <1>3, <1>u, <2>1, <2>2 DEF MessageInv
<1>. QED
  BY <1>2, <1>3, <1>4, <1>5, <1>s, <1>u DEF SecureInv, NetInv

-----------------------------------------------------------------------------
(* What the caller sends. *)
Sent(s, c, addr, body) ==
    [dir |-> "out", conn |-> c, addr |-> addr, sid |-> Lookup(s, ex.sid).peer, lsid |-> ex.sid,
     eid |-> ex.id, wire |-> Encode(Lookup(s, ex.sid), body)]

LEMMA SentFields ==
    ASSUME NEW s, NEW c, NEW addr, NEW body
    PROVE  LET m == Sent(s, c, addr, body)
           IN  /\ m = [dir |-> m.dir, conn |-> m.conn, addr |-> m.addr, sid |-> m.sid,
                       lsid |-> m.lsid, eid |-> m.eid, wire |-> m.wire]
               /\ m.dir = "out" /\ m.conn = c /\ m.eid = ex.id /\ m.lsid = ex.sid
               /\ m.wire.body = body
               /\ m.wire.key = IF Lookup(s, ex.sid).proto # "Unsecured"
                               THEN Lookup(s, ex.sid).key ELSE NoKey
BY DEF Sent, Encode

LEMMA SecureSendsHandshake ==
    ASSUME CoreInv, SecureInv, SendHandshake
    PROVE  SecureInv'
<1>t. TypeOK /\ PumpInv
  BY DEF CoreInv
<1>s. ExchangeInv /\ HandshakeInv /\ ~garbage
  BY DEF SecureInv
<1>u. /\ pc = "send" /\ pc' = "wait"
      /\ UNCHANGED <<table, session, stack, conn, ex, nextEx, hs, garbage>>
  BY DEF SendHandshake, ctlVars, sessVars
<1>1. \E w \in Stacks, c \in Nat : \E a : net' = net \cup {Sent(w, c, a, hs.log[Len(hs.log)])}
  <2>1. CASE OnSub
    <3>1. pump["sub"].stack \in Stacks /\ pump["sub"].conn \in Nat
      BY <1>t, <2>1, PumpTypes DEF PumpInv, Beside
    <3>2. net' = net \cup {Sent(pump["sub"].stack, pump["sub"].conn, BleAddr, hs.log[Len(hs.log)])}
      BY <2>1 DEF SendHandshake, sendMessage, Sent
    <3>. QED
      BY <3>1, <3>2
  <2>2. CASE ~OnSub
    <3>1. stack \in Stacks /\ conn.id \in Nat
      BY <1>t DEF TypeOK
    <3>2. net' = net \cup {Sent(stack, conn.id, peerAddr, hs.log[Len(hs.log)])}
      BY <2>2 DEF SendHandshake, sendMessage, Sent
    <3>. QED
      BY <3>1, <3>2
  <2>. QED
    BY <2>1, <2>2
<1>2. PICK w \in Stacks, c \in Nat : \E a : net' = net \cup {Sent(w, c, a, hs.log[Len(hs.log)])}
  BY <1>1
<1>3. PICK a : net' = net \cup {Sent(w, c, a, hs.log[Len(hs.log)])}
  BY <1>2
<1>m. PICK m : m = Sent(w, c, a, hs.log[Len(hs.log)])
  OBVIOUS
<1>4. ex.sid = 0 /\ ex.id \in Nat /\ ex.id < nextEx /\ hs.log[Len(hs.log)].op # "Invoke"
  BY <1>s, <1>t, <1>u DEF ExchangeInv, HandshakeInv, TypeOK, IsExchange
<1>5. Lookup(w, 0) = Unsecured
  <2>1. 0 \notin IDs(w)
    BY <1>t DEF TypeOK
  <2>. QED
    BY <2>1 DEF Lookup
<1>6. /\ IsMessage(m) /\ m.eid < nextEx /\ m.wire.key = NoKey
      /\ m.wire.body.op # "Invoke"
  <2>1. Unsecured.proto = "Unsecured"
    BY DEF Unsecured
  <2>. QED
    BY <1>4, <1>5, <1>m, <2>1, SentFields DEF IsMessage
<1>7. MessageInv(m)'
  BY <1>6, <1>u DEF MessageInv
<1>8. ExchangeInv' /\ HandshakeInv'
  BY <1>s, <1>u DEF ExchangeInv, HandshakeInv
<1>9. \A k \in net' \ net : MessageInv(k)'
  BY <1>3, <1>7, <1>m
<1>10. conn.id \in Nat /\ nextEx \in Nat
  BY <1>t DEF TypeOK
<1>. QED
  BY <1>10, <1>8, <1>9, <1>s, <1>u, SecureFrame DEF InHandshake

LEMMA SecureSendsOp ==
    ASSUME CoreInv, SecureInv, SendOp
    PROVE  SecureInv'
<1>t. TypeOK /\ PumpInv /\ SessionInv /\ EntryInv
  BY DEF CoreInv
<1>s. ExchangeInv /\ KeyInv /\ ~garbage
  BY DEF SecureInv
<1>u. /\ pc = "opsend" /\ pc' = "opwait"
      /\ UNCHANGED <<table, session, stack, conn, ex, nextEx, hs, garbage>>
  BY DEF SendOp, ctlVars, sessVars
<1>b. ~Beside /\ Work = stack /\ stack \in Stacks /\ conn.id \in Nat /\ nextEx \in Nat
  BY <1>t, <1>u DEF Beside, Work, PumpInv, TypeOK
<1>c. session[1] = stack /\ session[2] \in IDs(stack) /\ ex.sid = session[2]
  BY <1>b, <1>s, <1>t, <1>u DEF SessionInv, HasSession, ExchangeInv
<1>. DEFINE e == table[stack][session[2]]
<1>m. PICK m : m = Sent(stack, conn.id, peerAddr, [op |-> "Invoke"])
  OBVIOUS
<1>1. net' = net \cup {m}
  BY <1>m DEF SendOp, sendMessage, Sent
<1>2. e.key # NoKey /\ e.proto # "Unsecured" /\ Lookup(stack, ex.sid) = e
  BY <1>b, <1>c, <1>s, <1>t, <1>u DEF KeyInv, EntryInv, IsSession, Lookup
<1>3. ex.id \in Nat /\ ex.id < nextEx
  BY <1>s, <1>t DEF ExchangeInv, TypeOK, IsExchange
<1>4. /\ IsMessage(m) /\ m.eid < nextEx /\ m.wire.key = e.key /\ m.conn = conn.id
      /\ m.lsid = session[2]
  BY <1>2, <1>3, <1>b, <1>c, <1>m, SentFields DEF IsMessage
<1>5. MessageInv(m)'
  BY <1>2, <1>4, <1>b, <1>c, <1>u DEF MessageInv, IDs
<1>6. ExchangeInv' /\ HandshakeInv'
  BY <1>s, <1>u DEF ExchangeInv, HandshakeInv
<1>7. \A k \in net' \ net : MessageInv(k)'
  BY <1>1, <1>5
<1>. QED
  BY <1>6, <1>7, <1>b, <1>s, <1>u, SecureFrame DEF InHandshake

(* What the initiator sends is a message of its handshake. *)
LEMMA EstablishSends ==
    ASSUME NEW h, NEW m, Establish(h, m).send # None
    PROVE  Establish(h, m).send.op # "Invoke"
<1>1. CASE h.proto = "PASE"
  <2>1. Establish(h, m).send \in {None, ProcessPBKDFParamResponse(h, m), ProcessPAKE2(h, m)}
    BY <1>1 DEF Establish, EstablishPASE
  <2>2. ProcessPBKDFParamResponse(h, m) = None \/ ProcessPBKDFParamResponse(h, m).op = "PAKE1"
    BY DEF ProcessPBKDFParamResponse
  <2>3. ProcessPAKE2(h, m) = None \/ ProcessPAKE2(h, m).op = "PAKE3"
    BY DEF ProcessPAKE2
  <2>. QED
    BY <2>1, <2>2, <2>3
<1>2. CASE h.proto # "PASE"
  <2>1. Establish(h, m).send \in {None, GenerateSigma3(h, m)}
    BY <1>2 DEF Establish, EstablishCASE
  <2>2. GenerateSigma3(h, m).op = "Sigma3"
    BY DEF GenerateSigma3
  <2>. QED
    BY <2>1, <2>2
<1>. QED
  BY <1>1, <1>2

(* The log of a handshake grows at its end. *)
Extends(g, h, m, x) == g = [h EXCEPT !.log = Append(Append(@, m), x)]

LEMMA LogGrows ==
    ASSUME NEW h, NEW g, NEW m, NEW x, Extends(g, h, m, x), IsSeq(h.log),
           h = [proto |-> h.proto, sid |-> h.sid, n |-> h.n, peer |-> h.peer, log |-> h.log]
    PROVE  /\ g = [proto |-> g.proto, sid |-> g.sid, n |-> g.n, peer |-> g.peer, log |-> g.log]
           /\ IsSeq(g.log) /\ g.log[Len(g.log)] = x
<1>1. PICK a, b, c, d, l : h = [proto |-> a, sid |-> b, n |-> c, peer |-> d, log |-> l]
  OBVIOUS
<1>. DEFINE k == Append(Append(l, m), x)
<1>2. g = [h EXCEPT !.log = k]
  BY <1>1 DEF Extends
<1>3. l = h.log /\ IsSeq(l)
  BY <1>1
<1>4. IsSeq(k) /\ k[Len(k)] = x
  <2>1. PICK M : l \in Seq(M)
    BY <1>3 DEF IsSeq
  <2>2. l \in Seq(M \cup {m, x})
    BY <2>1
  <2>3. Append(l, m) \in Seq(M \cup {m, x})
    BY <2>2
  <2>4. k \in Seq(M \cup {m, x}) /\ k[Len(k)] = x
    BY <2>3
  <2>. QED
    BY <2>4 DEF IsSeq
<1>. HIDE DEF k
<1>5. [h EXCEPT !.log = k] \in [proto : {a}, sid : {b}, n : {c}, peer : {d}, log : {k}]
  BY <1>1
<1>. QED
  BY <1>2, <1>4, <1>5

LEMMA SecureAnswered ==
    ASSUME CoreInv, SecureInv, Answered, UNCHANGED <<conn, stack, net, garbage>>
    PROVE  SecureInv'
<1>s. /\ ExchangeInv /\ HandshakeInv /\ ~garbage
      /\ conn.id \in Nat /\ nextEx \in Nat /\ IsExchange(ex)
  BY DEF SecureInv, CoreInv, TypeOK
<1>u. pc = "wait" /\ pc' = "send" /\ UNCHANGED <<table, nextEx, session>>
  BY DEF Answered
<1>1. PICK m, x : /\ x # None /\ x = Establish(hs, m).send
                  /\ Extends(hs', hs, m, x)
  BY DEF Answered, Extends
<1>2. x.op # "Invoke"
  BY <1>1, EstablishSends
<1>3. HandshakeInv'
  <2>1. /\ hs = [proto |-> hs.proto, sid |-> hs.sid, n |-> hs.n, peer |-> hs.peer, log |-> hs.log]
        /\ IsSeq(hs.log)
    BY <1>s, <1>u DEF HandshakeInv
  <2>. QED
    BY <1>1, <1>2, <2>1, LogGrows DEF HandshakeInv
<1>4. (ex'.open => ex.open) /\ ex'.id = ex.id /\ ex'.sid = ex.sid
  BY <1>s, ExchangeFields DEF Answered
<1>5. ExchangeInv'
  BY <1>4, <1>s, <1>u DEF ExchangeInv
<1>. QED
  BY <1>3, <1>4, <1>5, <1>s, <1>u, SecureFrame DEF InHandshake

-----------------------------------------------------------------------------
(* What the pump takes from the net under a key, it decrypts: the main pump
   looks the session up in the table the key is in, and nothing encrypted was
   ever sent on the sub-controller's transport. *)
LEMMA SecurePump ==
    ASSUME CoreInv, SecureInv, NEW p \in Pumps, PumpDispatch(p) \/ PumpStops(p)
    PROVE  SecureInv'
<1>t. TypeOK /\ PumpInv /\ EntryInv
  BY DEF CoreInv
<1>s. NetInv /\ ~garbage /\ IsExchange(ex)
  BY <1>t DEF SecureInv, TypeOK
<1>u. UNCHANGED <<table, session, stack, nextEx, pc, hs>> /\ conn' = conn
  BY DEF PumpDispatch, PumpStops, ctlVars
<1>e. IsExchange(ex') /\ (ex'.open => ex.open) /\ ex'.id = ex.id /\ ex'.sid = ex.sid
  BY <1>s, PumpExchange
<1>1. net' \subseteq net
  BY DEF PumpDispatch, PumpStops
<1>2. ~garbage'
  <2>1. CASE PumpDispatch(p)
    <3>1. PICK m \in net :
            /\ Receives(p, m)
            /\ garbage' = (garbage \/ (Decodes(Lookup(StackOf(p), m.lsid), m)
                                         /\ Undecrypted(Lookup(StackOf(p), m.lsid), m)))
      BY <2>1 DEF PumpDispatch
    <3>2. PICK e : e = Lookup(StackOf(p), m.lsid)
      OBVIOUS
    <3>. SUFFICES ASSUME Decodes(e, m), Undecrypted(e, m) PROVE FALSE
      BY <1>s, <3>1, <3>2
    <3>3. m.wire.key # NoKey /\ m.conn = pump[p].conn /\ pump[p].st = "recv"
      BY <2>1, <3>1 DEF Undecrypted, Receives, PumpDispatch
    <3>4. /\ m.conn <= conn.id /\ m.conn \in Nat
          /\ m.lsid \in IDs(stack) /\ table[stack][m.lsid].key # NoKey
      BY <1>s, <3>3 DEF NetInv, MessageInv, IsMessage
    <3>5. CASE p = "main"
      <4>1. e = table[stack][m.lsid] /\ stack \in Stacks
        BY <1>t, <3>2, <3>4, <3>5 DEF StackOf, Lookup, TypeOK
      <4>2. e.proto # "Unsecured"
        BY <1>t, <3>4, <4>1 DEF EntryInv, IsSession
      <4>. QED
        BY <3>4, <4>1, <4>2 DEF Decodes, Undecrypted
    <3>6. CASE p = "sub"
      <4>1. OnSub /\ Beside /\ conn.id \in Nat /\ nConn \in Nat
        BY <1>t, <3>3, <3>6 DEF OnSub, Beside, TypeOK
      <4>. QED
        BY <1>t, <3>3, <3>4, <3>6, <4>1 DEF PumpInv
    <3>. QED
      BY <3>5, <3>6 DEF Pumps
  <2>2. CASE PumpStops(p)
    BY <1>s, <2>2 DEF PumpStops
  <2>. QED
    BY <2>1, <2>2
<1>. QED
  BY <1>1, <1>2, <1>e, <1>u, SecureNet

(* A device answers on the exchange and the session it was asked on, under
   the key it was asked under or none; a repeated answer is the same. *)
LEMMA SecureAnswer ==
    ASSUME CoreInv, SecureInv, NEW m \in net, NEW n, NEW body, NEW key,
           key = NoKey \/ key = m.wire.key, Answer(m, n, body, key),
           UNCHANGED <<table, session, stack, nextEx, pc, hs, conn, ex, garbage>>
    PROVE  SecureInv'
<1>s. NetInv /\ ~garbage /\ IsExchange(ex)
  BY DEF SecureInv, CoreInv, TypeOK
<1>1. PICK k : k = [dir |-> "in", conn |-> m.conn, addr |-> m.addr, sid |-> 0, lsid |-> m.lsid,
                    eid |-> m.eid, wire |-> [key |-> key, body |-> body]]
  OBVIOUS
<1>2. net' \ net \subseteq {k}
  BY <1>1 DEF Answer
<1>3. MessageInv(m)
  BY <1>s DEF NetInv
<1>4. k.dir = "in" /\ k.conn = m.conn /\ k.lsid = m.lsid /\ k.eid = m.eid /\ k.wire.key = key
  BY <1>1
<1>5. IsMessage(k)
  BY <1>1, <1>3, <1>4 DEF MessageInv, IsMessage
<1>6. MessageInv(k)'
  BY <1>3, <1>4, <1>5 DEF MessageInv, IDs
<1>. QED
  BY <1>2, <1>6, <1>s, SecureNet

LEMMA SecureDevices ==
    ASSUME CoreInv, SecureInv, NEW n \in Nodes, DeviceHandles(n)
    PROVE  SecureInv'
<1>u. UNCHANGED <<table, session, stack, nextEx, pc, hs, conn, ex, garbage>>
  BY DEF DeviceHandles, ctlVars, sessVars
<1>1. PICK m \in net : DeviceStarts(n, m) \/ DeviceContinues(n, m) \/ DeviceEnds(n, m)
                         \/ DeviceServes(n, m)
  BY DEF DeviceHandles
<1>2. \E body, key : (key = NoKey \/ key = m.wire.key) /\ Answer(m, n, body, key)
  <2>1. CASE DeviceStarts(n, m)
    BY <2>1 DEF DeviceStarts
  <2>2. CASE DeviceContinues(n, m)
    BY <2>2 DEF DeviceContinues
  <2>3. CASE DeviceEnds(n, m)
    BY <2>3 DEF DeviceEnds
  <2>4. CASE DeviceServes(n, m)
    BY <2>4 DEF DeviceServes
  <2>. QED
    BY <1>1, <2>1, <2>2, <2>3, <2>4
<1>. QED
  BY <1>2, <1>u, SecureAnswer

LEMMA SecureRepeats ==
    ASSUME CoreInv, SecureInv, DeviceRepeats
    PROVE  SecureInv'
<1>s. NetInv /\ ~garbage /\ IsExchange(ex)
  BY DEF SecureInv, CoreInv, TypeOK
<1>u. UNCHANGED <<table, session, stack, nextEx, pc, hs, conn, ex, garbage>>
  BY DEF DeviceRepeats, ctlVars, sessVars
<1>1. PICK m \in net : m.dir = "in" /\ net' = net \cup {[m EXCEPT !.sid = env.repeats + 1]}
  BY DEF DeviceRepeats
<1>2. MessageInv(m)
  BY <1>s DEF NetInv
<1>3. PICK k, i : i = env.repeats + 1 /\ k = [m EXCEPT !.sid = i]
  OBVIOUS
<1>4. /\ k.dir = "in" /\ k.conn = m.conn /\ k.lsid = m.lsid /\ k.eid = m.eid /\ k.wire = m.wire
      /\ IsMessage(k)
  <2>1. PICK a, b, c, d, e, f, g :
          m = [dir |-> a, conn |-> b, addr |-> c, sid |-> d, lsid |-> e, eid |-> f, wire |-> g]
    BY <1>2 DEF MessageInv, IsMessage
  <2>2. [m EXCEPT !.sid = i] \in [dir : {a}, conn : {b}, addr : {c}, sid : {i}, lsid : {e},
                                  eid : {f}, wire : {g}]
    BY <2>1
  <2>3. m.dir = a /\ m.conn = b /\ m.lsid = e /\ m.eid = f /\ m.wire = g
    BY <2>1
  <2>4. b \in Nat /\ f \in Nat
    BY <1>2, <2>3 DEF MessageInv, IsMessage
  <2>. QED
    BY <1>1, <1>3, <2>2, <2>3, <2>4 DEF IsMessage
<1>5. MessageInv(k)'
  BY <1>2, <1>4, <1>u DEF MessageInv, IDs
<1>6. net' \ net \subseteq {k}
  BY <1>1, <1>3
<1>. QED
  BY <1>5, <1>6, <1>s, <1>u, SecureNet

LEMMA SecureConnects ==
    ASSUME CoreInv, SecureInv, pc \in {"start", "opdone", "oplost", "watch", "resolve"},
           NEW s \in Stacks, NEW proto \in {"PASE", "CASE"}, BeginHandshake(proto, s, Target),
           UNCHANGED <<conn, stack, net, garbage>>
    PROVE  SecureInv'
<1>s. TypeOK /\ ExchangeInv /\ conn.id \in Nat
  BY DEF CoreInv, SecureInv, TypeOK
<1>1. ~ex.open /\ pc \notin InHandshake
  BY <1>s DEF ExchangeInv, InHandshake
<1>2. CASE NoneLeft(s)
  BY <1>1, <1>2, <1>s, SecureMoves DEF NoneLeft, InHandshake
<1>3. CASE \E i \in 1 .. NumSIDs : Begun(proto, s, i, Target)
  BY <1>1, <1>3, SecureBegins
<1>. QED
  BY <1>2, <1>3, <1>s, BeginFacts

LEMMA SecureNext == IndInv /\ [Next]_vars => SecureInv'
<1>. SUFFICES ASSUME CoreInv, SecureInv, [Next]_vars PROVE SecureInv'
  BY DEF IndInv
<1>t. TypeOK /\ PumpInv /\ ExchangeInv
  BY DEF CoreInv, SecureInv
<1>x. /\ conn.id \in Nat /\ nConn \in Nat /\ nextEx \in Nat /\ stack \in Stacks /\ IsExchange(ex)
      /\ conn.id <= nConn /\ ~garbage
  BY <1>t DEF TypeOK, PumpInv, SecureInv
<1>0. ASSUME UNCHANGED <<table, session, stack, nextEx, pc, hs, conn, ex, garbage, net>>
      PROVE  SecureInv'
  BY <1>0, <1>x, SecureNet
<1>m. ASSUME UNCHANGED <<table, session, stack, net, garbage, nextEx, ex, conn>>,
             pc \notin {"send", "wait", "opsend", "opwait"},
             pc' \notin {"send", "wait", "opsend", "opwait"}
      PROVE  SecureInv'
  BY <1>m, <1>t, <1>x, SecureMoves DEF ExchangeInv, InHandshake
<1>1. CASE ConnectPASE
  <2>1. /\ pc = "start" /\ BeginHandshake("PASE", stack, Target)
        /\ UNCHANGED <<conn, stack, net, garbage>>
    BY <1>1 DEF ConnectPASE
  <2>. QED
    BY <1>x, <2>1, SecureConnects
<1>2. ASSUME NEW a, ConnectCASE(a), pc \in {"start", "opdone", "watch", "resolve"}
      PROVE  SecureInv'
  <2>1. BeginHandshake("CASE", stack, Target) /\ UNCHANGED <<conn, stack, net, garbage>>
    BY <1>2 DEF ConnectCASE
  <2>. QED
    BY <1>2, <1>x, <2>1, SecureConnects
<1>3. CASE ConnectPASEoverBLE
  <2>1. /\ pc \in {"start", "oplost"} /\ stack <= MaxBLE /\ BeginHandshake("PASE", stack + 1, Target)
        /\ UNCHANGED <<conn, stack, net, garbage>>
    BY <1>3 DEF ConnectPASEoverBLE
  <2>2. PICK s \in Stacks : s = stack + 1
    BY <1>x, <2>1 DEF Stacks
  <2>3. BeginHandshake("PASE", s, Target)
    BY <2>1, <2>2
  <2>. QED
    BY <2>1, <2>3, SecureConnects
<1>4. CASE ReceiveHandshake
  <2>u. UNCHANGED <<conn, stack, net, garbage>>
    BY <1>4, ReceiveCases
  <2>. QED
    BY <1>4, <2>u, ReceiveCases, SecureAnswered, SecureEstablished, SecureFails
<1>5. CASE HandshakeTimesOut
  BY <1>5, SecureFails DEF HandshakeTimesOut, ctlVars
<1>6. CASE BeginOp
  <2>1. /\ pc = "ready" /\ pc' = "opsend" /\ nextEx' = nextEx + 1
        /\ ex' = [open |-> TRUE, stack |-> session[1], id |-> nextEx, sid |-> session[2], inbox |-> <<>>]
        /\ UNCHANGED <<table, session, stack, conn, net, garbage>>
    BY <1>6 DEF BeginOp, WithExchange, ctlVars
  <2>2. ex'.open /\ ex'.id = nextEx /\ ex'.sid = session[2]
    BY <2>1
  <2>3. ExchangeInv' /\ HandshakeInv'
    BY <1>x, <2>1, <2>2 DEF ExchangeInv, HandshakeInv
  <2>. QED
    BY <1>x, <2>1, <2>2, <2>3, SecureFrame DEF InHandshake
<1>7. CASE EndOp
  <2>1. /\ pc = "opwait" /\ pc' \in {"opdone", "oplost"} /\ ex' = NoEx
        /\ UNCHANGED <<table, session, stack, conn, net, garbage, nextEx>>
    BY <1>7 DEF EndOp, ctlVars
  <2>2. ~ex'.open
    BY <2>1 DEF NoEx
  <2>. QED
    BY <1>x, <2>1, <2>2, SecureMoves DEF InHandshake
<1>8. CASE StopSubPump
  BY <1>8, <1>m DEF StopSubPump, sessVars
<1>9. CASE RestartPump
  BY <1>9, <1>m DEF RestartPump, sessVars
<1>10. CASE EstablishCASEoverIP
  <2>1. /\ pc = "opdone" /\ pc' \in {"opdone", "watch"}
        /\ conn' = conn \/ conn'.id = nConn + 1
        /\ UNCHANGED <<table, session, stack, net, garbage, nextEx, ex>>
    BY <1>10 DEF EstablishCASEoverIP, sessVars
  <2>2. conn'.id \in Nat /\ conn.id <= conn'.id
    BY <1>x, <2>1
  <2>. QED
    BY <1>t, <2>1, <2>2, SecureMoves DEF ExchangeInv, InHandshake
<1>11. CASE WatchOperational
  <2>1. ASSUME NEW a \in Addrs, ConnectCASE(a) PROVE SecureInv'
    BY <1>11, <1>2, <2>1 DEF WatchOperational
  <2>2. CASE pc' = "end" /\ UNCHANGED <<plan, ctlVars, pump, sessVars, net, devVars, garbage>>
    BY <1>11, <1>m, <2>2 DEF WatchOperational, ctlVars, sessVars
  <2>. QED
    BY <1>11, <2>1, <2>2 DEF WatchOperational
<1>12. CASE DialStored
  BY <1>12, <1>2 DEF DialStored
<1>13. CASE AfterFailure
  <2>1. pc' \in {"resolve", "watch", "end"}
    BY <1>13 DEF AfterFailure
  <2>. QED
    BY <1>13, <1>m, <2>1 DEF AfterFailure, ctlVars, sessVars
<1>14. CASE GiveUp
  BY <1>14, <1>m DEF GiveUp, ctlVars, sessVars
<1>15. CASE Close
  BY <1>15, <1>m DEF Close, sessVars
<1>16. CASE Caller
  BY <1>1, <1>3, <1>4, <1>5, <1>6, <1>7, <1>8, <1>9, <1>10, <1>11, <1>12, <1>13, <1>14, <1>15,
     <1>16, SecureSendsHandshake, SecureSendsOp, SecureMigrates DEF Caller
<1>17. ASSUME NEW p \in Pumps, PumpStep(p) PROVE SecureInv'
  BY <1>17, SecurePump DEF PumpStep
<1>18. ASSUME NEW n \in Nodes, DeviceHandles(n) PROVE SecureInv'
  BY <1>18, SecureDevices
<1>19. CASE DeviceMoves \/ LinkDrops
  BY <1>0, <1>19 DEF DeviceMoves, LinkDrops, ctlVars, sessVars
<1>20. CASE UNCHANGED vars
  BY <1>0, <1>20 DEF vars, ctlVars, sessVars
<1>. QED
  BY <1>16, <1>17, <1>18, <1>19, <1>20, SecureRepeats DEF Next

LEMMA SecureInit == Init => SecureInv
<1>. SUFFICES ASSUME Init PROVE SecureInv
  OBVIOUS
<1>1. pc = "start" /\ ex = NoEx /\ nextEx = 1 /\ net = {} /\ garbage = FALSE
  BY DEF Init
<1>2. \A s \in Stacks : IDs(s) = {}
  BY DEF Init, IDs
<1>3. ExchangeInv
  BY <1>1 DEF ExchangeInv, NoEx
<1>. QED
  BY <1>1, <1>2, <1>3 DEF SecureInv, KeyInv, HandshakeInv, NetInv

LEMMA Invariance == Spec => []IndInv
<1>1. Init => IndInv
  BY CoreInit, SecureInit DEF IndInv
<1>2. IndInv /\ [Next]_vars => IndInv'
  BY CoreNext, SecureNext DEF IndInv
<1>. QED
  BY <1>1, <1>2, PTL DEF Spec

(* ConnectPASE, connectPASEWithAddr, ConnectCASE: whatever way a connect
   operation ends (an answer that is refused, a deadline, a pump that has
   closed the exchange, no free session ID), no exchange of it is open when it
   has returned, and every session left in the controller's table has its
   keys. Before that the only session without keys is the caller's own. *)
THEOREM FailedConnectLeavesNothing == Spec => []NothingHalfOpen
<1>1. IndInv => NothingHalfOpen
  <2>. SUFFICES ASSUME IndInv,
                       pc \in {"ready", "lost", "resolve", "watch", "opdone", "oplost", "end",
                               "closed"}
                PROVE  ~ex.open /\ \A i \in IDs(stack) : table[stack][i].key # NoKey
    BY DEF NothingHalfOpen
  <2>1. KeyInv /\ ExchangeInv /\ stack \in Stacks
    BY DEF IndInv, SecureInv, CoreInv, TypeOK
  <2>. QED
    BY <2>1 DEF KeyInv, ExchangeInv
<1>. QED
  BY <1>1, Invariance, PTL

(* sendSecure, runMessagePump and the codec's fall-back to plaintext for a
   session without keys: no request of the caller leaves in the clear, the
   one of the open exchange is under the key of the caller's session, and the
   pump hands no ciphertext to an exchange undecrypted, also when the message
   was sent before the controller changed transport and table. *)
THEOREM RequestsAreSecured == Spec => []Secured
<1>1. IndInv => Secured
  BY DEF IndInv, SecureInv, NetInv, MessageInv, Secured
<1>. QED
  BY <1>1, Invariance, PTL

-----------------------------------------------------------------------------
(* The third part: whom a session shares its keys with. A key is the tuple of
   what it was derived from: the first two messages of the handshake and, in
   PASE, the passcode can be read off it. *)
Opening(proto, k) == IF proto = "PASE" THEN k[2][3][1] ELSE k[3][3]
Reply(proto, k)   == IF proto = "PASE" THEN k[2][3][2] ELSE k[3][4]
CodeIn(k) == k[2][2][1][2]

(* The first message of the caller's handshake names the session by its ID
   and, in CASE, the device by its node ID and our fabric. *)
OpensWith(proto, b, i) ==
    /\ b.sid = i
    /\ proto = "CASE" => b.op = "Sigma1" /\ b.dest = ComputeDestinationID(b.rand, OurFabric, Target)

MadeFor(e, i) ==
    /\ e.node = Target
    /\ e.key # NoKey =>
         /\ OpensWith(e.proto, Opening(e.proto, e.key), i)
         /\ Reply(e.proto, e.key).sid = e.peer
         /\ e.proto = "PASE" => CodeIn(e.key) = UserCode

MadeInv == \A s \in Stacks : \A i \in IDs(s) : MadeFor(table[s][i], i)

OpeningInv ==
    pc \in InHandshake =>
      /\ hs.proto = table[session[1]][session[2]].proto
      /\ Len(hs.log) >= 1
      /\ OpensWith(hs.proto, hs.log[1], session[2])
      /\ hs.proto = "PASE" => hs.peer = UserCode

(* A device goes into a handshake of CASE only when it is meant, and what it
   accepts it derives from its own messages and its own passcode. *)
MeansMe(n, b) == b.op = "Sigma1" => b.dest = ComputeDestinationID(b.rand, FabricOf[n], n)

AcceptedBy(n, d) ==
    /\ d.proto \in {"PASE", "CASE"}
    /\ Opening(d.proto, d.key).sid = d.isid /\ Reply(d.proto, d.key).sid = d.rsid
    /\ d.proto = "PASE" => CodeIn(d.key) = Passcode[n]
    /\ d.proto = "CASE" => MeansMe(n, Opening("CASE", d.key))

DeviceInv(n) ==
    /\ dev[n] = [log |-> dev[n].log, eid |-> dev[n].eid, sess |-> dev[n].sess]
    /\ IsSeq(dev[n].log)
    /\ Len(dev[n].log) >= 1 => MeansMe(n, dev[n].log[1])
    /\ \A d \in dev[n].sess : AcceptedBy(n, d)

DevicesInv == dev = [n \in Nodes |-> dev[n]] /\ \A n \in Nodes : DeviceInv(n)

SharedInv == MadeInv /\ OpeningInv /\ DevicesInv

LEMMA KeyParts ==
    ASSUME NEW log, NEW pass, NEW fabric
    PROVE  /\ Opening("PASE", PASESessionKeys(log, pass)) = log[1]
           /\ Reply("PASE", PASESessionKeys(log, pass)) = log[2]
           /\ CodeIn(PASESessionKeys(log, pass)) = pass
           /\ Opening("CASE", CASESessionKeys(fabric, log)) = log[1]
           /\ Reply("CASE", CASESessionKeys(fabric, log)) = log[2]
<1>1. ASSUME NEW a, NEW b, NEW c PROVE <<a, b, c>>[2] = b /\ <<a, b, c>>[3] = c /\ <<a, b, c>>[1] = a
  OBVIOUS
<1>2. ASSUME NEW a, NEW b PROVE <<a, b>>[1] = a /\ <<a, b>>[2] = b
  OBVIOUS
<1>3. ASSUME NEW a, NEW b, NEW c, NEW d, NEW e
      PROVE  <<a, b, c, d, e>>[3] = c /\ <<a, b, c, d, e>>[4] = d
  OBVIOUS
<1>4. PASESessionKeys(log, pass)
        = <<"SessionKeys",
            <<"SPAKE2+", <<<<"PBKDF2", pass, log[2].salt>>, log[3].pA, log[4].pB>>,
              <<log[1], log[2]>>>>,
            None>>
  BY DEF PASESessionKeys, DeriveSessionKeys, PaseKe, Ke, W, Key
<1>5. CASESessionKeys(fabric, log)
        = <<"SessionKeys", <<"ECDH", log[1].eph, log[2].eph>>,
            <<"ipk", fabric, log[1], log[2], log[3]>>>>
  BY DEF CASESessionKeys, Key, ECDH
<1>6. /\ Opening("PASE", PASESessionKeys(log, pass)) = log[1]
      /\ Reply("PASE", PASESessionKeys(log, pass)) = log[2]
      /\ CodeIn(PASESessionKeys(log, pass)) = pass
  <2>1. PICK k, ke, secrets, w, msgs :
          /\ k = PASESessionKeys(log, pass) /\ k = <<"SessionKeys", ke, None>>
          /\ ke = <<"SPAKE2+", secrets, msgs>>
          /\ secrets = <<w, log[3].pA, log[4].pB>> /\ w = <<"PBKDF2", pass, log[2].salt>>
          /\ msgs = <<log[1], log[2]>>
    BY <1>4
  <2>2. /\ k[2] = ke /\ ke[2] = secrets /\ ke[3] = msgs /\ secrets[1] = w /\ w[2] = pass
        /\ msgs[1] = log[1] /\ msgs[2] = log[2]
    BY <1>1, <1>2, <2>1
  <2>. QED
    BY <2>1, <2>2 DEF Opening, Reply, CodeIn
<1>7. /\ Opening("CASE", CASESessionKeys(fabric, log)) = log[1]
      /\ Reply("CASE", CASESessionKeys(fabric, log)) = log[2]
  BY <1>1, <1>3, <1>5 DEF Opening, Reply
<1>. QED
  BY <1>6, <1>7

(* The caller goes on, and neither tables nor handshake change. *)
LEMMA SharedMoves ==
    ASSUME SharedInv, UNCHANGED <<table, hs, session>>, pc' \in InHandshake => pc \in InHandshake
    PROVE  MadeInv' /\ OpeningInv'
BY DEF SharedInv, MadeInv, OpeningInv, IDs

LEMMA SharedBegins ==
    ASSUME CoreInv, SharedInv, NEW s \in Stacks, NEW proto \in {"PASE", "CASE"},
           BeginHandshake(proto, s, Target)
    PROVE  MadeInv' /\ OpeningInv'
<1>t. TypeOK
  BY DEF CoreInv
<1>1. CASE NoneLeft(s)
  BY <1>1, SharedMoves DEF NoneLeft, InHandshake
<1>2. ASSUME NEW i \in 1 .. NumSIDs, Begun(proto, s, i, Target)
      PROVE  MadeInv' /\ OpeningInv'
  <2>0. /\ session' = <<s, i>> /\ i \in IDs(s)'
        /\ table'[s][i] = [proto |-> proto, peer |-> 0, key |-> NoKey, node |-> Target]
        /\ hs' = IF proto = "PASE" THEN PASEInitiatorNew(UserCode, i, nRand)
                                   ELSE CASEInitiatorNew(Target, i, nRand)
    BY <1>2 DEF Begun
  <2>1. ASSUME NEW t \in Stacks, NEW j \in IDs(t)', t # s \/ j # i
        PROVE  j \in IDs(t) /\ table'[t][j] = table[t][j]
    <3>1. CASE t # s
      BY <1>2, <2>1, <3>1, BegunTable DEF Begun
    <3>2. CASE t = s
      BY <1>2, <2>1, <3>2 DEF Begun
    <3>. QED
      BY <3>1, <3>2
  <2>2. MadeFor(table'[s][i], i)
    BY <2>0 DEF MadeFor
  <2>3. MadeInv'
    BY <2>1, <2>2 DEF SharedInv, MadeInv
  <2>4. ASSUME NEW x PROVE Len(<<x>>) = 1 /\ <<x>>[1] = x
    OBVIOUS
  <2>5. /\ hs'.proto = proto /\ Len(hs'.log) >= 1 /\ OpensWith(proto, hs'.log[1], i)
        /\ proto = "PASE" => hs'.peer = UserCode
    <3>1. CASE proto = "PASE"
      <4>1. /\ hs'.proto = "PASE" /\ hs'.peer = UserCode
            /\ hs'.log = <<PBKDFParamRequest(nRand, i)>>
        BY <2>0, <3>1 DEF PASEInitiatorNew
      <4>2. PBKDFParamRequest(nRand, i).sid = i
        BY DEF PBKDFParamRequest
      <4>. QED
        BY <2>4, <3>1, <4>1, <4>2 DEF OpensWith
    <3>2. CASE proto = "CASE"
      <4>1. hs'.proto = "CASE" /\ hs'.log = <<GenerateSigma1(nRand, i, Target)>>
        BY <2>0, <3>2 DEF CASEInitiatorNew
      <4>2. OpensWith("CASE", GenerateSigma1(nRand, i, Target), i)
        BY DEF GenerateSigma1, OpensWith
      <4>. QED
        BY <2>4, <3>2, <4>1, <4>2
    <3>. QED
      BY <3>1, <3>2
  <2>6. session'[1] = s /\ session'[2] = i /\ table'[s][i].proto = proto
    BY <2>0
  <2>. QED
    BY <2>3, <2>5, <2>6 DEF OpeningInv
<1>. QED
  BY <1>1, <1>2, <1>t, BeginFacts

(* A message of the handshake more: the first one stays. *)
LEMMA LogKeepsFirst ==
    ASSUME NEW h, NEW g, NEW m, NEW x, Extends(g, h, m, x), IsSeq(h.log), Len(h.log) >= 1,
           h = [proto |-> h.proto, sid |-> h.sid, n |-> h.n, peer |-> h.peer, log |-> h.log]
    PROVE  g.proto = h.proto /\ g.peer = h.peer /\ Len(g.log) >= 1 /\ g.log[1] = h.log[1]
<1>1. PICK a, b, c, d, l : h = [proto |-> a, sid |-> b, n |-> c, peer |-> d, log |-> l]
  OBVIOUS
<1>. DEFINE k == Append(Append(l, m), x)
<1>2. g = [h EXCEPT !.log = k]
  BY <1>1 DEF Extends
<1>3. l = h.log /\ IsSeq(l) /\ a = h.proto /\ d = h.peer
  BY <1>1
<1>4. Len(k) >= 1 /\ k[1] = l[1]
  <2>1. PICK M : l \in Seq(M)
    BY <1>3 DEF IsSeq
  <2>2. l \in Seq(M \cup {m, x}) /\ Len(l) >= 1
    BY <1>3, <2>1
  <2>3. /\ Append(l, m) \in Seq(M \cup {m, x}) /\ Append(l, m)[1] = l[1]
        /\ Len(Append(l, m)) = Len(l) + 1
    BY <2>2
  <2>. QED
    BY <2>2, <2>3
<1>. HIDE DEF k
<1>5. [h EXCEPT !.log = k] \in [proto : {a}, sid : {b}, n : {c}, peer : {d}, log : {k}]
  BY <1>1
<1>. QED
  BY <1>2, <1>3, <1>4, <1>5

LEMMA SharedAnswered ==
    ASSUME SecureInv, SharedInv, Answered
    PROVE  MadeInv' /\ OpeningInv'
<1>u. pc = "wait" /\ pc' = "send" /\ UNCHANGED <<table, session>>
  BY DEF Answered
<1>1. PICK m, x : Extends(hs', hs, m, x)
  BY DEF Answered, Extends
<1>2. /\ hs = [proto |-> hs.proto, sid |-> hs.sid, n |-> hs.n, peer |-> hs.peer, log |-> hs.log]
      /\ IsSeq(hs.log) /\ Len(hs.log) >= 1
  BY <1>u DEF SecureInv, HandshakeInv, SharedInv, OpeningInv, InHandshake
<1>3. hs'.proto = hs.proto /\ hs'.peer = hs.peer /\ Len(hs'.log) >= 1 /\ hs'.log[1] = hs.log[1]
  BY <1>1, <1>2, LogKeepsFirst
<1>4. OpeningInv'
  BY <1>3, <1>u DEF SharedInv, OpeningInv, InHandshake
<1>. QED
  BY <1>4, <1>u DEF SharedInv, MadeInv, IDs

(* The keys go into the session that the handshake was begun for. *)
LEMMA SharedEstablished ==
    ASSUME CoreInv, SharedInv, Established
    PROVE  MadeInv' /\ OpeningInv'
<1>t. TypeOK /\ EntryInv /\ SessionInv /\ Work \in Stacks
  BY WorkExists DEF CoreInv
<1>w. PICK w \in Stacks : w = Work
  BY <1>t
<1>j. PICK j \in IDs(w) : j = session[2] /\ session[1] = w
  BY <1>t, <1>w DEF SessionInv, HasSession, Established
<1>k. TakesKeys(w, j, PeerSessionID(hs), SessionKeys(hs)) /\ IsSession(table[w][j])
  BY <1>j, <1>t DEF Established, EntryInv
<1>r. /\ \A t \in Stacks : IDs(t)' = IDs(t)
      /\ table'[w][j].key = SessionKeys(hs) /\ table'[w][j].proto = table[w][j].proto
      /\ table'[w][j].peer = PeerSessionID(hs) /\ table'[w][j].node = table[w][j].node
      /\ \A l \in IDs(w) \ {j} : table'[w][l] = table[w][l]
      /\ \A t \in Stacks \ {w} : table'[t] = table[t]
  BY <1>k, <1>t, KeysFacts
<1>h. /\ hs.proto = table[w][j].proto /\ OpensWith(hs.proto, hs.log[1], j)
      /\ hs.proto = "PASE" => hs.peer = UserCode
  BY <1>j DEF Established, SharedInv, OpeningInv, InHandshake
<1>1. MadeFor(table'[w][j], j)
  <2>1. table'[w][j].node = Target
    BY <1>r DEF SharedInv, MadeInv, MadeFor
  <2>2. PICK e : e = table'[w][j]
    OBVIOUS
  <2>3. e.proto \in {"PASE", "CASE"} /\ e.proto = hs.proto /\ e.peer = hs.log[2].sid
    BY <1>h, <1>k, <1>r, <2>2 DEF IsSession, PeerSessionID
  <2>4. CASE e.proto = "PASE"
    <3>1. e.key = PASESessionKeys(hs.log, UserCode)
      BY <1>h, <1>r, <2>2, <2>3, <2>4 DEF SessionKeys
    <3>2. /\ Opening(e.proto, e.key) = hs.log[1] /\ Reply(e.proto, e.key) = hs.log[2]
          /\ CodeIn(e.key) = UserCode
      BY <2>4, <3>1, KeyParts
    <3>. QED
      BY <1>h, <2>1, <2>2, <2>3, <3>2 DEF MadeFor
  <2>5. CASE e.proto = "CASE"
    <3>1. e.key = CASESessionKeys(OurFabric, hs.log)
      BY <1>h, <1>r, <2>2, <2>3, <2>5 DEF SessionKeys
    <3>2. Opening(e.proto, e.key) = hs.log[1] /\ Reply(e.proto, e.key) = hs.log[2]
      BY <2>5, <3>1, KeyParts
    <3>. QED
      BY <1>h, <2>1, <2>2, <2>3, <2>5, <3>2 DEF MadeFor
  <2>. QED
    BY <2>3, <2>4, <2>5
<1>2. ASSUME NEW t \in Stacks, NEW l \in IDs(t)' PROVE MadeFor(table'[t][l], l)
  <2>1. l \in IDs(t) /\ (t # w \/ l # j => table'[t][l] = table[t][l])
    BY <1>2, <1>r
  <2>. QED
    BY <1>1, <2>1 DEF SharedInv, MadeInv
<1>3. pc' \notin InHandshake
  BY DEF Established, InHandshake
<1>. QED
  BY <1>2, <1>3 DEF MadeInv, OpeningInv

LEMMA SharedFails ==
    ASSUME CoreInv, SharedInv, pc = "wait", FailHandshake
    PROVE  MadeInv' /\ OpeningInv'
<1>t. TypeOK /\ SessionInv /\ Work \in Stacks
  BY WorkExists DEF CoreInv
<1>w. PICK w \in Stacks : w = Work
  BY <1>t
<1>j. PICK j \in IDs(w) : j = session[2] /\ session[1] = w
  BY <1>t, <1>w DEF SessionInv, HasSession
<1>1. /\ IDs(w)' = IDs(w) \ {j}
      /\ \A l \in IDs(w) \ {j} : table'[w][l] = table[w][l]
      /\ \A t \in Stacks \ {w} : table'[t] = table[t]
  <2>1. table' = RemoveSession(w, j)
    BY <1>j DEF FailHandshake
  <2>. QED
    BY <1>t, <2>1, TableFacts
<1>2. ASSUME NEW t \in Stacks, NEW l \in IDs(t)' PROVE MadeFor(table'[t][l], l)
  <2>1. CASE t = w
    BY <1>1, <1>2, <2>1 DEF SharedInv, MadeInv
  <2>2. CASE t # w
    BY <1>1, <1>2, <2>2 DEF SharedInv, MadeInv, IDs
  <2>. QED
    BY <2>1, <2>2
<1>3. pc' \notin InHandshake
  BY DEF FailHandshake, InHandshake
<1>. QED
  BY <1>2, <1>3 DEF MadeInv, OpeningInv

(* A device's record is replaced, or fields of it. *)
Device(f, n, log, eid, sess) == [f EXCEPT ![n] = [log |-> log, eid |-> eid, sess |-> sess]]
Continued(f, n, log)  == [f EXCEPT ![n].log = log]
Restarted(f, n, log, eid) == [f EXCEPT ![n].log = log, ![n].eid = eid]
Ended(f, n, log, acc) == [f EXCEPT ![n].log = log, ![n].sess = @ \cup {acc}]

(* A device gets a new log, and perhaps a session more. *)
LEMMA DeviceChanges ==
    ASSUME DevicesInv, NEW n \in Nodes, NEW log, NEW eid, NEW sess,
           dev' = Device(dev, n, log, eid, sess),
           IsSeq(log), Len(log) >= 1 => MeansMe(n, log[1]), \A d \in sess : AcceptedBy(n, d)
    PROVE  DevicesInv'
<1>1. dev = [k \in Nodes |-> dev[k]]
  BY DEF DevicesInv
<1>2. /\ dev'[n] = [log |-> log, eid |-> eid, sess |-> sess]
      /\ \A k \in Nodes \ {n} : dev'[k] = dev[k]
      /\ dev' = [k \in Nodes |-> dev'[k]]
  BY <1>1 DEF Device
<1>3. DeviceInv(n)'
  BY <1>2 DEF DeviceInv
<1>4. \A k \in Nodes \ {n} : DeviceInv(k)'
  BY <1>2 DEF DevicesInv, DeviceInv
<1>. QED
  BY <1>2, <1>3, <1>4 DEF DevicesInv

(* EXCEPT on fields of a device's record. *)
LEMMA RecordFields ==
    ASSUME NEW f, NEW n \in Nodes, NEW a, NEW b, NEW c, f = [k \in Nodes |-> f[k]],
           f[n] = [log |-> a, eid |-> b, sess |-> c], NEW log, NEW eid, NEW acc
    PROVE  /\ Continued(f, n, log) = Device(f, n, log, b, c)
           /\ Restarted(f, n, log, eid) = Device(f, n, log, eid, c)
           /\ Ended(f, n, log, acc) = Device(f, n, log, b, c \cup {acc})
<1>1. PICK g, x : g = [f EXCEPT ![n].log = log] /\ x = [log |-> log, eid |-> b, sess |-> c]
  OBVIOUS
<1>2. [f[n] EXCEPT !.log = log] = x
  BY <1>1
<1>3. [f EXCEPT ![n].log = log] = [f EXCEPT ![n] = [f[n] EXCEPT !.log = log]]
  OBVIOUS
<1>4. g = [f EXCEPT ![n] = x]
  BY <1>1, <1>2, <1>3
<1>5. g = [k \in Nodes |-> g[k]] /\ g[n] = x
  BY <1>4
<1>6. \A y : [g EXCEPT ![n] = y] = [f EXCEPT ![n] = y]
  BY <1>4
<1>7. [f EXCEPT ![n].log = log, ![n].eid = eid] = [[f EXCEPT ![n].log = log] EXCEPT ![n].eid = eid]
  OBVIOUS
<1>8. [f EXCEPT ![n].log = log, ![n].eid = eid] = [g EXCEPT ![n] = [g[n] EXCEPT !.eid = eid]]
  BY <1>1, <1>5, <1>7
<1>9. [x EXCEPT !.eid = eid] = [log |-> log, eid |-> eid, sess |-> c]
  BY <1>1
<1>10. [f EXCEPT ![n].log = log, ![n].sess = @ \cup {acc}]
         = [[f EXCEPT ![n].log = log] EXCEPT ![n].sess = @ \cup {acc}]
  OBVIOUS
<1>11. [f EXCEPT ![n].log = log, ![n].sess = @ \cup {acc}]
         = [g EXCEPT ![n] = [g[n] EXCEPT !.sess = @ \cup {acc}]]
  BY <1>1, <1>5, <1>10
<1>12. [x EXCEPT !.sess = @ \cup {acc}] = [log |-> log, eid |-> b, sess |-> c \cup {acc}]
  BY <1>1
<1>13. Continued(f, n, log) = Device(f, n, log, b, c)
  BY <1>1, <1>4 DEF Continued, Device
<1>14. Restarted(f, n, log, eid) = Device(f, n, log, eid, c)
  BY <1>5, <1>6, <1>8, <1>9 DEF Restarted, Device
<1>15. Ended(f, n, log, acc) = Device(f, n, log, b, c \cup {acc})
  BY <1>5, <1>6, <1>11, <1>12 DEF Ended, Device
<1>. QED
  BY <1>13, <1>14, <1>15

LEMMA DeviceFields ==
    ASSUME DevicesInv, NEW n \in Nodes, NEW log, NEW eid, NEW acc
    PROVE  /\ Continued(dev, n, log) = Device(dev, n, log, dev[n].eid, dev[n].sess)
           /\ Restarted(dev, n, log, eid) = Device(dev, n, log, eid, dev[n].sess)
           /\ Ended(dev, n, log, acc) = Device(dev, n, log, dev[n].eid, dev[n].sess \cup {acc})
<1>1. /\ dev = [k \in Nodes |-> dev[k]]
      /\ dev[n] = [log |-> dev[n].log, eid |-> dev[n].eid, sess |-> dev[n].sess]
  BY DEF DevicesInv, DeviceInv
<1>2. PICK f, a, b, c : /\ f = dev /\ a = dev[n].log /\ b = dev[n].eid /\ c = dev[n].sess
                        /\ f = [k \in Nodes |-> f[k]] /\ f[n] = [log |-> a, eid |-> b, sess |-> c]
  BY <1>1
<1>3. /\ Continued(f, n, log) = Device(f, n, log, b, c)
      /\ Restarted(f, n, log, eid) = Device(f, n, log, eid, c)
      /\ Ended(f, n, log, acc) = Device(f, n, log, b, c \cup {acc})
  BY <1>2, RecordFields
<1>. QED
  BY <1>2, <1>3

LEMMA SharedDevices ==
    ASSUME DevicesInv, NEW n \in Nodes, DeviceHandles(n)
    PROVE  DevicesInv'
<1>0. PICK m \in net : DeviceStarts(n, m) \/ DeviceContinues(n, m) \/ DeviceEnds(n, m)
                         \/ DeviceServes(n, m)
  BY DEF DeviceHandles
<1>i. DeviceInv(n)
  BY DEF DevicesInv
<1>1. ASSUME UNCHANGED dev PROVE DevicesInv'
  BY <1>1 DEF DevicesInv, DeviceInv
<1>e. IsSeq(<<>>) /\ Len(<<>>) = 0
  <2>1. <<>> \in Seq({})
    OBVIOUS
  <2>. QED
    BY <2>1 DEF IsSeq
<1>2. CASE DeviceStarts(n, m)
  <2>1. PICK b, r : /\ b = m.wire.body
                    /\ \/ UNCHANGED dev
                       \/ /\ b.op = "PBKDFParamRequest"
                               \/ b.dest = ComputeDestinationID(b.rand, FabricOf[n], n)
                          /\ dev' = Restarted(dev, n, <<b, r>>, m.eid)
    BY <1>2 DEF DeviceStarts, Restarted
  <2>2. IsSeq(<<b, r>>) /\ <<b, r>>[1] = b
    <3>1. <<b, r>> \in Seq({b, r})
      OBVIOUS
    <3>. QED
      BY <3>1 DEF IsSeq
  <2>3. CASE UNCHANGED dev
    BY <1>1, <2>3
  <2>4. CASE ~UNCHANGED dev
    <3>1. MeansMe(n, b)
      BY <2>1, <2>4 DEF MeansMe
    <3>2. PICK eid, sess : eid = m.eid /\ sess = dev[n].sess
      OBVIOUS
    <3>3. dev' = Device(dev, n, <<b, r>>, eid, sess)
      BY <2>1, <2>4, <3>2, DeviceFields
    <3>4. \A d \in sess : AcceptedBy(n, d)
      BY <1>i, <3>2 DEF DeviceInv
    <3>. QED
      BY <2>2, <3>1, <3>3, <3>4, DeviceChanges
  <2>. QED
    BY <2>3, <2>4
<1>3. CASE DeviceContinues(n, m)
  <2>1. PICK log, b, r, k : /\ log = dev[n].log /\ Len(log) = 2 /\ k = log \o <<b, r>>
                            /\ dev' = Continued(dev, n, k)
    BY <1>3 DEF DeviceContinues, Continued
  <2>2. IsSeq(k) /\ k[1] = log[1]
    <3>1. PICK M : log \in Seq(M)
      BY <1>i, <2>1 DEF DeviceInv, IsSeq
    <3>2. PICK N : N = M \cup {b, r}
      OBVIOUS
    <3>3. log \in Seq(N) /\ <<b, r>> \in Seq(N) /\ Len(<<b, r>>) = 2
      BY <3>1, <3>2
    <3>4. log \o <<b, r>> \in Seq(N) /\ (log \o <<b, r>>)[1] = log[1]
      BY <2>1, <3>3
    <3>. QED
      BY <2>1, <3>4 DEF IsSeq
  <2>3. PICK eid, sess : eid = dev[n].eid /\ sess = dev[n].sess
    OBVIOUS
  <2>4. dev' = Device(dev, n, k, eid, sess)
    BY <2>1, <2>3, DeviceFields
  <2>5. MeansMe(n, k[1]) /\ \A d \in sess : AcceptedBy(n, d)
    BY <1>i, <2>1, <2>2, <2>3 DEF DeviceInv
  <2>. QED
    BY <2>2, <2>4, <2>5, DeviceChanges
<1>4. CASE DeviceEnds(n, m)
  <2>. DEFINE b == m.wire.body
              case == b.op = "Sigma3"
              log == Append(dev[n].log, b)
              keys == IF case THEN CASESessionKeys(FabricOf[n], log)
                              ELSE PASESessionKeys(dev[n].log, Passcode[n])
  <2>1. PICK old, acc, eid, sess :
          /\ old = dev[n].log /\ eid = dev[n].eid /\ sess = dev[n].sess
          /\ acc = [proto |-> IF case THEN "CASE" ELSE "PASE", key |-> keys,
                    isid |-> log[1].sid, rsid |-> log[2].sid]
    OBVIOUS
  <2>2. /\ Len(old) = (IF case THEN 2 ELSE 4)
        /\ dev' = Ended(dev, n, <<>>, acc) \/ dev' = Continued(dev, n, <<>>)
    BY <1>4, <2>1 DEF DeviceEnds, Ended, Continued
  <2>3. IsSeq(old) /\ MeansMe(n, old[1]) /\ \A d \in sess : AcceptedBy(n, d)
    BY <1>i, <2>1, <2>2 DEF DeviceInv
  <2>4. log[1] = old[1] /\ log[2] = old[2]
    <3>1. PICK M : old \in Seq(M)
      BY <2>3 DEF IsSeq
    <3>2. old \in Seq(M \cup {b}) /\ Len(old) >= 2
      BY <2>2, <3>1
    <3>. QED
      BY <2>1, <3>2
  <2>5. AcceptedBy(n, acc)
    <3>1. CASE case
      <4>1. /\ acc.proto = "CASE" /\ acc.key = CASESessionKeys(FabricOf[n], log)
            /\ acc.isid = log[1].sid /\ acc.rsid = log[2].sid
        BY <2>1, <3>1
      <4>2. Opening("CASE", acc.key) = log[1] /\ Reply("CASE", acc.key) = log[2]
        BY <4>1, KeyParts
      <4>. QED
        BY <2>3, <2>4, <4>1, <4>2 DEF AcceptedBy
    <3>2. CASE ~case
      <4>1. /\ acc.proto = "PASE" /\ acc.key = PASESessionKeys(old, Passcode[n])
            /\ acc.isid = log[1].sid /\ acc.rsid = log[2].sid
        BY <2>1, <3>2
      <4>2. PICK k, pass : k = acc.key /\ pass = Passcode[n] /\ k = PASESessionKeys(old, pass)
        BY <4>1
      <4>3. Opening("PASE", k) = old[1] /\ Reply("PASE", k) = old[2] /\ CodeIn(k) = pass
        BY <4>2, KeyParts
      <4>. QED
        BY <2>4, <4>1, <4>2, <4>3 DEF AcceptedBy
    <3>. QED
      BY <3>1, <3>2
  <2>. HIDE DEF b, case, log, keys
  <2>6. \/ dev' = Device(dev, n, <<>>, eid, sess \cup {acc})
        \/ dev' = Device(dev, n, <<>>, eid, sess)
    BY <2>1, <2>2, DeviceFields
  <2>7. PICK new : /\ new = sess \/ new = sess \cup {acc}
                   /\ dev' = Device(dev, n, <<>>, eid, new)
    BY <2>6
  <2>8. \A d \in new : AcceptedBy(n, d)
    BY <2>3, <2>5, <2>7
  <2>. QED
    BY <1>e, <2>7, <2>8, DeviceChanges
<1>. QED
  BY <1>0, <1>1, <1>2, <1>3, <1>4 DEF DeviceServes

LEMMA SharedNext == IndInv /\ SharedInv /\ [Next]_vars => SharedInv'
<1>. SUFFICES ASSUME CoreInv, SecureInv, SharedInv, [Next]_vars PROVE SharedInv'
  BY DEF IndInv
<1>x. stack \in Stacks /\ DevicesInv
  BY DEF CoreInv, TypeOK, SharedInv
<1>d. ASSUME UNCHANGED dev, MadeInv', OpeningInv' PROVE SharedInv'
  BY <1>d, <1>x DEF SharedInv, DevicesInv, DeviceInv
<1>m. ASSUME UNCHANGED <<table, hs, session, dev>>, pc' \in InHandshake => pc \in InHandshake
      PROVE  SharedInv'
  BY <1>d, <1>m, SharedMoves
<1>b. ASSUME NEW s \in Stacks, NEW proto \in {"PASE", "CASE"}, BeginHandshake(proto, s, Target),
             UNCHANGED dev
      PROVE  SharedInv'
  BY <1>b, <1>d, SharedBegins
<1>1. CASE ConnectPASE
  <2>1. BeginHandshake("PASE", stack, Target) /\ UNCHANGED dev
    BY <1>1 DEF ConnectPASE, devVars
  <2>. QED
    BY <1>b, <1>x, <2>1
<1>2. ASSUME NEW a, ConnectCASE(a) PROVE SharedInv'
  <2>1. BeginHandshake("CASE", stack, Target) /\ UNCHANGED dev
    BY <1>2 DEF ConnectCASE, devVars
  <2>. QED
    BY <1>b, <1>x, <2>1
<1>3. CASE ConnectPASEoverBLE
  <2>1. stack <= MaxBLE /\ BeginHandshake("PASE", stack + 1, Target) /\ UNCHANGED dev
    BY <1>3 DEF ConnectPASEoverBLE, devVars
  <2>2. PICK s \in Stacks : s = stack + 1
    BY <1>x, <2>1 DEF Stacks
  <2>. QED
    BY <1>b, <2>1, <2>2
<1>4. CASE ReceiveHandshake
  <2>u. UNCHANGED dev
    BY <1>4 DEF ReceiveHandshake, devVars
  <2>. QED
    BY <1>4, <1>d, <2>u, ReceiveCases, SharedAnswered, SharedEstablished, SharedFails
<1>5. CASE HandshakeTimesOut
  BY <1>5, <1>d, SharedFails DEF HandshakeTimesOut, devVars
<1>6. CASE SendHandshake
  BY <1>6, <1>m DEF SendHandshake, sessVars, devVars, InHandshake
<1>7. CASE BeginOp \/ EndOp
  BY <1>7, <1>m DEF BeginOp, EndOp, devVars, InHandshake
<1>8. CASE SendOp
  BY <1>8, <1>m DEF SendOp, sessVars, devVars, InHandshake
<1>9. CASE StopSubPump \/ Migrate
  BY <1>9, <1>m DEF StopSubPump, Migrate, sessVars, devVars, InHandshake
<1>10. CASE RestartPump \/ EstablishCASEoverIP
  BY <1>10, <1>m DEF RestartPump, EstablishCASEoverIP, sessVars, devVars, InHandshake
<1>11. CASE WatchOperational
  BY <1>11, <1>2, <1>m DEF WatchOperational, sessVars, devVars, InHandshake
<1>12. CASE DialStored
  BY <1>12, <1>2 DEF DialStored
<1>13. CASE AfterFailure
  <2>1. pc' \in {"resolve", "watch", "end"}
    BY <1>13 DEF AfterFailure
  <2>. QED
    BY <1>13, <1>m, <2>1 DEF AfterFailure, sessVars, devVars, InHandshake
<1>14. CASE GiveUp \/ Close
  BY <1>14, <1>m DEF GiveUp, Close, sessVars, devVars, InHandshake
<1>15. CASE Caller
  BY <1>1, <1>3, <1>4, <1>5, <1>6, <1>7, <1>8, <1>9, <1>10, <1>11, <1>12, <1>13, <1>14, <1>15
     DEF Caller
<1>16. ASSUME NEW p \in Pumps, PumpStep(p) PROVE SharedInv'
  BY <1>16, <1>m DEF PumpStep, PumpDispatch, PumpStops, devVars
<1>17. ASSUME NEW n \in Nodes, DeviceHandles(n) PROVE SharedInv'
  <2>1. UNCHANGED <<table, hs, session, pc>>
    BY <1>17 DEF DeviceHandles, sessVars
  <2>. QED
    BY <1>17, <1>x, <2>1, SharedDevices, SharedMoves DEF SharedInv
<1>18. CASE DeviceRepeats \/ DeviceMoves \/ LinkDrops
  BY <1>18, <1>m DEF DeviceRepeats, DeviceMoves, LinkDrops, sessVars, devVars
<1>19. CASE UNCHANGED vars
  BY <1>19, <1>m DEF vars, sessVars, devVars
<1>. QED
  BY <1>15, <1>16, <1>17, <1>18, <1>19 DEF Next

LEMMA SharedInit == Init => SharedInv
<1>. SUFFICES ASSUME Init PROVE SharedInv
  OBVIOUS
<1>1. \A s \in Stacks : IDs(s) = {}
  BY DEF Init, IDs
<1>2. pc \notin InHandshake
  BY DEF Init, InHandshake
<1>3. IsSeq(<<>>) /\ Len(<<>>) = 0
  <2>1. <<>> \in Seq({})
    OBVIOUS
  <2>. QED
    BY <2>1 DEF IsSeq
<1>4. dev = [n \in Nodes |-> [log |-> <<>>, eid |-> 0, sess |-> {}]]
  BY DEF Init
<1>5. PICK r : r = [log |-> <<>>, eid |-> 0, sess |-> {}]
  OBVIOUS
<1>6. r.log = <<>> /\ r.eid = 0 /\ r.sess = {} /\ \A n \in Nodes : dev[n] = r
  BY <1>4, <1>5
<1>7. ASSUME NEW n \in Nodes PROVE DeviceInv(n)
  <2>1. dev[n].log = <<>> /\ dev[n].eid = 0 /\ dev[n].sess = {}
    BY <1>6
  <2>2. dev[n] = [log |-> dev[n].log, eid |-> dev[n].eid, sess |-> dev[n].sess]
    BY <1>5, <1>6, <2>1
  <2>. QED
    BY <1>3, <2>1, <2>2 DEF DeviceInv
<1>8. dev = [n \in Nodes |-> dev[n]]
  BY <1>4
<1>. QED
  BY <1>1, <1>2, <1>7, <1>8 DEF SharedInv, MadeInv, OpeningInv, DevicesInv

(* The passcode that the user gives, off the label of a device, is that
   device's own and no other's. *)
CodeOfTarget == \A n \in Nodes : Passcode[n] = UserCode => n = Target

(* EstablishPASE, EstablishCASE and the responders they talk to: if a device
   has accepted a session with the keys of a session in one of our tables, it
   is the device that the session was made for, and each end knows the other's
   session ID. Moved devices, another device at the old address, repeated and
   late answers, session IDs used again and tables taken over do not matter:
   the keys bind the first messages of both ends, and these the destination
   (CASE) or the passcode (PASE). For PASE the passcode must be the target's
   alone. *)
THEOREM KeysSharedWithPeerOnly ==
    ASSUME CodeOfTarget
    PROVE  Spec => []SharedWithPeer
<1>1. IndInv /\ SharedInv => SharedWithPeer
  <2>. SUFFICES ASSUME IndInv, SharedInv, NEW s \in Stacks, NEW i \in IDs(s),
                       table[s][i].key # NoKey, NEW n \in Nodes, NEW d \in dev[n].sess,
                       d.proto = table[s][i].proto, d.key = table[s][i].key
                PROVE  n = table[s][i].node /\ d.isid = i /\ d.rsid = table[s][i].peer
    BY DEF SharedWithPeer
  <2>1. PICK e : e = table[s][i]
    OBVIOUS
  <2>2. MadeFor(e, i) /\ AcceptedBy(n, d)
    BY <2>1 DEF SharedInv, MadeInv, DevicesInv, DeviceInv
  <2>3. d.isid = i /\ d.rsid = e.peer /\ e.node = Target
    BY <2>1, <2>2 DEF MadeFor, AcceptedBy, OpensWith
  <2>4. CASE e.proto = "PASE"
    <3>1. Passcode[n] = UserCode
      BY <2>1, <2>2, <2>4 DEF MadeFor, AcceptedBy
    <3>. QED
      BY <2>1, <2>3, <3>1 DEF CodeOfTarget
  <2>5. CASE e.proto = "CASE"
    <3>1. PICK b : b = Opening("CASE", e.key)
      OBVIOUS
    <3>2. /\ b.dest = ComputeDestinationID(b.rand, OurFabric, Target)
          /\ b.dest = ComputeDestinationID(b.rand, FabricOf[n], n)
      BY <2>1, <2>2, <2>5, <3>1 DEF MadeFor, AcceptedBy, OpensWith, MeansMe
    <3>3. <<"ipk", OurFabric, b.rand, Target>>[4] = <<"ipk", FabricOf[n], b.rand, n>>[4]
      BY <3>2 DEF ComputeDestinationID
    <3>. QED
      BY <2>1, <2>3, <3>3
  <2>. QED
    BY <2>1, <2>2, <2>4, <2>5 DEF AcceptedBy
<1>2. Init => IndInv /\ SharedInv
  BY CoreInit, SecureInit, SharedInit DEF IndInv
<1>3. (IndInv /\ SharedInv) /\ [Next]_vars => (IndInv /\ SharedInv)'
  BY CoreNext, SecureNext, SharedNext DEF IndInv
<1>. QED
  BY <1>1, <1>2, <1>3, PTL DEF Spec
=============================================================================
