---------------------------- MODULE DaemonProof ----------------------------
(***************************************************************************)
(* Proofs about Daemon, for any number of commands, nodes, fabrics and     *)
(* addresses: who owns a controller at each moment of its life.            *)
(***************************************************************************)
EXTENDS Daemon, TLAPS

(* The labels of a command that has no controller yet, of one whose
   controller is its own, and of one that works with a cached controller. *)
Before  == {"idle", "load", "connect", "delete", "lookup", "getnode", "stop"}
Private == {"dial", "resolve", "redial", "giveup", "seen", "insert"}
Shared  == {"decode", "use", "evict", "close"}

(* Controller k is known to nobody but perhaps its own command. *)
Secret(k) ==
    /\ k \notin failed
    /\ ctrl[k].closes = 0
    /\ \A n \in Nodes : sessions[n] # k
    /\ \A q \in Procs : q # k => c[q] # k

(* A command and the controller it holds. *)
HoldInv ==
    \A p \in Procs :
      /\ pc[p] \in Before => Secret(p) /\ ~ctrl[p].open
      /\ pc[p] \in Private => Secret(p) /\ ctrl[p].open /\ c[p] = p
      /\ pc[p] \in Shared /\ c[p] # None => node[c[p]] = node[p]
      /\ pc[p] \in {"decode", "use", "close"} => c[p] # None
      /\ pc[p] \notin Private \cup Shared => c[p] = None

(* A controller is closed by the one that took it out of the cache. *)
CloseInv ==
    /\ \A k \in Procs : ctrl[k].closes <= 1 /\ (ctrl[k].open => ctrl[k].closes = 0)
    /\ \A p \in Procs :
         pc[p] = "close" =>
           /\ ctrl[c[p]].open
           /\ \A q \in Procs \ {p} : pc[q] = "close" => c[q] # c[p]

(* What is cached is open, for the node it is cached for, not reported as
   failed, and nobody is about to close it. *)
CacheInv ==
    \A n \in Nodes :
      sessions[n] # None =>
        /\ ctrl[sessions[n]].open
        /\ node[sessions[n]] = n
        /\ sessions[n] \notin reported
        /\ \A q \in Procs : pc[q] = "close" => c[q] # sessions[n]

IndInv == TypeOK /\ HoldInv /\ CloseInv /\ CacheInv

-----------------------------------------------------------------------------
USE DaemonAssumption

(* Closing a controller. *)
LEMMA ShutType ==
    ASSUME NEW r \in CtrlRecs
    PROVE  /\ Shut(r) \in CtrlRecs
           /\ ~Shut(r).open
           /\ Shut(r).closes = r.closes + 1
<1>1. r.closes + 1 \in Nat
  BY DEF CtrlRecs
<1>. QED
  BY <1>1 DEF Shut, CtrlRecs

(* Type correctness is kept by every step of a command. *)
LEMMA TypeStep == IndInv /\ [Next]_vars => TypeOK'
<1>. SUFFICES ASSUME IndInv, [Next]_vars PROVE TypeOK'
  OBVIOUS
<1>. TypeOK /\ HoldInv
  BY DEF IndInv
<1>. USE DEF TypeOK
<1>0. \A p \in Procs : Key(p) \in Fabrics \X Nodes
  BY DEF Key
<1>r. \A p \in Procs : rec[p] \in Recs /\ snap[p] \in Recs /\ ctrl[p] \in CtrlRecs
  OBVIOUS
<1>g. ASSUME NEW p \in Procs, NEW l \in Labels, Go(p, l) PROVE pc' \in [Procs -> Labels]
  BY <1>g DEF Go
<1>a. ASSUME NEW p \in Procs PROVE AfterOp(p) \in Labels
  BY DEF AfterOp, Labels
<1>1. ASSUME NEW p \in Procs, Start(p) PROVE TypeOK'
  <2>1. PICK x \in Commands, n \in Nodes, f \in Fabrics :
          /\ cmd' = [cmd EXCEPT ![p] = x]
          /\ node' = [node EXCEPT ![p] = n]
          /\ fab' = [fab EXCEPT ![p] = f]
    BY <1>1 DEF Start
  <2>3. /\ cmd' \in [Procs -> {"op", "rename", "remove", "stop"}]
        /\ node' \in [Procs -> Nodes]
        /\ fab' \in [Procs -> Fabrics]
    BY <2>1
  <2>2. pc' \in [Procs -> Labels]
    BY <1>1 DEF Start, Go, Labels
  <2>. QED
    BY <1>1, <2>2, <2>3 DEF Start, histVars
<1>2. ASSUME NEW p \in Procs, Load(p) \/ Connect(p) \/ Stop(p) PROVE TypeOK'
  <2>1. pc' \in [Procs -> Labels]
    BY <1>2 DEF Load, Connect, Stop, Go, Labels
  <2>2. snap' \in [Procs -> Recs]
    BY <1>0, <1>2 DEF Load, Connect, Stop
  <2>3. daemon' \in {"running", "stopping", "closed", "exited"}
    BY <1>2 DEF Load, Connect, Stop
  <2>. QED
    BY <1>2, <2>1, <2>2, <2>3 DEF Load, Connect, Stop, procVars, histVars
<1>3. ASSUME NEW p \in Procs, SaveNode(p) PROVE TypeOK'
  <2>1. pc' \in [Procs -> Labels]
    BY <1>3 DEF SaveNode, Go, Labels
  <2>2. [snap[p] EXCEPT !.name = "new"] \in Recs
    BY SMTT(30), <1>r DEF Recs, Names
  <2>3. store' \in [Fabrics \X Nodes -> Recs \cup {Absent}]
    BY <1>0, <1>3, <2>2 DEF SaveNode
  <2>. QED
    BY <1>0, <1>3, <2>1, <2>3 DEF SaveNode, procVars
<1>4. ASSUME NEW p \in Procs, DeleteNode(p) PROVE TypeOK'
  <2>1. pc' \in [Procs -> Labels]
    BY <1>4 DEF DeleteNode, Go, Labels
  <2>. QED
    BY <1>0, <1>4, <2>1 DEF DeleteNode, procVars
<1>5. ASSUME NEW p \in Procs, Lookup(p) \/ Decode(p) \/ Disconnected(p) \/ Insert(p)
      PROVE  TypeOK'
  <2>1. pc' \in [Procs -> Labels]
    <3>1. {"decode", "getnode", "use", "done"} \subseteq Labels
      BY DEF Labels
    <3>2. \E l \in Labels : Go(p, l)
      BY <1>a, <1>5, <3>1 DEF Lookup, Decode, Disconnected, Insert
    <3>. QED
      BY <1>g, <3>2
  <2>. QED
    BY <1>5, <2>1 DEF Lookup, Decode, Disconnected, Insert, procVars, histVars
<1>6. ASSUME NEW p \in Procs, GetNode(p) PROVE TypeOK'
  <2>1. pc' \in [Procs -> Labels]
    BY <1>6 DEF GetNode, Go, Labels
  <2>2. CASE store[Key(p)] = Absent
    BY <1>6, <2>1, <2>2 DEF GetNode, procVars, histVars
  <2>3. CASE store[Key(p)] # Absent
    <3>1. store[Key(p)] \in Recs
      BY <1>0, <2>3
    <3>. DEFINE new == [open |-> TRUE, closes |-> 0, fab |-> fab[p],
                        addr |-> store[Key(p)].addr]
    <3>2. new \in CtrlRecs
      BY <3>1 DEF Recs, CtrlRecs
    <3>6. ctrl' = [ctrl EXCEPT ![p] = new]
      BY <1>6, <2>3 DEF GetNode
    <3>. HIDE DEF new
    <3>3. ctrl' \in [Procs -> CtrlRecs]
      BY <3>2, <3>6
    <3>4. c' \in [Procs -> Procs \cup {None}]
      BY <1>6, <2>3 DEF GetNode
    <3>5. rec' \in [Procs -> Recs]
      BY <1>6, <2>3, <3>1, Zenon DEF GetNode
    <3>. QED
      BY <1>6, <2>1, <3>3, <3>4, <3>5 DEF GetNode, procVars, histVars
  <2>. QED
    BY <2>2, <2>3
<1>7. ASSUME NEW p \in Procs, Dial(p) \/ Redial(p) PROVE TypeOK'
  <2>1. pc' \in [Procs -> Labels]
    BY <1>7 DEF Dial, Redial, Go, Labels
  <2>. QED
    BY <1>7, <2>1 DEF Dial, Redial, procVars, histVars
<1>8. ASSUME NEW p \in Procs, Resolve(p) PROVE TypeOK'
  <2>1. pc' \in [Procs -> Labels]
    BY <1>8 DEF Resolve, Go, Labels
  <2>2. c[p] = p
    BY <1>8 DEF Resolve, At, HoldInv, Private
  <2>3. /\ [rec[p] EXCEPT !.addr = where[node[p]]] \in Recs
        /\ [ctrl[p] EXCEPT !.addr = where[node[p]]]
             \in CtrlRecs
    BY ZenonT(30), <1>r DEF Recs, CtrlRecs
  <2>4. rec' \in [Procs -> Recs]
    <3>1. CASE UNCHANGED rec
      BY <3>1
    <3>2. CASE rec' = [rec EXCEPT ![p].addr = where[node[p]]]
      BY <2>3, <3>2
    <3>. QED
      BY <1>8, <3>1, <3>2 DEF Resolve
  <2>5. /\ store' \in [Fabrics \X Nodes -> Recs \cup {Absent}]
        /\ found' \in [Fabrics \X Nodes -> Addrs]
    <3>1. CASE UNCHANGED <<store, found>>
      BY <3>1
    <3>2. CASE /\ store' = [store EXCEPT ![Key(p)] = rec'[p]]
               /\ found' = [found EXCEPT ![Key(p)] = where[node[p]]]
      BY <1>0, <2>4, <3>2
    <3>. QED
      BY <1>8, <3>1, <3>2 DEF Resolve
  <2>6. ctrl' \in [Procs -> CtrlRecs]
    <3>1. CASE UNCHANGED ctrl
      BY <3>1
    <3>2. CASE ctrl' = [ctrl EXCEPT ![c[p]].addr = where[node[p]]]
      BY <2>2, <2>3, <3>2
    <3>. QED
      BY <1>8, <3>1, <3>2 DEF Resolve
  <2>. QED
    BY <1>8, <2>1, <2>4, <2>5, <2>6 DEF Resolve, procVars
<1>9. ASSUME NEW p \in Procs, GiveUp(p) \/ EvictClose(p) PROVE TypeOK'
  <2>1. pc' \in [Procs -> Labels]
    BY <1>a, <1>9 DEF GiveUp, EvictClose, Go, Labels
  <2>2. c[p] \in Procs
    BY <1>9 DEF GiveUp, EvictClose, At, HoldInv, Private
  <2>3. Shut(ctrl[c[p]]) \in CtrlRecs
    BY <1>r, <2>2, ShutType
  <2>4. Closed(c[p]) \in [Procs -> CtrlRecs]
    BY <2>2, <2>3 DEF Closed
  <2>. QED
    BY <1>9, <2>1, <2>4 DEF GiveUp, EvictClose, procVars, histVars
<1>10. ASSUME NEW p \in Procs, SaveSeen(p) PROVE TypeOK'
  <2>1. pc' \in [Procs -> Labels]
    BY <1>10 DEF SaveSeen, Go, Labels
  <2>2. rec[p] \in Recs /\ rec[p].addr \in Addrs
    BY DEF Recs
  <2>. QED
    BY <1>0, <1>10, <2>1, <2>2 DEF SaveSeen, procVars
<1>11. ASSUME NEW p \in Procs, Use(p) PROVE TypeOK'
  <2>1. pc' \in [Procs -> Labels]
    BY <1>a, <1>11 DEF Use, UseSucceeds, Go, Labels
  <2>2. c[p] \in Procs
    BY <1>11 DEF Use, At, HoldInv
  <2>3. failed' \subseteq Procs /\ reported' \subseteq failed' /\ c' \in [Procs -> Procs \cup {None}]
    BY <1>11, <2>2 DEF Use, UseSucceeds
  <2>. QED
    BY <1>11, <2>1, <2>3 DEF Use, procVars
<1>12. ASSUME NEW p \in Procs, EvictSession(p) PROVE TypeOK'
  <2>1. pc' \in [Procs -> Labels]
    BY <1>a, <1>12 DEF EvictSession, Go, Labels
  <2>. QED
    BY <1>12, <2>1 DEF EvictSession, procVars
<1>13. ASSUME Shutdown PROVE TypeOK'
  <2>1. ctrl' \in [Procs -> CtrlRecs]
    <3>1. \A k \in Procs : Shut(ctrl[k]) \in CtrlRecs
      BY <1>r, ShutType
    <3>. QED
      BY <1>13, <3>1 DEF Shutdown
  <2>. QED
    BY <1>13, <2>1 DEF Shutdown, procVars, histVars
<1>14. ASSUME IdleTimeout \/ Exit \/ UNCHANGED vars PROVE TypeOK'
  BY <1>14 DEF IdleTimeout, Exit, vars, procVars, histVars
<1>15. ASSUME NEW n \in Nodes, Move(n) PROVE TypeOK'
  BY <1>15 DEF Move, procVars, histVars
<1>. QED
  BY <1>1, <1>2, <1>3, <1>4, <1>5, <1>6, <1>7, <1>8, <1>9, <1>10, <1>11, <1>12, <1>13,
     <1>14, <1>15 DEF Next, Step

Owned == HoldInv /\ CloseInv /\ CacheInv

(* Steps that move no controller: the command stays among the labels that
   hold a controller the same way, or holds none. *)
LEMMA Frame ==
    ASSUME IndInv, TypeOK', UNCHANGED <<sessions, c, node, failed, reported>>,
           \A k \in Procs : ctrl'[k].open = ctrl[k].open /\ ctrl'[k].closes = ctrl[k].closes,
           \A q \in Procs :
             \/ pc'[q] = pc[q]
             \/ pc[q] \in Before /\ pc'[q] \in Before
             \/ pc[q] \in Private /\ pc'[q] \in Private
             \/ c[q] = None /\ pc'[q] \in {"save", "done", "evict"}
    PROVE  Owned'
<1>. USE DEF IndInv
<1>1. \A k \in Procs : Secret(k)' <=> Secret(k)
  BY DEF Secret, TypeOK
<1>2. HoldInv'
  BY <1>1 DEF HoldInv, Before, Private, Shared
<1>3. \A q \in Procs : pc'[q] = "close" => pc[q] = "close"
  BY DEF Before, Private
<1>4. \A q \in Procs : pc[q] = "close" => c[q] \in Procs
  BY DEF HoldInv, TypeOK
<1>5. CloseInv'
  BY <1>3, <1>4 DEF CloseInv
<1>6. \A n \in Nodes : sessions[n] # None => sessions[n] \in Procs
  BY DEF TypeOK
<1>7. CacheInv'
  BY <1>3, <1>6 DEF CacheInv
<1>. QED
  BY <1>2, <1>5, <1>7 DEF Owned

(* The steps that create, cache, evict or close a controller, one by one. *)
LEMMA OwnedStep == IndInv /\ [Next]_vars => Owned'
<1>. SUFFICES ASSUME IndInv, [Next]_vars PROVE Owned'
  OBVIOUS
<1>. TypeOK /\ HoldInv /\ CloseInv /\ CacheInv
  BY DEF IndInv
<1>t. TypeOK'
  BY TypeStep
<1>k. \A k \in Procs : ctrl[k] \in CtrlRecs
  BY DEF TypeOK
<1>n. None \notin Procs
  OBVIOUS
<1>s. \A n \in Nodes : sessions[n] \in Procs \cup {None}
  BY DEF TypeOK
<1>c. \A q \in Procs : c[q] \in Procs \cup {None}
  BY DEF TypeOK
<1>g. ASSUME NEW p \in Procs, NEW l, Go(p, l)
      PROVE  pc'[p] = l /\ \A q \in Procs \ {p} : pc'[q] = pc[q]
  BY <1>g DEF Go, TypeOK
<1>1. ASSUME NEW p \in Procs, Start(p) PROVE Owned'
  <2>1. /\ pc[p] = "idle" /\ pc'[p] \in Before
        /\ \A q \in Procs \ {p} : pc'[q] = pc[q] /\ node'[q] = node[q]
        /\ UNCHANGED <<sessions, ctrl, c, failed, reported>>
    BY <1>1 DEF Start, Go, Before, TypeOK, histVars
  <2>2. Secret(p) /\ c[p] = None
    BY <2>1 DEF HoldInv, Before, Private, Shared
  <2>3. \A k \in Procs : Secret(k)' <=> Secret(k)
    BY <2>1 DEF Secret
  <2>4. HoldInv'
    BY <1>c, <2>1, <2>2, <2>3 DEF HoldInv, Before, Private, Shared, Secret
  <2>5. CloseInv'
    BY <2>1 DEF CloseInv, Before
  <2>6. CacheInv'
    BY <1>s, <2>1, <2>2 DEF CacheInv, Before, Secret
  <2>. QED
    BY <2>4, <2>5, <2>6 DEF Owned
<1>2. ASSUME NEW p \in Procs, Lookup(p) PROVE Owned'
  <2>1. /\ pc[p] = "lookup"
        /\ \A q \in Procs \ {p} : pc'[q] = pc[q] /\ c'[q] = c[q]
        /\ UNCHANGED <<sessions, ctrl, node, failed, reported>>
    BY <1>2 DEF Lookup, At, Go, TypeOK, procVars, histVars
  <2>2. Secret(p) /\ c[p] = None /\ ~ctrl[p].open
    BY <2>1 DEF HoldInv, Before, Private, Shared
  <2>3. node[p] \in Nodes
    BY DEF TypeOK
  <2>4. \/ sessions[node[p]] = None /\ c'[p] = None /\ pc'[p] = "getnode"
        \/ sessions[node[p]] # None /\ c'[p] = sessions[node[p]] /\ pc'[p] = "decode"
    BY <1>2, <2>2 DEF Lookup, Go, TypeOK
  <2>5. \A k \in Procs : Secret(k) => Secret(k)'
    BY <1>n, <2>1, <2>3, <2>4 DEF Secret
  <2>6. HoldInv'
    BY <2>1, <2>2, <2>3, <2>4, <2>5 DEF HoldInv, Before, Private, Shared, CacheInv
  <2>7. CloseInv'
    BY <2>1, <2>4 DEF CloseInv
  <2>8. CacheInv'
    BY <2>1, <2>4 DEF CacheInv
  <2>. QED
    BY <2>6, <2>7, <2>8 DEF Owned
<1>3. ASSUME NEW p \in Procs, GetNode(p), store[Key(p)] # Absent PROVE Owned'
  <2>1. /\ pc[p] = "getnode" /\ pc'[p] = "dial" /\ c'[p] = p
        /\ ctrl'[p].open /\ ctrl'[p].closes = 0
        /\ \A q \in Procs \ {p} : pc'[q] = pc[q] /\ c'[q] = c[q] /\ ctrl'[q] = ctrl[q]
        /\ UNCHANGED <<sessions, node, failed, reported>>
    BY <1>3 DEF GetNode, At, Go, TypeOK, procVars, histVars
  <2>2. Secret(p)
    BY <2>1 DEF HoldInv, Before
  <2>3. \A k \in Procs : Secret(k) => Secret(k)'
    BY <2>1 DEF Secret
  <2>4. HoldInv'
    BY <2>1, <2>2, <2>3 DEF HoldInv, Before, Private, Shared
  <2>5. \A q \in Procs : q # p => c[q] # p
    BY <2>2 DEF Secret
  <2>6. CloseInv'
    BY <1>c, <2>1, <2>5 DEF CloseInv, HoldInv
  <2>7. \A n \in Nodes : sessions[n] # p
    BY <2>2 DEF Secret
  <2>8. CacheInv'
    BY <1>s, <2>1, <2>7 DEF CacheInv
  <2>. QED
    BY <2>4, <2>6, <2>8 DEF Owned
<1>4. ASSUME NEW p \in Procs, GiveUp(p) PROVE Owned'
  <2>1. pc[p] = "giveup" /\ c[p] = p /\ Secret(p) /\ ctrl[p].open
    BY <1>4 DEF GiveUp, At, HoldInv, Private
  <2>2. /\ pc'[p] = "evict" /\ c'[p] = None
        /\ ctrl'[p] = Shut(ctrl[p])
        /\ \A q \in Procs \ {p} : pc'[q] = pc[q] /\ c'[q] = c[q] /\ ctrl'[q] = ctrl[q]
        /\ UNCHANGED <<sessions, node, failed, reported>>
    BY <1>4, <2>1 DEF GiveUp, Go, Closed, TypeOK, procVars, histVars
  <2>3. ~ctrl'[p].open /\ ctrl'[p].closes = 1
    BY <1>k, <2>1, <2>2, ShutType DEF Secret
  <2>4. \A k \in Procs \ {p} : Secret(k) => Secret(k)'
    BY <1>n, <2>2 DEF Secret
  <2>5. HoldInv'
    BY <2>2, <2>4 DEF HoldInv, Before, Private, Shared
  <2>6. \A q \in Procs : q # p => c[q] # p
    BY <2>1 DEF Secret
  <2>7. CloseInv'
    BY <1>c, <2>2, <2>3, <2>6 DEF CloseInv, HoldInv
  <2>8. \A n \in Nodes : sessions[n] # p
    BY <2>1 DEF Secret
  <2>9. CacheInv'
    BY <1>s, <2>2, <2>8 DEF CacheInv
  <2>. QED
    BY <2>5, <2>7, <2>9 DEF Owned
<1>5. ASSUME NEW p \in Procs, Insert(p) PROVE Owned'
  <2>1. pc[p] = "insert" /\ c[p] = p /\ Secret(p) /\ ctrl[p].open /\ node[p] \in Nodes
    BY <1>5 DEF Insert, At, HoldInv, Private, TypeOK
  <2>2. /\ pc'[p] = "decode" /\ sessions'[node[p]] = p
        /\ \A n \in Nodes \ {node[p]} : sessions'[n] = sessions[n]
        /\ \A q \in Procs \ {p} : pc'[q] = pc[q]
        /\ UNCHANGED <<c, ctrl, node, failed, reported>>
    BY <1>5, <2>1 DEF Insert, Go, TypeOK, procVars, histVars
  <2>3. \A k \in Procs \ {p} : Secret(k) => Secret(k)'
    BY <2>1, <2>2 DEF Secret
  <2>4. HoldInv'
    BY <2>1, <2>2, <2>3 DEF HoldInv, Before, Private, Shared
  <2>5. CloseInv'
    BY <2>2 DEF CloseInv
  <2>6. p \notin reported
    BY <2>1 DEF Secret, TypeOK
  <2>7. CacheInv'
    BY <2>1, <2>2, <2>6 DEF CacheInv, Secret
  <2>. QED
    BY <2>4, <2>5, <2>7 DEF Owned
<1>6. ASSUME NEW p \in Procs, Decode(p) \/ Disconnected(p) PROVE Owned'
  <2>1. /\ pc[p] = "decode" \/ pc'[p] \in {"save", "done"}
        /\ \/ pc'[p] = "use" /\ c'[p] = c[p]
           \/ pc'[p] \in {"save", "done"} /\ c'[p] = None
        /\ \A q \in Procs \ {p} : pc'[q] = pc[q] /\ c'[q] = c[q]
        /\ UNCHANGED <<sessions, ctrl, node, failed, reported>>
    <3>1. pc' \in [Procs -> Labels] /\ pc \in [Procs -> Labels] /\ c \in [Procs -> Procs \cup {None}]
      BY <1>t DEF TypeOK
    <3>2. AfterOp(p) \in {"save", "done"}
      BY DEF AfterOp
    <3>3. CASE Decode(p)
      <4>1. /\ pc[p] = "decode"
            /\ \/ Go(p, "use") /\ c' = c
               \/ Go(p, AfterOp(p)) /\ c' = [c EXCEPT ![p] = None]
        BY <3>3 DEF Decode, At
      <4>2. CASE Go(p, "use") /\ c' = c
        BY <1>g, <3>3, <4>1, <4>2 DEF Decode, procVars, histVars
      <4>3. CASE Go(p, AfterOp(p)) /\ c' = [c EXCEPT ![p] = None]
        BY <1>g, <3>1, <3>2, <3>3, <4>3 DEF Decode, procVars, histVars
      <4>. QED
        BY <4>1, <4>2, <4>3
    <3>4. CASE Disconnected(p)
      BY <3>1, <3>2, <3>4 DEF Disconnected, Go, procVars, histVars
    <3>. QED
      BY <1>6, <3>3, <3>4
  <2>2. \A k \in Procs : Secret(k) => Secret(k)'
    BY <1>n, <2>1 DEF Secret
  <2>3. HoldInv'
    BY <2>1, <2>2 DEF HoldInv, Before, Private, Shared
  <2>4. CloseInv'
    BY <2>1 DEF CloseInv
  <2>5. CacheInv'
    BY <2>1 DEF CacheInv
  <2>. QED
    BY <2>3, <2>4, <2>5 DEF Owned
<1>7. ASSUME NEW p \in Procs, Use(p) PROVE Owned'
  <2>1. /\ pc[p] = "use"
        /\ \/ pc'[p] \in {"save", "done"} /\ c'[p] = None /\ failed' = failed
           \/ pc'[p] = "evict" /\ c'[p] = c[p] /\ failed' = failed \cup {c[p]}
        /\ \A q \in Procs \ {p} : pc'[q] = pc[q] /\ c'[q] = c[q]
        /\ UNCHANGED <<sessions, ctrl, node, reported>>
    BY <1>7 DEF Use, UseSucceeds, At, Go, AfterOp, TypeOK, procVars
  <2>2. \A k \in Procs \ {p} : Secret(k) => Secret(k)'
    BY <1>n, <2>1 DEF Secret
  <2>3. HoldInv'
    BY <2>1, <2>2 DEF HoldInv, Before, Private, Shared
  <2>4. CloseInv'
    BY <2>1 DEF CloseInv
  <2>5. CacheInv'
    BY <2>1 DEF CacheInv
  <2>. QED
    BY <2>3, <2>4, <2>5 DEF Owned
<1>8. ASSUME NEW p \in Procs, EvictSession(p) PROVE Owned'
  <2>1. pc[p] = "evict" /\ node[p] \in Nodes
    BY <1>8 DEF EvictSession, At, TypeOK
  <2>2. /\ c'[p] = sessions[node[p]] /\ sessions'[node[p]] = None
        /\ \/ sessions[node[p]] = None /\ pc'[p] \in {"save", "done"}
           \/ sessions[node[p]] # None /\ pc'[p] = "close"
        /\ \A n \in Nodes \ {node[p]} : sessions'[n] = sessions[n]
        /\ \A q \in Procs \ {p} : pc'[q] = pc[q] /\ c'[q] = c[q]
        /\ reported' \subseteq reported \cup {c[p]}
        /\ UNCHANGED <<ctrl, node, failed>>
    BY <1>8, <2>1 DEF EvictSession, Go, AfterOp, TypeOK, procVars
  <2>3. \A k \in Procs \ {p} : Secret(k) => Secret(k)'
    BY <1>n, <2>1, <2>2 DEF Secret
  <2>4. HoldInv'
    BY <2>1, <2>2, <2>3 DEF HoldInv, Before, Private, Shared, CacheInv
  <2>5. CloseInv'
    BY <2>1, <2>2 DEF CloseInv, CacheInv
  <2>6. CacheInv'
    <3>. SUFFICES ASSUME NEW n \in Nodes, sessions'[n] # None
                  PROVE  /\ ctrl'[sessions'[n]].open
                         /\ node'[sessions'[n]] = n
                         /\ sessions'[n] \notin reported'
                         /\ \A q \in Procs : pc'[q] = "close" => c'[q] # sessions'[n]
      BY DEF CacheInv
    <3>1. n # node[p] /\ sessions'[n] = sessions[n] /\ node[sessions[n]] = n
      BY <2>2 DEF CacheInv
    <3>2. c[p] # sessions[n]
      BY <2>1, <3>1 DEF HoldInv, Shared
    <3>3. c'[p] # sessions[n]
      BY <2>1, <2>2, <3>1 DEF CacheInv
    <3>. QED
      BY <2>2, <3>1, <3>2, <3>3 DEF CacheInv
  <2>. QED
    BY <2>4, <2>5, <2>6 DEF Owned
<1>9. ASSUME NEW p \in Procs, EvictClose(p) PROVE Owned'
  <2>. DEFINE k == c[p]
  <2>1. /\ pc[p] = "close" /\ k \in Procs /\ ctrl[k].open /\ ctrl[k].closes = 0
    BY <1>9, <1>c DEF EvictClose, At, HoldInv, CloseInv
  <2>2. /\ pc'[p] \in {"save", "done"} /\ c'[p] = None
        /\ ctrl'[k] = Shut(ctrl[k])
        /\ \A j \in Procs \ {k} : ctrl'[j] = ctrl[j]
        /\ \A q \in Procs \ {p} : pc'[q] = pc[q] /\ c'[q] = c[q]
        /\ UNCHANGED <<sessions, node, failed, reported>>
    BY <1>9, <2>1 DEF EvictClose, Go, AfterOp, Closed, TypeOK, procVars, histVars
  <2>3. ~ctrl'[k].open /\ ctrl'[k].closes = 1
    BY <1>k, <2>1, <2>2, ShutType
  <2>4. \A j \in Procs \ {p} : Secret(j) => j # k /\ Secret(j)'
    BY <1>n, <2>1, <2>2 DEF Secret
  <2>5. HoldInv'
    BY <2>1, <2>2, <2>4 DEF HoldInv, Before, Private, Shared
  <2>6. CloseInv'
    BY <1>c, <2>1, <2>2, <2>3 DEF CloseInv, HoldInv
  <2>7. \A n \in Nodes : sessions[n] # k
    BY <1>n, <2>1 DEF CacheInv
  <2>8. CacheInv'
    BY <1>s, <2>2, <2>7 DEF CacheInv
  <2>. QED
    BY <2>5, <2>6, <2>8 DEF Owned
<1>10. ASSUME Shutdown PROVE Owned'
  <2>1. /\ \A n \in Nodes : sessions'[n] = None
        /\ \A k \in Procs : ctrl'[k] = IF \E n \in Nodes : sessions[n] = k
                                      THEN Shut(ctrl[k]) ELSE ctrl[k]
        /\ UNCHANGED <<pc, c, node, failed, reported>>
    BY <1>10 DEF Shutdown, TypeOK, procVars, histVars
  <2>2. \A k \in Procs : Secret(k) => Secret(k)' /\ ctrl'[k] = ctrl[k]
    BY <1>n, <2>1 DEF Secret
  <2>3. HoldInv'
    BY <2>1, <2>2 DEF HoldInv, Before, Private, Shared
  <2>4. \A k \in Procs : ctrl'[k].closes <= 1 /\ (ctrl'[k].open => ctrl'[k].closes = 0)
    <3>. TAKE k \in Procs
    <3>1. CASE \E n \in Nodes : sessions[n] = k
      <4>1. ctrl[k].closes = 0
        BY <1>n, <3>1 DEF CacheInv, CloseInv
      <4>2. ~ctrl'[k].open /\ ctrl'[k].closes = 1
        BY <1>k, <2>1, <3>1, <4>1, ShutType
      <4>. QED
        BY <4>2
    <3>2. CASE ~\E n \in Nodes : sessions[n] = k
      BY <2>1, <3>2 DEF CloseInv
    <3>. QED
      BY <3>1, <3>2
  <2>5. \A q \in Procs : pc[q] = "close" => c[q] \in Procs /\ ctrl'[c[q]] = ctrl[c[q]]
    BY <1>c, <1>n, <2>1 DEF HoldInv, CacheInv
  <2>6. CloseInv'
    BY <2>1, <2>4, <2>5 DEF CloseInv
  <2>7. CacheInv'
    BY <2>1 DEF CacheInv
  <2>. QED
    BY <2>3, <2>6, <2>7 DEF Owned
<1>11. ASSUME NEW p \in Procs,
              \/ Load(p) \/ Connect(p) \/ SaveNode(p) \/ DeleteNode(p) \/ Stop(p)
              \/ GetNode(p) /\ store[Key(p)] = Absent
              \/ Dial(p) \/ Redial(p) \/ SaveSeen(p)
       PROVE  Owned'
  <2>1. /\ UNCHANGED <<sessions, c, node, failed, reported, ctrl>>
        /\ \A q \in Procs \ {p} : pc'[q] = pc[q]
    BY <1>11 DEF Load, Connect, SaveNode, DeleteNode, Stop, GetNode, Dial, Redial, SaveSeen,
                 Go, TypeOK, procVars, histVars
  <2>2. \/ pc[p] \in Before /\ pc'[p] \in Before
        \/ pc[p] \in Private /\ pc'[p] \in Private
        \/ pc[p] \in Before \cup {"save"} /\ pc'[p] \in {"save", "done", "evict"}
    BY <1>11 DEF Load, Connect, SaveNode, DeleteNode, Stop, GetNode, Dial, Redial, SaveSeen,
                 At, Go, TypeOK, Before, Private
  <2>3. pc[p] \in Before \cup {"save"} => c[p] = None
    BY DEF HoldInv, Before, Private, Shared
  <2>. QED
    BY <1>t, <2>1, <2>2, <2>3, Frame
<1>12. ASSUME NEW p \in Procs, Resolve(p) PROVE Owned'
  <2>1. pc[p] = "resolve" /\ c[p] = p
    BY <1>12 DEF Resolve, At, HoldInv, Private
  <2>2. /\ UNCHANGED <<sessions, c, node, failed, reported>>
        /\ pc'[p] \in Private
        /\ \A q \in Procs \ {p} : pc'[q] = pc[q]
    BY <1>12 DEF Resolve, Go, TypeOK, Private, procVars
  <2>3. ctrl' = ctrl \/ ctrl' = [ctrl EXCEPT ![p].addr = where[node[p]]]
    BY <1>12, <2>1 DEF Resolve
  <2>4. \A k \in Procs : ctrl'[k].open = ctrl[k].open /\ ctrl'[k].closes = ctrl[k].closes
    BY SMTT(30), <1>k, <2>3 DEF TypeOK, CtrlRecs
  <2>. QED
    BY <1>t, <2>1, <2>2, <2>4, Frame DEF Private
<1>13. ASSUME IdleTimeout \/ Exit \/ UNCHANGED vars \/ \E n \in Nodes : Move(n) PROVE Owned'
  <2>1. UNCHANGED <<sessions, c, node, failed, reported, ctrl, pc>>
    BY <1>13 DEF IdleTimeout, Exit, Move, vars, procVars, histVars
  <2>. QED
    BY <1>t, <2>1, Frame
<1>. QED
  BY <1>1, <1>2, <1>3, <1>4, <1>5, <1>6, <1>7, <1>8, <1>9, <1>10, <1>11, <1>12, <1>13
     DEF Next, Step

(* The inductive invariant holds in every reachable state. *)
LEMMA Inductive == Spec => []IndInv
<1>1. Init => IndInv
  <2>. SUFFICES ASSUME Init PROVE IndInv
    OBVIOUS
  <2>. USE DEF Init
  <2>1. /\ FirstAddr \in Addrs
        /\ (CHOOSE f \in Fabrics : TRUE) \in Fabrics
        /\ (CHOOSE n \in Nodes : TRUE) \in Nodes
    BY DEF FirstAddr
  <2>2. FirstRec \in Recs
    BY <2>1 DEF FirstRec, Recs, Names
  <2>3. TypeOK
    <3>1. ctrl \in [Procs -> CtrlRecs]
      BY <2>1 DEF CtrlRecs
    <3>2. pc \in [Procs -> Labels]
      BY DEF Labels
    <3>3. /\ node \in [Procs -> Nodes] /\ fab \in [Procs -> Fabrics]
      BY <2>1
    <3>4. /\ store \in [Fabrics \X Nodes -> Recs \cup {Absent}]
          /\ rec \in [Procs -> Recs] /\ snap \in [Procs -> Recs]
      BY <2>2
    <3>5. where \in [Nodes -> Addrs] /\ found \in [Fabrics \X Nodes -> Addrs]
      BY <2>1
    <3>. QED
      BY <3>1, <3>2, <3>3, <3>4, <3>5 DEF TypeOK
  <2>4. \A k \in Procs : Secret(k) /\ ~ctrl[k].open /\ c[k] = None /\ pc[k] = "idle"
    BY DEF Secret
  <2>5. HoldInv
    BY <2>4 DEF HoldInv, Before, Private, Shared
  <2>6. CloseInv
    BY <2>4 DEF CloseInv, Secret
  <2>7. CacheInv
    BY DEF CacheInv
  <2>. QED
    BY <2>3, <2>5, <2>6, <2>7 DEF IndInv
<1>2. IndInv /\ [Next]_vars => IndInv'
  BY TypeStep, OwnedStep DEF IndInv, Owned
<1>. QED
  BY <1>1, <1>2, PTL DEF Spec

(* No handler is handed a controller that is closed already, for any number
   of concurrent commands, evictions and a shutdown (evictSession,
   shutdown, getOrCreateSession). *)
THEOREM CacheIsOpen == Spec => []CachedIsOpen
<1>1. IndInv => CachedIsOpen
  BY DEF IndInv, CacheInv, CachedIsOpen
<1>. QED
  BY <1>1, Inductive, PTL

(* No controller is closed twice (evictSession, shutdown, the error path of
   getOrCreateSession). *)
THEOREM ClosesOnce == Spec => []ClosedOnce
<1>1. IndInv => ClosedOnce
  BY DEF IndInv, CloseInv, ClosedOnce
<1>. QED
  BY <1>1, Inductive, PTL

(* A controller whose operation failed and was evicted for it never comes
   back into the cache (handleInvoke, handleRead, handleWrite). *)
THEOREM FailedIsGone == Spec => []FailedNotReused
<1>1. IndInv => FailedNotReused
  <2>. SUFFICES ASSUME IndInv, NEW n \in Nodes PROVE sessions[n] \notin reported
    BY DEF FailedNotReused
  <2>1. None \notin reported
    BY DEF IndInv, TypeOK
  <2>. QED
    BY <2>1 DEF IndInv, CacheInv
<1>. QED
  BY <1>1, Inductive, PTL
=============================================================================
