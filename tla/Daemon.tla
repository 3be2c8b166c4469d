------------------------------- MODULE Daemon -------------------------------
(***************************************************************************)
(* The session daemon (internal/daemon/server.go): its cache of CASE       *)
(* sessions, the node records it keeps for the CLI, and the request        *)
(* handlers that share both.                                               *)
(*                                                                         *)
(* A process stands for one CLI command together with the handleConn       *)
(* goroutine that serves its current request: the commands are device      *)
(* operations (invoke, read, write), `rename`, the removal of a node, and  *)
(* `session stop`. A handler holds Server.mu only inside one step; each    *)
(* bolt transaction is one step; between them anything can happen.         *)
(*                                                                         *)
(* A controller (controller.go) owns one socket, one message pump and the  *)
(* session to one node; a command makes the daemon create at most one, so  *)
(* it is named after the command. A node record is its last address and    *)
(* its name.                                                               *)
(***************************************************************************)
EXTENDS Integers, FiniteSets

CONSTANTS
    Procs,      \* CLI commands, each run once
    Nodes,      \* node IDs
    Fabrics,    \* fabric IDs
    Addrs,      \* network addresses
    Commands,   \* which of "op", "rename", "remove", "stop" the CLI runs
    MaxMoves,   \* bound: times a device changes its address
    Flaky,      \* whether CASE or an operation may fail at a reachable device
    Absent,     \* no record of this node in the store
    None        \* no controller

Names == {"old", "new"}
Recs  == [addr : Addrs, name : Names]

CtrlRecs == [open : BOOLEAN, closes : Nat, fab : Fabrics, addr : Addrs]

ASSUME DaemonAssumption ==
    /\ Commands \subseteq {"op", "rename", "remove", "stop"}
    /\ MaxMoves \in Nat
    /\ Flaky \in BOOLEAN
    /\ Absent \notin Recs
    /\ None \notin Procs
    /\ Nodes # {} /\ Fabrics # {} /\ Addrs # {}

VARIABLES
    daemon,     \* "running", "stopping" (context cancelled), "closed", "exited"
    store,      \* the bolt store: a record or Absent for each fabric and node
    sessions,   \* Server.sessions: the controller cached for a node ID, or None
    ctrl,       \* the controller created for each command
    pc, cmd, node, fab,
    c,          \* the controller the handler works with
    rec,        \* its copy of the node record
    snap,       \* the copy the CLI command loaded
    where,      \* where each device really is (external)
    nMoves,
    \* history
    failed,     \* controllers on which an operation has failed
    reported,   \* ... and for which that handler has evicted
    deleted,    \* records removed by delete-node and not saved again by the CLI
    renamed,    \* records whose new name was saved by save-node
    found       \* the latest address found by CASE or rediscovery

procVars == <<cmd, node, fab>>
histVars == <<failed, reported, deleted, renamed, found>>
vars == <<daemon, store, sessions, ctrl, pc, procVars, c, rec, snap, where,
          nMoves, histVars>>

Key(p) == <<fab[p], node[p]>>

-----------------------------------------------------------------------------
Go(p, l) == pc' = [pc EXCEPT ![p] = l]

(* The step the handler of p takes next belongs to a live daemon process. *)
At(p, l) == pc[p] = l /\ daemon # "exited"

(* Controller.Close stops the pump and closes the socket. *)
Shut(r) == [open |-> FALSE, closes |-> r.closes + 1, fab |-> r.fab, addr |-> r.addr]

Closed(k) == [ctrl EXCEPT ![k] = Shut(ctrl[k])]

(* The CLI connects while the daemon accepts and sends its first request. *)
Start(p) ==
    /\ pc[p] = "idle"
    /\ daemon = "running"
    /\ \E x \in Commands, n \in Nodes, f \in Fabrics :
         /\ cmd' = [cmd EXCEPT ![p] = x]
         /\ node' = [node EXCEPT ![p] = n]
         /\ fab' = [fab EXCEPT ![p] = f]
         /\ Go(p, CASE x = "op" -> "lookup" [] x = "rename" -> "load"
                    [] x = "remove" -> "delete" [] x = "stop" -> "stop")
    /\ UNCHANGED <<daemon, store, sessions, ctrl, c, rec, snap, where, nMoves, histVars>>

(* The answer to a device operation; `rename` goes on to save the record
   whether the write of NodeLabel succeeded or not. *)
AfterOp(p) == IF cmd[p] = "rename" THEN "save" ELSE "done"

-----------------------------------------------------------------------------
(* list-nodes, save-node and delete-node *)

(* rename loads the record, and with --local skips the device. *)
Load(p) ==
    /\ At(p, "load")
    /\ IF store[Key(p)] = Absent
       THEN /\ Go(p, "done")
            /\ UNCHANGED snap
       ELSE /\ snap' = [snap EXCEPT ![p] = store[Key(p)]]
            /\ Go(p, "connect") \/ Go(p, "save")
    /\ UNCHANGED <<daemon, store, sessions, ctrl, procVars, c, rec, where, nMoves,
                   histVars>>

(* The next request of the same command. With the daemon on its way out the
   CLI turns to the device itself, which is not modelled here. *)
Connect(p) ==
    /\ pc[p] = "connect"
    /\ Go(p, IF daemon = "running" THEN "lookup" ELSE "save")
    /\ UNCHANGED <<daemon, store, sessions, ctrl, procVars, c, rec, snap, where, nMoves,
                   histVars>>

(* persistNode: through the daemon, or straight into the store once the
   daemon that locks it has exited. The request fails when the daemon goes
   away between the ping of IsRunning and the request. *)
SaveNode(p) ==
    /\ pc[p] = "save"
    /\ \/ /\ daemon # "closed"
          /\ store' = [store EXCEPT ![Key(p)] = [snap[p] EXCEPT !.name = "new"]]
          /\ deleted' = deleted \ {Key(p)}
          /\ renamed' = renamed \cup {Key(p)}
       \/ /\ daemon # "running"
          /\ UNCHANGED <<store, deleted, renamed>>
    /\ Go(p, "done")
    /\ UNCHANGED <<daemon, sessions, ctrl, procVars, c, rec, snap, where, nMoves,
                   failed, reported, found>>

DeleteNode(p) ==
    /\ At(p, "delete")
    /\ IF store[Key(p)] = Absent
       THEN /\ Go(p, "done")
            /\ UNCHANGED <<store, deleted, renamed>>
       ELSE /\ store' = [store EXCEPT ![Key(p)] = Absent]
            /\ deleted' = deleted \cup {Key(p)}
            /\ renamed' = renamed \ {Key(p)}
            /\ Go(p, "evict")
    /\ UNCHANGED <<daemon, sessions, ctrl, procVars, c, rec, snap, where, nMoves,
                   failed, reported, found>>

-----------------------------------------------------------------------------
(* getOrCreateSession *)

Lookup(p) ==
    /\ At(p, "lookup")
    /\ IF sessions[node[p]] # None
       THEN /\ c' = [c EXCEPT ![p] = sessions[node[p]]]
            /\ Go(p, "decode")
       ELSE /\ Go(p, "getnode")
            /\ UNCHANGED c
    /\ UNCHANGED <<daemon, store, sessions, ctrl, procVars, rec, snap, where, nMoves,
                   histVars>>

(* GetNode, then controller.New; the error returns lead to the eviction. *)
GetNode(p) ==
    /\ At(p, "getnode")
    /\ IF store[Key(p)] = Absent
       THEN /\ Go(p, "evict")
            /\ UNCHANGED <<rec, ctrl, c>>
       ELSE /\ rec' = [rec EXCEPT ![p] = store[Key(p)]]
            /\ ctrl' = [ctrl EXCEPT ![p] = [open |-> TRUE, closes |-> 0, fab |-> fab[p],
                                            addr |-> store[Key(p)].addr]]
            /\ c' = [c EXCEPT ![p] = p]
            /\ Go(p, "dial")
    /\ UNCHANGED <<daemon, store, sessions, procVars, snap, where, nMoves, histVars>>

(* CASE at addr ends well only with the device there and the context live. *)
Reaches(p, addr) == daemon = "running" /\ where[node[p]] = addr

MayFail(p, addr) == Flaky \/ ~Reaches(p, addr)

(* The first attempt of connectWithRediscovery, at the stored address. *)
Dial(p) ==
    /\ At(p, "dial")
    /\ \/ /\ Reaches(p, rec[p].addr)
          /\ Go(p, "seen")
       \/ /\ MayFail(p, rec[p].addr)
          /\ Go(p, IF daemon = "running" THEN "resolve" ELSE "giveup")
    /\ UNCHANGED <<daemon, store, sessions, ctrl, procVars, c, rec, snap, where,
                   nMoves, histVars>>

(* Operational discovery, and the callback that persists the address. *)
Resolve(p) ==
    /\ At(p, "resolve")
    /\ \/ /\ daemon = "running"
          /\ rec' = [rec EXCEPT ![p].addr = where[node[p]]]
          /\ store' = [store EXCEPT ![Key(p)] = rec'[p]]
          /\ ctrl' = [ctrl EXCEPT ![c[p]].addr = where[node[p]]]
          /\ found' = [found EXCEPT ![Key(p)] = where[node[p]]]
          /\ Go(p, "redial")
       \/ /\ Flaky \/ daemon # "running"
          /\ Go(p, "giveup")
          /\ UNCHANGED <<rec, store, ctrl, found>>
    /\ UNCHANGED <<daemon, sessions, procVars, c, snap, where, nMoves, failed,
                   reported, deleted, renamed>>

Redial(p) ==
    /\ At(p, "redial")
    /\ \/ Reaches(p, rec[p].addr) /\ Go(p, "seen")
       \/ MayFail(p, rec[p].addr) /\ Go(p, "giveup")
    /\ UNCHANGED <<daemon, store, sessions, ctrl, procVars, c, rec, snap, where,
                   nMoves, histVars>>

(* CASE failed: the handler closes the controller it made. *)
GiveUp(p) ==
    /\ At(p, "giveup")
    /\ ctrl' = Closed(c[p])
    /\ c' = [c EXCEPT ![p] = None]
    /\ Go(p, "evict")
    /\ UNCHANGED <<daemon, store, sessions, procVars, rec, snap, where, nMoves, histVars>>

(* LastSeen is stored with the copy of the record read before CASE. *)
SaveSeen(p) ==
    /\ At(p, "seen")
    /\ store' = [store EXCEPT ![Key(p)] = rec[p]]
    /\ found' = [found EXCEPT ![Key(p)] = rec[p].addr]
    /\ Go(p, "insert")
    /\ UNCHANGED <<daemon, sessions, ctrl, procVars, c, rec, snap, where, nMoves,
                   failed, reported, deleted, renamed>>

(* The session is cached, over whatever is cached by now. *)
Insert(p) ==
    /\ At(p, "insert")
    /\ sessions' = [sessions EXCEPT ![node[p]] = c[p]]
    /\ Go(p, "decode")
    /\ UNCHANGED <<daemon, store, ctrl, procVars, c, rec, snap, where, nMoves, histVars>>

-----------------------------------------------------------------------------
(* DecodeFields may refuse the payload: an answer without an eviction. *)
Decode(p) ==
    /\ At(p, "decode")
    /\ \/ Go(p, "use") /\ UNCHANGED c
       \/ Go(p, AfterOp(p)) /\ c' = [c EXCEPT ![p] = None]
    /\ UNCHANGED <<daemon, store, sessions, ctrl, procVars, rec, snap, where, nMoves,
                   histVars>>

UseSucceeds(p) ==
    /\ ctrl[c[p]].open
    /\ Reaches(p, ctrl[c[p]].addr)
    /\ c' = [c EXCEPT ![p] = None]
    /\ Go(p, AfterOp(p))
    /\ UNCHANGED <<failed, reported>>

UseNoDeadline(p) ==
    /\ At(p, "use")
    /\ \/ UseSucceeds(p)
       \/ /\ ctrl[c[p]].open
          /\ Flaky
          /\ failed' = failed \cup {c[p]}
          /\ Go(p, "evict")
          /\ UNCHANGED <<c, reported>>
    /\ UNCHANGED <<daemon, store, sessions, ctrl, procVars, rec, snap, where, nMoves,
                   deleted, renamed, found>>

UseNoEvict(p) ==
    /\ At(p, "use")
    /\ \/ UseSucceeds(p)
       \/ /\ MayFail(p, ctrl[c[p]].addr) \/ ~ctrl[c[p]].open
          /\ failed' = failed \cup {c[p]}
          /\ reported' = reported \cup {c[p]}
          /\ c' = [c EXCEPT ![p] = None]
          /\ Go(p, AfterOp(p))
    /\ UNCHANGED <<daemon, store, sessions, ctrl, procVars, rec, snap, where, nMoves,
                   deleted, renamed, found>>

(* The operation itself: client.Invoke, Read or Write. On a controller that
   another handler has closed it runs into its deadline of 30 s. *)
Use(p) ==
    /\ At(p, "use")
    /\ \/ UseSucceeds(p)
       \/ /\ MayFail(p, ctrl[c[p]].addr) \/ ~ctrl[c[p]].open
          /\ failed' = failed \cup {c[p]}
          /\ Go(p, "evict")
          /\ UNCHANGED <<c, reported>>
    /\ UNCHANGED <<daemon, store, sessions, ctrl, procVars, rec, snap, where, nMoves,
                   deleted, renamed, found>>

EvictClosingFirst(p) ==
    /\ At(p, "evict")
    /\ reported' = reported \cup (failed \cap {c[p]})
    /\ c' = [c EXCEPT ![p] = sessions[node[p]]]
    /\ IF sessions[node[p]] = None
       THEN Go(p, AfterOp(p)) /\ UNCHANGED ctrl
       ELSE Go(p, "close") /\ ctrl' = Closed(sessions[node[p]])
    /\ UNCHANGED <<daemon, store, sessions, procVars, rec, snap, where, nMoves, failed,
                   deleted, renamed, found>>

(* evictSession, under mu: whatever is cached for the node leaves the map. *)
EvictSession(p) ==
    /\ At(p, "evict")
    /\ reported' = reported \cup (failed \cap {c[p]})
    /\ c' = [c EXCEPT ![p] = sessions[node[p]]]
    /\ sessions' = [sessions EXCEPT ![node[p]] = None]
    /\ Go(p, IF sessions[node[p]] = None THEN AfterOp(p) ELSE "close")
    /\ UNCHANGED <<daemon, store, ctrl, procVars, rec, snap, where, nMoves, failed,
                   deleted, renamed, found>>

(* ... and is closed after the unlock; then the request is answered. *)
EvictClose(p) ==
    /\ At(p, "close")
    /\ ctrl' = Closed(c[p])
    /\ c' = [c EXCEPT ![p] = None]
    /\ Go(p, AfterOp(p))
    /\ UNCHANGED <<daemon, store, sessions, procVars, rec, snap, where, nMoves, histVars>>

-----------------------------------------------------------------------------
(* Shutdown *)

(* The request is answered, the context is cancelled 50 ms later. *)
Stop(p) ==
    /\ At(p, "stop")
    /\ daemon' = IF daemon = "running" THEN "stopping" ELSE daemon
    /\ Go(p, "done")
    /\ UNCHANGED <<store, sessions, ctrl, procVars, c, rec, snap, where, nMoves, histVars>>

(* The idle timer is reset by a new connection, not by one in progress. *)
IdleTimeout ==
    /\ "stop" \in Commands
    /\ daemon = "running"
    /\ daemon' = "stopping"
    /\ UNCHANGED <<store, sessions, ctrl, pc, procVars, c, rec, snap, where, nMoves,
                   histVars>>

(* shutdown, under mu: every cached controller is closed, the map emptied. *)
Shutdown ==
    /\ daemon = "stopping"
    /\ daemon' = "closed"
    /\ ctrl' = [k \in Procs |-> IF \E n \in Nodes : sessions[n] = k
                                THEN Shut(ctrl[k])
                                ELSE ctrl[k]]
    /\ sessions' = [n \in Nodes |-> None]
    /\ UNCHANGED <<store, pc, procVars, c, rec, snap, where, nMoves, histVars>>

(* Run returns and with it the process, with every handler. *)
Exit ==
    /\ daemon = "closed"
    /\ daemon' = "exited"
    /\ UNCHANGED <<store, sessions, ctrl, pc, procVars, c, rec, snap, where, nMoves,
                   histVars>>

(* The client of a handler that died reads the end of its connection. *)
Disconnected(p) ==
    /\ daemon = "exited"
    /\ pc[p] \notin {"idle", "connect", "save", "done"}
    /\ Go(p, IF pc[p] = "load" THEN "done" ELSE AfterOp(p))
    /\ c' = [c EXCEPT ![p] = None]
    /\ UNCHANGED <<daemon, store, sessions, ctrl, procVars, rec, snap, where, nMoves,
                   histVars>>

(* A device gets another address. *)
Move(n) ==
    /\ nMoves < MaxMoves
    /\ nMoves' = nMoves + 1
    /\ \E a \in Addrs \ {where[n]} : where' = [where EXCEPT ![n] = a]
    /\ UNCHANGED <<daemon, store, sessions, ctrl, pc, procVars, c, rec, snap, histVars>>

-----------------------------------------------------------------------------
FirstAddr == CHOOSE a \in Addrs : TRUE
FirstRec  == [addr |-> FirstAddr, name |-> "old"]

Init ==
    /\ daemon = "running"
    /\ store = [k \in Fabrics \X Nodes |-> FirstRec]
    /\ sessions = [n \in Nodes |-> None]
    /\ ctrl = [k \in Procs |-> [open |-> FALSE, closes |-> 0,
                                fab |-> CHOOSE f \in Fabrics : TRUE, addr |-> FirstAddr]]
    /\ pc = [p \in Procs |-> "idle"]
    /\ cmd = [p \in Procs |-> "op"]
    /\ node = [p \in Procs |-> CHOOSE n \in Nodes : TRUE]
    /\ fab = [p \in Procs |-> CHOOSE f \in Fabrics : TRUE]
    /\ c = [p \in Procs |-> None]
    /\ rec = [p \in Procs |-> FirstRec]
    /\ snap = [p \in Procs |-> FirstRec]
    /\ where = [n \in Nodes |-> FirstAddr]
    /\ nMoves = 0
    /\ failed = {} /\ reported = {} /\ deleted = {} /\ renamed = {}
    /\ found = [k \in Fabrics \X Nodes |-> FirstAddr]

Step(p) ==
    \/ Load(p) \/ Connect(p) \/ SaveNode(p) \/ DeleteNode(p)
    \/ Lookup(p) \/ GetNode(p) \/ Dial(p) \/ Resolve(p) \/ Redial(p) \/ GiveUp(p)
    \/ SaveSeen(p) \/ Insert(p) \/ Decode(p) \/ Use(p)
    \/ EvictSession(p) \/ EvictClose(p) \/ Stop(p) \/ Disconnected(p)

Next ==
    \/ \E p \in Procs : Start(p) \/ Step(p)
    \/ IdleTimeout \/ Shutdown \/ Exit
    \/ \E n \in Nodes : Move(n)

Spec == Init /\ [][Next]_vars

(* Every handler runs until it has answered: each CASE attempt, discovery
   and operation has a deadline. The main loop reacts to its channels. *)
Fairness == (\A p \in Procs : WF_vars(Step(p))) /\ WF_vars(Shutdown) /\ WF_vars(Exit)

FairSpec == Spec /\ Fairness

-----------------------------------------------------------------------------
Labels == {"idle", "load", "connect", "save", "delete", "lookup", "getnode", "dial", "resolve",
           "redial", "giveup", "seen", "insert", "decode", "use", "evict", "close", "stop", "done"}

(* Type invariant. *)
TypeOK ==
    /\ daemon \in {"running", "stopping", "closed", "exited"}
    /\ store \in [Fabrics \X Nodes -> Recs \cup {Absent}]
    /\ sessions \in [Nodes -> Procs \cup {None}]
    /\ ctrl \in [Procs -> CtrlRecs]
    /\ pc \in [Procs -> Labels]
    /\ cmd \in [Procs -> {"op", "rename", "remove", "stop"}]
    /\ node \in [Procs -> Nodes]
    /\ fab \in [Procs -> Fabrics]
    /\ c \in [Procs -> Procs \cup {None}]
    /\ rec \in [Procs -> Recs]
    /\ snap \in [Procs -> Recs]
    /\ where \in [Nodes -> Addrs]
    /\ nMoves \in Nat
    /\ failed \subseteq Procs
    /\ reported \subseteq failed
    /\ deleted \subseteq Fabrics \X Nodes
    /\ renamed \subseteq Fabrics \X Nodes
    /\ found \in [Fabrics \X Nodes -> Addrs]

(* A request is never handed a controller that is closed already: eviction
   and shutdown take a session out of the map before, or in the critical
   section in which, they close it (evictSession, shutdown). *)
CachedIsOpen == \A n \in Nodes : sessions[n] # None => ctrl[sessions[n]].open

(* No controller is closed twice, whatever the evictions of concurrent
   handlers, the failed handshakes and the shutdown do together: the one that
   took it out of the map owns it (evictSession, shutdown). *)
ClosedOnce == \A k \in Procs : ctrl[k].closes <= 1

(* Once the handler of a failed operation has called evictSession, its
   controller is out of the cache for good: the next attempt does retry (handleInvoke, handleRead,
   handleWrite: "evict so the next attempt retries"). *)
FailedNotReused == \A n \in Nodes : sessions[n] \notin reported

(* Every command ends: its requests are answered, also when other handlers
   close the controller under it or the daemon stops (handleConn). *)
Answered == \A p \in Procs : (pc[p] # "idle") ~> (pc[p] = "done")

-----------------------------------------------------------------------------
(* What comments of the code say and the code does not do: TLC finds each of
   them violated. *)

(* protocol.go: "FabricID is the fabric to operate under". *)
RequestedFabric == \A p \in Procs : pc[p] = "use" => ctrl[c[p]].fab = fab[p]

(* server.go, handleDeleteNode: "removing the named node from the store". *)
DeletedStaysDeleted == \A k \in deleted : store[k] = Absent

(* server.go, handleSaveNode: "persisting the supplied node record". *)
RenameKept == \A k \in renamed : store[k] # Absent => store[k].name = "new"

(* attribute.go, persistAttributeCache: "Saving the pre-session snapshot would
   roll both back", the address found by rediscovery among them. *)
AddressKept == \A k \in Fabrics \X Nodes : store[k] # Absent => store[k].addr = found[k]

(* server.go, evictSession: it is "called when an operation fails, suggesting
   the session may be stale": the session of that operation. *)
EvictsTheFailed ==
    [][\A p \in Procs :
         EvictSession(p) /\ cmd[p] # "remove" => sessions[node[p]] \in failed \cup {None}]_vars

(* server.go, shutdown: it "cleans up all resources". *)
ShutdownCleansUp ==
    daemon = "closed" /\ (\A p \in Procs : pc[p] \in {"idle", "done"})
      => \A k \in Procs : ~ctrl[k].open
=============================================================================
