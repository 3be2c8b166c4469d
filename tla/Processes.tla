------------------------------ MODULE Processes -----------------------------
(***************************************************************************)
(* The commands of the CLI as processes that share one database file, one  *)
(* socket path and the devices (cli/device.go, session.go, decommission.go,*)
(* fabric.go, rename.go, cluster_discover.go, tree.go, attribute.go,       *)
(* commission_window.go, connectToNode in cluster.go, daemon.Server.Run).  *)
(*                                                                         *)
(* bolt takes an exclusive lock on the file when it is opened; the daemon  *)
(* keeps it until its process ends, a command only from openStore to       *)
(* Close. Every helper asks first whether a daemon answers (IsRunning) and *)
(* then either sends it a request or opens the file; between the two steps *)
(* daemons may come and go. What a handler inside the daemon does to the   *)
(* cached sessions is the subject of module Daemon; here a request is one  *)
(* step of the daemon's process, and its answer another.                   *)
(*                                                                         *)
(* A command is its sequence of operations (Program); each operation runs  *)
(* through the same steps: check, then ask and answered, or open and held. *)
(***************************************************************************)
EXTENDS Integers, Sequences

CONSTANTS
    Procs,      \* CLI commands, each run once; a daemon is named after the
                \* command that spawned it
    Nodes,      \* node IDs
    Addrs,      \* network addresses
    Workloads,  \* which command each process runs: a set of functions
    MaxMoves,   \* bound: times a device changes its address
    MaxKills,   \* bound: times a daemon is killed
    Absent,     \* no record of this node
    Earlier,    \* the daemon an earlier command may have left running
    None        \* no process, no daemon

Daemons == Procs \cup {Earlier}

Names == {"old", "new"}
Lists == {"none", "stale", "fresh"}   \* a cached AttributeList

Recs == [addr : Addrs, name : Names, attrs : Lists]

(* The operations of each command, in the order the code performs them. *)
RunDecommission    == <<"label", "readIndex", "removeFabric", "delete">>
FabricRemove       == <<"label", "delete">>
FabricReset        == <<"list", "confirm", "delete">>
FabricLs           == <<"load">>
FabricInfo         == <<"fabric", "label">>
RunRename          == <<"load", "writeLabel", "label", "save">>
RenameReset        == <<"load", "operate", "writeLabel", "label", "save">>
RunClusterDiscover == <<"load", "label", "sweep", "reload", "save">>
Tree               == <<"load", "sweep", "reload", "save">>
RunOpenWindow      == <<"label", "operate", "label", "attempt">>
RunCloseWindow     == <<"label", "operate">>
RunSubscribe       == <<"label", "operate">>
SessionStart       == <<"spawn">>
SessionStop        == <<"shutdown">>
SessionStatus      == <<"status">>

Program ==
    [decommission |-> RunDecommission, remove |-> FabricRemove,
     reset |-> FabricReset, ls |-> FabricLs, info |-> FabricInfo,
     rename |-> RunRename, renameReset |-> RenameReset,
     discover |-> RunClusterDiscover, tree |-> Tree,
     openWindow |-> RunOpenWindow, operate |-> RunCloseWindow,
     subscribe |-> RunSubscribe,
     start |-> SessionStart, stop |-> SessionStop, status |-> SessionStatus]

DeviceOps == {"readIndex", "removeFabric", "writeLabel", "sweep", "operate", "attempt"}

(* Only the daemon can do these. *)
DaemonOps == {"shutdown", "status"}

(* Opened with a timeout of 100 ms (openStoreForCompletion). *)
Impatient == {"label", "load", "reload"}

(* An error here does not end the command. *)
Tolerated == {"label", "writeLabel", "attempt"}

(* A direct call that waits on the command's context, which has no         *)
(* deadline, for an answer of the device; subscribe waits for reports.     *)
Unbounded == DeviceOps \ {"removeFabric", "sweep"}

ASSUME ProcessesAssumption ==
    /\ Workloads \subseteq [Procs -> DOMAIN Program]
    /\ MaxMoves \in Nat /\ MaxKills \in Nat
    /\ Absent \notin Recs /\ None \notin Daemons /\ Earlier \notin Procs
    /\ None \notin {"cli", "daemon"} \X Daemons
    /\ Nodes # {} /\ Addrs # {}

VARIABLES
    store,      \* the node records in the database file
    lock,       \* who has the file open: None, <<"cli", p>> or <<"daemon", d>>
    sock,       \* the daemon whose socket is at SocketPath(), dead or alive
    dm,         \* "none", "opening", "starting", "up", "stopping", "leaving",
                \* "gone" for the daemon each command may have spawned
    told,       \* daemons that have been asked to shut down
    dev,        \* what each device knows: our fabric, its NodeLabel, its address
    pc, cmd, node, op,
    todo,       \* reset: the nodes still to be removed
    snap,       \* the record the command has loaded
    via,        \* the daemon that was asked
    res,        \* the result of the current operation
    out,        \* what the command told the user
    nMoves, nKills,
    \* history
    waived,     \* <<p, n>>: the user let p remove n without the device's consent
    dirty       \* commands whose copy somebody else has overtaken in the store

cmdVars == <<pc, cmd, node, op, todo, snap, via, res, out>>
vars == <<store, lock, sock, dm, told, dev, cmdVars, nMoves, nKills, waived, dirty>>

-----------------------------------------------------------------------------
(* The operation the command is at. *)
Op(p) == Program[cmd[p]][op[p]]

Go(p, l) == pc' = [pc EXCEPT ![p] = l]

End(p, o) == Go(p, "done") /\ out' = [out EXCEPT ![p] = o]

Alive(d) == dm[d] \in {"up", "stopping", "leaving"}

(* A ping is answered: the path leads to a daemon that accepts. *)
IsRunning == sock # None /\ dm[sock] = "up"

(* The others that work on n have a copy that is no longer current. *)
Overtake(p, n) ==
    dirty' = (dirty \cup {q \in Procs \ {p} : node[q] = n}) \ {p}

SuccessUnqualified(p) ==
    CASE cmd[p] = "decommission" -> "decommissioned"
      [] OTHER -> "ok"

(***************************************************************************)
(* What the user is told when the last operation has succeeded.            *)
(***************************************************************************)
Success(p) ==
    CASE cmd[p] = "decommission" ->
           IF <<p, node[p]>> \in waived THEN "local only" ELSE "decommissioned"
      [] cmd[p] = "stop" -> "stopped"
      [] cmd[p] = "start" -> IF IsRunning THEN "started" ELSE "not ready"
      [] OTHER -> "ok"

(* The command goes on with its next operation, or is through. *)
Next1(p) ==
    IF op[p] = Len(Program[cmd[p]])
    THEN End(p, Success(p)) /\ UNCHANGED op
    ELSE op' = [op EXCEPT ![p] = @ + 1] /\ Go(p, "check") /\ UNCHANGED out

(***************************************************************************)
(* The end of an operation. A failed RemoveFabric, or the read before it,  *)
(* leaves the decision to the user; any other error that is not tolerated  *)
(* is returned. reset removes one node after the other.                    *)
(***************************************************************************)
AfterDevice(p, r) ==
    IF r = "ok" THEN Next1(p)
    ELSE Go(p, "force") /\ UNCHANGED <<op, out>>

Continue(p, r) ==
    IF Op(p) \in {"readIndex", "removeFabric"} THEN AfterDevice(p, r) /\ UNCHANGED todo
    ELSE IF r = "fail" /\ Op(p) \notin Tolerated
    THEN /\ End(p, IF cmd[p] = "tree" /\ Op(p) \in {"reload", "save"} THEN "ok" ELSE "error")
         /\ UNCHANGED <<op, todo>>
    ELSE IF r = "nothing"
    THEN End(p, "ok") /\ UNCHANGED <<op, todo>>
    ELSE IF cmd[p] = "reset" /\ Op(p) = "delete" /\ todo[p] # {node[p]}
    THEN /\ todo' = [todo EXCEPT ![p] = @ \ {node[p]}]
         /\ Go(p, "check")
         /\ UNCHANGED <<op, out>>
    ELSE Next1(p) /\ UNCHANGED todo

-----------------------------------------------------------------------------
Init ==
    /\ store = [n \in Nodes |-> [addr |-> CHOOSE a \in Addrs : TRUE,
                                 name |-> "old", attrs |-> "stale"]]
    /\ \/ /\ lock = None /\ sock = None
          /\ dm = [d \in Daemons |-> "none"]
       \/ /\ lock = <<"daemon", Earlier>> /\ sock = Earlier
          /\ dm = [[d \in Daemons |-> "none"] EXCEPT ![Earlier] = "up"]
    /\ told = {}
    /\ dev = [n \in Nodes |-> [ours |-> TRUE, label |-> "old",
                               at |-> CHOOSE a \in Addrs : TRUE]]
    /\ pc = [p \in Procs |-> "idle"]
    /\ cmd \in Workloads
    /\ node \in [Procs -> Nodes]
    /\ op = [p \in Procs |-> 1]
    /\ todo = [p \in Procs |-> {}]
    /\ snap = [p \in Procs |-> Absent]
    /\ via = [p \in Procs |-> None]
    /\ res = [p \in Procs |-> "none"]
    /\ out = [p \in Procs |-> "none"]
    /\ nMoves = 0 /\ nKills = 0
    /\ waived = {} /\ dirty = {}

(* The user runs the command. subscribe bypasses the daemon. *)
Run(p) ==
    /\ pc[p] = "idle"
    /\ Go(p, "check")
    /\ waived' = IF cmd[p] = "remove" THEN waived \cup {<<p, node[p]>>} ELSE waived
    /\ UNCHANGED <<store, lock, sock, dm, told, dev, cmd, node, op, todo, snap, via,
                   res, out, nMoves, nKills, dirty>>

(***************************************************************************)
(* IsRunning, then the daemon or the file. For an operation on the device  *)
(* connectToNode asks a second time and refuses when a daemon answers.     *)
(* reset works through its list, in any order of the node IDs.             *)
(***************************************************************************)
Check(p) ==
    /\ pc[p] = "check" /\ Op(p) \notin {"confirm", "spawn"}
    /\ IF cmd[p] = "reset" /\ Op(p) = "delete"
       THEN \E n \in todo[p] : node' = [node EXCEPT ![p] = n]
       ELSE UNCHANGED node
    /\ \/ /\ IsRunning /\ ~(cmd[p] = "subscribe" /\ Op(p) = "operate")
          /\ via' = [via EXCEPT ![p] = sock]
          /\ Go(p, "ask")
          /\ UNCHANGED out
       \/ /\ ~IsRunning \/ (cmd[p] = "subscribe" /\ Op(p) = "operate")
          /\ IF Op(p) \in DaemonOps THEN End(p, "no daemon")
             ELSE /\ Go(p, IF Op(p) \in DeviceOps THEN "recheck" ELSE "open")
                  /\ UNCHANGED out
          /\ UNCHANGED via
    /\ UNCHANGED <<store, lock, sock, dm, told, dev, cmd, op, todo, snap, res,
                   nMoves, nKills, waived, dirty>>

Recheck(p) ==
    /\ pc[p] = "recheck"
    /\ IF IsRunning THEN Continue(p, "fail")
       ELSE Go(p, "open") /\ UNCHANGED <<op, todo, out>>
    /\ UNCHANGED <<store, lock, sock, dm, told, dev, cmd, node, snap, via, res,
                   nMoves, nKills, waived, dirty>>

-----------------------------------------------------------------------------
(***************************************************************************)
(* The operations themselves, performed by whoever has the file open: they *)
(* give the new store, device, copy and list, and the result.              *)
(***************************************************************************)
Answer(s, d, c, t, r) == [store |-> s, dev |-> d, snap |-> c, todo |-> t, res |-> r]

ApplyAttributeListSnapshot(p) == snap[p]

(* persistAttributeCache: the record is read again and only the lists are  *)
(* copied onto it; a list that is nil is not.                              *)
ApplyAttributeList(p) ==
    [store[node[p]] EXCEPT !.attrs = IF snap[p].attrs = "none" THEN @ ELSE snap[p].attrs]

(* Store.ListNodes and the search for one node in the list. *)
ListNodes(p) ==
    LET all == {n \in Nodes : store[n] # Absent}
        found(r) == IF store[node[p]] = Absent THEN Answer(store, dev, snap[p], todo[p], "fail")
                    ELSE Answer(store, dev, r, todo[p], "ok")
    IN  CASE Op(p) = "list" -> {Answer(store, dev, snap[p], all, "ok")}
          [] Op(p) = "label" -> {Answer(store, dev, snap[p], todo[p], "ok")}
          [] Op(p) = "load" -> IF cmd[p] = "ls" THEN {Answer(store, dev, Absent, todo[p], "ok")}
                               ELSE {found(store[node[p]])}
          [] Op(p) = "reload" -> {found(ApplyAttributeList(p))}

(* Store.DeleteNode. *)
DeleteNode(p) ==
    IF store[node[p]] = Absent
    THEN {Answer(store, dev, snap[p], todo[p], "fail")}
    ELSE {Answer([store EXCEPT ![node[p]] = Absent], dev, snap[p], todo[p], "ok")}

(* Store.SaveNode of the command's copy; rename puts its new name in. *)
SaveNode(p) ==
    LET r == IF cmd[p] \in {"rename", "renameReset"} THEN [snap[p] EXCEPT !.name = "new"] ELSE snap[p]
    IN  {Answer([store EXCEPT ![node[p]] = r], dev, snap[p], todo[p], "ok")}

Failed(p, s, d) == Answer(s, d, snap[p], todo[p], "fail")
Done(p, s, d)   == Answer(s, d, snap[p], todo[p], "ok")

(* No answer, an error status, or the index; an index of 0 is an error. *)
ReadCurrentFabricIndex(p, s) == {Failed(p, s, dev), Done(p, s, dev)}

(* A NOCResponse with another status than OK is an error. *)
ParseNOCResponse(p, s) == {Failed(p, s, dev)}

(* The request or its answer is lost, the device refuses, or it obeys. *)
InvokeRemoveFabric(p, s) ==
    LET gone == [dev EXCEPT ![node[p]].ours = FALSE]
    IN  {Failed(p, s, dev), Failed(p, s, gone), Done(p, s, gone)} \cup ParseNOCResponse(p, s)

WriteNodeLabel(p, s) ==
    LET named == [dev EXCEPT ![node[p]].label = "new"]
    IN  {Failed(p, s, dev), Failed(p, s, named), Done(p, s, named)}

(* The lists that were read are put into the copy. A list that cannot be   *)
(* decoded counts as read and empty; when none was read nothing is saved.  *)
SweepAttributeLists(p, s) ==
    {Answer(s, dev, snap[p], todo[p], "nothing")} \cup
    {Answer(s, dev, [snap[p] EXCEPT !.attrs = l], todo[p], "ok") : l \in {"none", "fresh"}}

(* Every other operation: nothing in this model depends on it. *)
InvokeAdminCommissioning(p, s) == {Failed(p, s, dev), Done(p, s, dev)}

DeviceAnswers(p, s) ==
    CASE Op(p) = "readIndex" -> ReadCurrentFabricIndex(p, s)
      [] Op(p) = "removeFabric" -> InvokeRemoveFabric(p, s)
      [] Op(p) = "writeLabel" -> WriteNodeLabel(p, s)
      [] Op(p) = "sweep" -> SweepAttributeLists(p, s)
      [] OTHER -> InvokeAdminCommissioning(p, s)

(***************************************************************************)
(* connectToNode: the record, CASE at the last address, rediscovery when   *)
(* the device has moved, and the record saved with what was found.         *)
(***************************************************************************)
ConnectToNode(p) ==
    LET n == node[p]
        found == [store EXCEPT ![n].addr = dev[n].at]
    IN  IF store[n] = Absent THEN {Failed(p, store, dev)}
        ELSE {Failed(p, store, dev), Failed(p, found, dev)}
             \cup (IF dev[n].ours THEN DeviceAnswers(p, found) ELSE {})

(* Through the daemon the session may be cached and the store left alone. *)
Operates(p) ==
    CASE Op(p) \in {"list", "label", "load", "reload"} -> ListNodes(p)
      [] Op(p) = "delete" -> DeleteNode(p)
      [] Op(p) = "save" -> SaveNode(p)
      [] Op(p) \in DaemonOps \cup {"fabric"} -> {Done(p, store, dev)}
      [] OTHER -> ConnectToNode(p)

Cached(p) ==
    IF Op(p) \in DeviceOps /\ dev[node[p]].ours THEN DeviceAnswers(p, store) ELSE {}

Take(p, a) ==
    /\ store' = a.store
    /\ dev' = a.dev
    /\ snap' = [snap EXCEPT ![p] = a.snap]
    /\ IF a.store = store /\ Op(p) \notin {"load", "reload"} THEN UNCHANGED dirty
       ELSE IF a.store = store THEN dirty' = dirty \ {p}
       ELSE Overtake(p, node[p])

-----------------------------------------------------------------------------
(* The request reaches the daemon, or the daemon has gone. *)
Handle(p) ==
    /\ pc[p] = "ask"
    /\ Alive(via[p])
    /\ dm[via[p]] # "leaving"
    /\ \E a \in Operates(p) \cup Cached(p) :
          /\ Take(p, a)
          /\ todo' = [todo EXCEPT ![p] = a.todo]
          /\ res' = [res EXCEPT ![p] = a.res]
    /\ told' = IF Op(p) = "shutdown" THEN told \cup {via[p]} ELSE told
    /\ Go(p, "answered")
    /\ UNCHANGED <<lock, sock, dm, cmd, node, op, via, out, nMoves, nKills, waived>>

(* "connection closed without response", connection refused. *)
Disconnected(p) ==
    /\ \/ pc[p] = "ask" /\ dm[via[p]] # "up"
       \/ pc[p] = "answered" /\ dm[via[p]] \in {"leaving", "gone"}
    /\ Continue(p, "fail")
    /\ UNCHANGED <<store, lock, sock, dm, told, dev, cmd, node, snap, via, res,
                   nMoves, nKills, waived, dirty>>

Respond(p) ==
    /\ pc[p] = "answered"
    /\ Alive(via[p])
    /\ Continue(p, res[p])
    /\ UNCHANGED <<store, lock, sock, dm, told, dev, cmd, node, snap, via, res,
                   nMoves, nKills, waived, dirty>>

-----------------------------------------------------------------------------
(* openStore: bolt waits for the lock, for ever or for 100 ms. *)
OpenStore(p) ==
    /\ pc[p] = "open" /\ lock = None
    /\ lock' = <<"cli", p>>
    /\ Go(p, "held")
    /\ UNCHANGED <<store, sock, dm, told, dev, cmd, node, op, todo, snap, via, res, out,
                   nMoves, nKills, waived, dirty>>

OpenTimesOut(p) ==
    /\ pc[p] = "open" /\ lock # None /\ Op(p) \in Impatient
    /\ Continue(p, "fail")
    /\ UNCHANGED <<store, lock, sock, dm, told, dev, cmd, node, snap, via, res,
                   nMoves, nKills, waived, dirty>>

DirectStaysOpen(p) ==
    /\ pc[p] = "held"
    /\ \E a \in Operates(p) : Take(p, a) /\ Continue(p, a.res)
    /\ lock' = IF Op(p) \in DeviceOps THEN lock ELSE None
    /\ UNCHANGED <<sock, dm, told, cmd, node, via, res, nMoves, nKills, waived>>

(* The operation, and the deferred Close. *)
Direct(p) ==
    /\ pc[p] = "held"
    /\ \E a \in Operates(p) :
          /\ Take(p, a)
          /\ IF Op(p) = "list"
             THEN todo' = [todo EXCEPT ![p] = a.todo] /\ Next1(p)
             ELSE Continue(p, a.res)
    /\ lock' = None
    /\ UNCHANGED <<sock, dm, told, cmd, node, via, res, nMoves, nKills, waived>>

(* The session is there but the request or its answer is lost: the call    *)
(* waits with the file open.                                               *)
Silent(p) ==
    /\ pc[p] = "held" /\ Op(p) \in Unbounded
    /\ store[node[p]] # Absent /\ dev[node[p]].ours
    /\ \E a \in Operates(p) : a.res = "fail" /\ Take(p, a)
    /\ Go(p, "silent")
    /\ UNCHANGED <<lock, sock, dm, told, cmd, node, op, todo, via, res, out,
                   nMoves, nKills, waived>>

(* Ctrl+C; the end of the process releases the lock. *)
Interrupt(p) ==
    /\ pc[p] = "silent"
    /\ End(p, "interrupted")
    /\ lock' = None
    /\ UNCHANGED <<store, sock, dm, told, dev, cmd, node, op, todo, snap, via, res,
                   nMoves, nKills, waived, dirty>>

-----------------------------------------------------------------------------
(* confirmForceDelete: --force, or the user's answer. *)
ConfirmForceDelete(p) ==
    /\ pc[p] = "force"
    /\ \/ /\ op' = [op EXCEPT ![p] = Len(Program[cmd[p]])]
          /\ waived' = waived \cup {<<p, node[p]>>}
          /\ Go(p, "check")
          /\ UNCHANGED out
       \/ End(p, "error") /\ UNCHANGED <<op, waived>>
    /\ UNCHANGED <<store, lock, sock, dm, told, dev, cmd, node, todo, snap, via, res,
                   nMoves, nKills, dirty>>

(* reset asks before it removes what it has listed. *)
ConfirmReset(p) ==
    /\ pc[p] = "check" /\ Op(p) = "confirm"
    /\ \/ /\ todo[p] # {}
          /\ Next1(p)
          /\ waived' = waived \cup ({p} \X todo[p])
       \/ End(p, "ok") /\ UNCHANGED <<op, waived>>
    /\ UNCHANGED <<store, lock, sock, dm, told, dev, cmd, node, todo, snap, via, res,
                   nMoves, nKills, dirty>>

-----------------------------------------------------------------------------
(* session start and --keep-alive: unless one answers, spawn a daemon and  *)
(* wait for an answer, for at most 3 s.                                    *)
Spawn(p) ==
    /\ pc[p] = "check" /\ Op(p) = "spawn"
    /\ IF IsRunning
       THEN End(p, "already running") /\ UNCHANGED dm
       ELSE dm' = [dm EXCEPT ![p] = "opening"] /\ Go(p, "wait") /\ UNCHANGED out
    /\ UNCHANGED <<store, lock, sock, told, dev, cmd, node, op, todo, snap, via, res,
                   nMoves, nKills, waived, dirty>>

WaitForDaemon(p) ==
    /\ pc[p] = "wait"
    /\ Next1(p)
    /\ UNCHANGED <<store, lock, sock, dm, told, dev, cmd, node, todo, snap, via, res,
                   nMoves, nKills, waived, dirty>>

(* __daemon opens the store, for as long as it takes. *)
DaemonOpens(d) ==
    /\ dm[d] = "opening" /\ lock = None
    /\ lock' = <<"daemon", d>>
    /\ dm' = [dm EXCEPT ![d] = "starting"]
    /\ UNCHANGED <<store, sock, told, dev, cmdVars, nMoves, nKills, waived, dirty>>

(* Server.Run removes what is at the path and listens there. *)
Listen(d) ==
    /\ dm[d] = "starting"
    /\ sock' = d
    /\ dm' = [dm EXCEPT ![d] = "up"]
    /\ UNCHANGED <<store, lock, told, dev, cmdVars, nMoves, nKills, waived, dirty>>

IdleTimeoutClosesStore(d) ==
    /\ dm[d] = "up" /\ d \notin told
    /\ dm' = [dm EXCEPT ![d] = "stopping"]
    /\ lock' = None
    /\ UNCHANGED <<store, sock, told, dev, cmdVars, nMoves, nKills, waived, dirty>>

(* The idle timer fires, or the cancellation scheduled by a shutdown      *)
(* request, 50 ms after its answer.                                        *)
IdleTimeout(d) ==
    /\ dm[d] = "up" /\ d \notin told
    /\ dm' = [dm EXCEPT ![d] = "stopping"]
    /\ UNCHANGED <<store, lock, sock, told, dev, cmdVars, nMoves, nKills, waived, dirty>>

Cancelled(d) ==
    /\ dm[d] = "up" /\ d \in told
    /\ dm' = [dm EXCEPT ![d] = "stopping"]
    /\ UNCHANGED <<store, lock, sock, told, dev, cmdVars, nMoves, nKills, waived, dirty>>

(* Server.shutdown: the listener is closed, then the path is removed ... *)
Shutdown(d) ==
    /\ dm[d] = "stopping"
    /\ sock' = None
    /\ dm' = [dm EXCEPT ![d] = "leaving"]
    /\ UNCHANGED <<store, lock, told, dev, cmdVars, nMoves, nKills, waived, dirty>>

(* ... and the end of the process releases the lock. *)
Exit(d) ==
    /\ dm[d] = "leaving"
    /\ dm' = [dm EXCEPT ![d] = "gone"]
    /\ lock' = None
    /\ UNCHANGED <<store, sock, told, dev, cmdVars, nMoves, nKills, waived, dirty>>

(* SIGKILL: the socket stays behind. *)
KillDaemon(d) ==
    /\ dm[d] \notin {"none", "gone"} /\ nKills < MaxKills
    /\ nKills' = nKills + 1
    /\ dm' = [dm EXCEPT ![d] = "gone"]
    /\ lock' = IF lock = <<"daemon", d>> THEN None ELSE lock
    /\ UNCHANGED <<store, sock, told, dev, cmdVars, nMoves, waived, dirty>>

(* A device gets another address. *)
Move(n) ==
    /\ nMoves < MaxMoves
    /\ nMoves' = nMoves + 1
    /\ \E a \in Addrs \ {dev[n].at} : dev' = [dev EXCEPT ![n].at = a]
    /\ UNCHANGED <<store, lock, sock, dm, told, cmdVars, nKills, waived, dirty>>

DaemonSteps(d) ==
    \/ DaemonOpens(d) \/ Listen(d) \/ IdleTimeout(d) \/ Cancelled(d)
    \/ Shutdown(d) \/ Exit(d)

CommandSteps(p) ==
    \/ Check(p) \/ Recheck(p) \/ Handle(p) \/ Disconnected(p) \/ Respond(p)
    \/ OpenStore(p) \/ OpenTimesOut(p) \/ Direct(p) \/ Silent(p)
    \/ ConfirmForceDelete(p) \/ ConfirmReset(p) \/ Spawn(p) \/ WaitForDaemon(p)

Next ==
    \/ \E p \in Procs : Run(p) \/ CommandSteps(p) \/ Interrupt(p)
    \/ \E d \in Daemons : DaemonSteps(d) \/ KillDaemon(d)
    \/ \E n \in Nodes : Move(n)

Spec ==
    /\ Init /\ [][Next]_vars
    /\ \A p \in Procs : WF_vars(CommandSteps(p))
    /\ \A d \in Daemons : WF_vars(DaemonSteps(d))

-----------------------------------------------------------------------------
(* The path leads to the daemon that serves: no daemon that is still       *)
(* shutting down removes the socket of its successor, because the lock     *)
(* passes on only with the end of the process (docs/DAEMON_STORE.md).      *)
ServedSocket == \A d \in Daemons : dm[d] = "up" => sock = d

(* "Decommissioned" is said only of a device that has dropped our fabric,  *)
(* and a device that holds our fabric keeps its record unless the user     *)
(* asked for a removal that leaves the device out: whatever way the two    *)
(* requests took and whatever was lost.                                    *)
DecommissionHonest ==
    /\ \A p \in Procs : out[p] = "decommissioned" => ~dev[node[p]].ours
    /\ \A n \in Nodes : (dev[n].ours /\ store[n] = Absent) => \E p \in Procs : <<p, n>> \in waived

(* p has its copy saved. *)
Saves(p) == Op(p) = "save" /\ pc[p] \in {"ask", "held"} /\ pc'[p] # pc[p]

SavesCurrent(p) ==
    LET n == node[p]
    IN  (Saves(p) /\ p \notin dirty) =>
            /\ store[n] # Absent /\ store'[n].addr = store[n].addr
            /\ store[n].attrs # "none" => store'[n].attrs # "none"

(* persistAttributeCache: unless another process has written the record in *)
(* the meantime, neither the address the session found nor a list that was *)
(* cached before is lost when the lists are saved.                         *)
CacheSaveCurrent == [][\A p \in Procs : cmd[p] \in {"discover", "tree"} => SavesCurrent(p)]_vars

(* The same of every command that saves a record: rename does not reload.  *)
EverySaveCurrent == [][\A p \in Procs : SavesCurrent(p)]_vars

(* A call without a deadline has lost its answer, or another command's has *)
(* and keeps the file that this one waits for.                             *)
Waits(p) ==
    \/ pc[p] = "silent"
    \/ pc[p] = "open" /\ Op(p) \notin Impatient /\ \E q \in Procs : pc[q] = "silent"

(* Every command comes to its end, although the file is locked by a daemon *)
(* for the daemon's whole life and by other commands; the exception are    *)
(* the direct calls without a deadline, which only the user ends.          *)
CommandsEnd == \A p \in Procs : (pc[p] # "idle") ~> (pc[p] = "done" \/ Waits(p))
=============================================================================
