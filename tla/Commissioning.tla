---------------------------- MODULE Commissioning ----------------------------
(***************************************************************************)
(* `matter commission` (cli/commission.go) and the commissioning flow it   *)
(* runs (internal/commissioning/flow.go), against a device with a failsafe *)
(* timer.                                                                  *)
(*                                                                         *)
(* A process is one run of the command, for one new device, which has the  *)
(* name of the process. The flow is a chain of calls to the device: reads, *)
(* plain invokes (30 s deadline) and timed invokes, whose TimedRequest leg *)
(* ("rootTimed", "nocTimed") is a call of its own here. A call is on its   *)
(* way in inbox until the device handles it; the flow may have given up by *)
(* then. Only the calls that change the device or whose errors are treated *)
(* differently are told apart: "attest" stands for AttestationRequest and  *)
(* the two CertificateChainRequests, "devinfo" for the reads after the     *)
(* commit. SupportsConcurrentConnection is read, but only worded in logs.  *)
(***************************************************************************)
EXTENDS Integers, FiniteSets, FiniteSetsExt, Functions

CONSTANTS
    Procs,          \* runs of the command, each with a device of its own
    Reconnects,     \* bleReconnectMaxAttempts
    CaseRetries,    \* caseRetries when the BLE link did not drop
    MaxFaults,      \* bound: lost messages, dropped links, expiries
    None            \* nobody holds the store

ASSUME CommissioningAssumption ==
    /\ Procs # {} /\ IsFiniteSet(Procs) /\ None \notin Procs
    /\ Reconnects \in Nat \ {0} /\ CaseRetries \in Nat \ {0}
    /\ MaxFaults \in Nat

VARIABLES
    pc,         \* the step of each process
    net,        \* params.Network # nil
    addr,       \* where the device was discovered: "none", "ble" or "ip"
    link,       \* the transport of the current session is up
    rpc,        \* the current call: "idle", "wait", "ok", "rejected"
    inbox,      \* calls on their way to the device
    bleDropped,
    tries,      \* attempts made by the current retry loop
    id,         \* the node ID to assign
    result,     \* "none", "ok", "failed" or "killed"
    dev,        \* the device (external)
    lock,       \* the process that has the bolt file open
    nodes,      \* the node records in the store: ID -> device
    faults,
    at          \* history: the step at which the flow failed

flowVars == <<net, addr, id>>
vars == <<pc, net, addr, link, rpc, inbox, bleDropped, tries, id, result, dev,
          lock, nodes, faults, at>>

Reads   == {"info", "basic", "features", "devinfo"}
Timed   == {"rootTimed", "nocTimed"}
Invokes == {"arm", "attest", "csr", "root", "noc", "rearm", "setup", "connect",
            "complete"}
Calls   == Reads \cup Timed \cup Invokes

(* A device before it is commissioned: wired says that it is on an IP network
   without being given credentials. noc is the node ID of its certificate. *)
Fresh(w) == [armed |-> FALSE, root |-> FALSE, noc |-> 0, creds |-> FALSE,
             joined |-> FALSE, done |-> FALSE, wired |-> w]

Online(d) == d.wired \/ d.joined

Init ==
    /\ pc = [p \in Procs |-> "new"]
    /\ net \in [Procs -> BOOLEAN]
    /\ addr = [p \in Procs |-> "none"]
    /\ link = [p \in Procs |-> FALSE]
    /\ rpc = [p \in Procs |-> "idle"]
    /\ inbox = [p \in Procs |-> {}]
    /\ bleDropped = [p \in Procs |-> FALSE]
    /\ tries = [p \in Procs |-> 0]
    /\ id = [p \in Procs |-> 0]
    /\ result = [p \in Procs |-> "none"]
    /\ dev \in [Procs -> {Fresh(w) : w \in BOOLEAN}]
    /\ lock = None
    /\ nodes = << >>
    /\ faults = 0
    /\ at = [p \in Procs |-> "new"]

-----------------------------------------------------------------------------
Go(p, l) == pc' = [pc EXCEPT ![p] = l]

(* The command returns: the deferred Close gives the bolt file back. *)
Exit(p, r) ==
    /\ Go(p, "done")
    /\ result' = [result EXCEPT ![p] = r]
    /\ lock' = IF lock = p THEN None ELSE lock

Fail(p) ==
    /\ Exit(p, "failed")
    /\ at' = [at EXCEPT ![p] = pc[p]]

MoveTo(p, l) == Go(p, l) /\ UNCHANGED <<result, lock, at>>

Fault == faults < MaxFaults /\ faults' = faults + 1

(* nextNodeID opens the store, reads the node list and closes the store. *)
FreeID == Max({0} \cup DOMAIN nodes) + 1

NextNodeID(p) ==
    /\ pc[p] = "new" /\ lock = None
    /\ \/ id' = [id EXCEPT ![p] = FreeID] /\ MoveTo(p, "open")
       \/ Fail(p) /\ UNCHANGED id
    /\ UNCHANGED <<net, addr, link, rpc, inbox, bleDropped, tries, dev, nodes,
                   faults>>

(* openStore waits for the file lock; the command keeps it to the end. *)
OpenStore(p) ==
    /\ pc[p] = "open" /\ lock = None
    /\ \/ lock' = p /\ Go(p, "discover") /\ UNCHANGED <<result, at>>
       \/ Fail(p)
    /\ UNCHANGED <<net, addr, link, rpc, inbox, bleDropped, tries, id, dev, nodes,
                   faults>>

(* The setup code is parsed and the device is discovered, over BLE or, when
   it is on the network already, over IP. *)
Discover(p) ==
    /\ pc[p] = "discover"
    /\ \/ /\ addr' = [addr EXCEPT ![p] = "ble"]
          /\ MoveTo(p, "pase")
       \/ /\ dev[p].wired
          /\ addr' = [addr EXCEPT ![p] = "ip"]
          /\ MoveTo(p, "pase")
       \/ Fail(p) /\ UNCHANGED addr
    /\ UNCHANGED <<net, link, rpc, inbox, bleDropped, tries, id, dev, nodes,
                   faults>>

OnNetwork(p) == addr[p] = "ip"

EstablishPASE(p) ==
    /\ pc[p] = "pase"
    /\ \/ MoveTo(p, "arm") /\ link' = [link EXCEPT ![p] = TRUE]
       \/ Fail(p) /\ UNCHANGED link
    /\ UNCHANGED <<flowVars, rpc, inbox, bleDropped, tries, dev, nodes, faults>>

-----------------------------------------------------------------------------
(* Calls to the device *)

Send(p) ==
    /\ pc[p] \in Calls /\ rpc[p] = "idle" /\ link[p]
    /\ rpc' = [rpc EXCEPT ![p] = "wait"]
    /\ inbox' = [inbox EXCEPT ![p] = @ \cup {pc[p]}]
    /\ UNCHANGED <<pc, flowVars, link, bleDropped, tries, result, dev, lock,
                   nodes, faults, at>>

(* needsNetwork; credentials are discarded for a device on the network. *)
NeedsNetwork(p) == net[p] /\ ~OnNetwork(p)

AfterNOC(p) == IF NeedsNetwork(p) THEN "setup" ELSE "case"

(* The step after a call that went well. *)
After(p) ==
    CASE pc[p] = "arm"       -> "info"
      [] pc[p] = "info"      -> "basic"
      [] pc[p] = "basic"     -> IF net[p] \/ OnNetwork(p) THEN "attest" ELSE "features"
      [] pc[p] = "features"  -> "attest"
      [] pc[p] = "attest"    -> "csr"
      [] pc[p] = "csr"       -> "issue"
      [] pc[p] = "rootTimed" -> "root"
      [] pc[p] = "root"      -> "nocTimed"
      [] pc[p] = "nocTimed"  -> "noc"
      [] pc[p] = "noc"       -> AfterNOC(p)
      [] pc[p] = "rearm"     -> "setup"
      [] pc[p] = "setup"     -> "connect"
      [] pc[p] = "connect"   -> "case"
      [] pc[p] = "complete"  -> "devinfo"
      [] pc[p] = "devinfo"   -> "save"

Succeeds(p) ==
    /\ pc[p] \in Calls /\ rpc[p] = "ok"
    /\ rpc' = [rpc EXCEPT ![p] = "idle"]
    /\ \/ MoveTo(p, After(p))
       \/ pc[p] = "features" /\ Fail(p)     \* no Ethernet and no credentials
    /\ UNCHANGED <<flowVars, link, inbox, bleDropped, tries, dev, nodes, faults>>

(* ... and after one that failed. *)
Tolerated(p, kind) ==
    \/ pc[p] \in {"info", "features", "devinfo"}
    \/ pc[p] \in {"nocTimed", "noc", "connect"} /\ kind \in {"closed", "deadline"}
    \/ pc[p] = "setup" /\ kind = "closed"

AfterDrop(p) ==
    IF pc[p] \in {"nocTimed", "noc"} /\ NeedsNetwork(p) THEN "reconnect" ELSE "case"

CallFailsButComplete(p, kind) ==
    /\ rpc' = [rpc EXCEPT ![p] = "idle"]
    /\ IF pc[p] \in {"complete", "devinfo"} THEN MoveTo(p, After(p)) ELSE Fail(p)
    /\ UNCHANGED <<flowVars, link, inbox, bleDropped, tries, dev, nodes, faults>>

CallFails(p, kind) ==
    /\ rpc' = [rpc EXCEPT ![p] = "idle"]
    /\ IF ~Tolerated(p, kind)
       THEN Fail(p) /\ UNCHANGED bleDropped
       ELSE IF pc[p] \in Reads
       THEN MoveTo(p, After(p)) /\ UNCHANGED bleDropped
       ELSE /\ MoveTo(p, AfterDrop(p))
            /\ bleDropped' = [bleDropped EXCEPT ![p] = TRUE]
    /\ UNCHANGED <<flowVars, link, inbox, tries, dev, nodes, faults>>

Rejected(p) == pc[p] \in Calls /\ rpc[p] = "rejected" /\ CallFails(p, "rejected")

(* The response deadline of invokeInternal; it is there for the answer to
   the InvokeRequest only, not for Read nor for the TimedRequest leg. *)
Deadline(p) == pc[p] \in Invokes /\ rpc[p] # "idle" /\ CallFails(p, "deadline")

(* ErrConnClosed or ErrExchangeClosed *)
ConnClosed(p) == pc[p] \in Calls /\ ~link[p] /\ CallFails(p, "closed")

-----------------------------------------------------------------------------
IssueNOC(p) ==
    /\ pc[p] = "issue"
    /\ MoveTo(p, "rootTimed") \/ Fail(p)
    /\ UNCHANGED <<flowVars, link, rpc, inbox, bleDropped, tries, dev, nodes,
                   faults>>

(* An attempt of a retry loop failed. *)
RetryUncounted(p, limit) ==
    IF tries[p] + 1 < limit
    THEN MoveTo(p, pc[p]) /\ UNCHANGED tries
    ELSE Fail(p) /\ UNCHANGED tries

Retry(p, limit) ==
    IF tries[p] + 1 < limit
    THEN /\ tries' = [tries EXCEPT ![p] = @ + 1]
         /\ MoveTo(p, pc[p])
    ELSE Fail(p) /\ UNCHANGED tries

ReconnectPASEAfterAddNOC(p) ==
    /\ pc[p] = "reconnect"
    /\ \/ /\ ~dev[p].done
          /\ MoveTo(p, "rearm")
          /\ link' = [link EXCEPT ![p] = TRUE]
          /\ bleDropped' = [bleDropped EXCEPT ![p] = FALSE]
          /\ tries' = [tries EXCEPT ![p] = 0]
       \/ Retry(p, Reconnects) /\ UNCHANGED <<link, bleDropped>>
    /\ UNCHANGED <<flowVars, rpc, inbox, dev, nodes, faults>>

CaseLimit(p) == IF bleDropped[p] THEN 1 ELSE CaseRetries

(* bleSessionEstablisher.EstablishCASE closes the BLE link first; CASE goes
   over IP and needs the certificate on both sides. *)
EstablishCASE(p) ==
    /\ pc[p] = "case"
    /\ \/ /\ dev[p].noc = id[p] /\ Online(dev[p])
          /\ MoveTo(p, "complete")
          /\ link' = [link EXCEPT ![p] = TRUE]
          /\ UNCHANGED tries
       \/ /\ Retry(p, CaseLimit(p))
          /\ link' = [link EXCEPT ![p] = @ /\ OnNetwork(p)]
    /\ UNCHANGED <<flowVars, rpc, inbox, bleDropped, dev, nodes, faults>>

(* A failed SaveNode is a warning; the command still reports success. *)
SaveNode(p) ==
    /\ pc[p] = "save"
    /\ \/ nodes' = [i \in DOMAIN nodes \cup {id[p]} |->
                        IF i = id[p] THEN p ELSE nodes[i]]
       \/ UNCHANGED nodes
    /\ Exit(p, "ok")
    /\ UNCHANGED <<flowVars, link, rpc, inbox, bleDropped, tries, dev, faults,
                   at>>

-----------------------------------------------------------------------------
(* The device and the faults (external) *)

Accepts(d, c, n) ==
    CASE c = "root"     -> d.armed
      [] c = "noc"      -> d.armed /\ d.root
      [] c = "setup"    -> d.armed
      [] c = "connect"  -> d.armed /\ d.creds
      [] c = "complete" -> d.armed /\ d.noc = n
      [] OTHER          -> TRUE

Effect(d, c, n) ==
    CASE c \in {"arm", "rearm"} -> [d EXCEPT !.armed = TRUE]
      [] c = "root"     -> [d EXCEPT !.root = TRUE]
      [] c = "noc"      -> [d EXCEPT !.noc = n]
      [] c = "setup"    -> [d EXCEPT !.creds = TRUE]
      [] c = "connect"  -> [d EXCEPT !.joined = TRUE]
      [] c = "complete" -> [d EXCEPT !.armed = FALSE, !.done = TRUE]
      [] OTHER          -> d

(* The device handles a call and answers; nobody may be waiting any more. *)
DeviceHandles(p) ==
    \E c \in inbox[p], s \in {"ok", "rejected"} :
        /\ s = "ok" => Accepts(dev[p], c, id[p])
        /\ inbox' = [inbox EXCEPT ![p] = @ \ {c}]
        /\ dev' = IF s = "ok" THEN [dev EXCEPT ![p] = Effect(dev[p], c, id[p])] ELSE dev
        /\ rpc' = IF c = pc[p] /\ rpc[p] = "wait" /\ link[p]
                  THEN [rpc EXCEPT ![p] = s] ELSE rpc
        /\ UNCHANGED <<pc, flowVars, link, bleDropped, tries, result, lock,
                       nodes, faults, at>>

(* ArmFailSafe expires: the device drops what it was given since. *)
FailsafeExpires(p) ==
    /\ dev[p].armed
    /\ Fault
    /\ dev' = [dev EXCEPT ![p] =
                 IF @.done THEN [@ EXCEPT !.armed = FALSE] ELSE Fresh(@.wired)]
    /\ UNCHANGED <<pc, flowVars, link, rpc, inbox, bleDropped, tries, result,
                   lock, nodes, at>>

(* Datagrams get lost: a request, or the answer that is on its way back. *)
Lose(p) ==
    /\ Fault
    /\ OnNetwork(p) \/ pc[p] \in {"complete", "devinfo"}
    /\ \/ inbox[p] # {} /\ inbox' = [inbox EXCEPT ![p] = {}] /\ UNCHANGED rpc
       \/ /\ rpc[p] \in {"ok", "rejected"}
          /\ rpc' = [rpc EXCEPT ![p] = "wait"] /\ UNCHANGED inbox
    /\ UNCHANGED <<pc, flowVars, link, bleDropped, tries, result, dev, lock,
                   nodes, at>>

(* The BLE link drops, with or without the call that was on its way. *)
LinkDrops(p) ==
    /\ Fault
    /\ link[p] /\ addr[p] = "ble" /\ pc[p] \notin {"complete", "devinfo", "save"}
    /\ link' = [link EXCEPT ![p] = FALSE]
    /\ inbox' \in {inbox, [inbox EXCEPT ![p] = {}]}
    /\ UNCHANGED <<pc, flowVars, rpc, bleDropped, tries, result, dev, lock,
                   nodes, at>>

(* Ctrl+C: the command installs no handler. *)
Kill(p) ==
    /\ pc[p] # "done"
    /\ Exit(p, "killed")
    /\ rpc' = [rpc EXCEPT ![p] = "idle"]
    /\ link' = [link EXCEPT ![p] = FALSE]
    /\ UNCHANGED <<flowVars, inbox, bleDropped, tries, dev, nodes, faults, at>>

Terminated == (\A p \in Procs : pc[p] = "done") /\ UNCHANGED vars

Flow(p) ==
    \/ NextNodeID(p) \/ OpenStore(p) \/ Discover(p) \/ EstablishPASE(p)
    \/ Send(p) \/ Succeeds(p) \/ Rejected(p) \/ Deadline(p) \/ ConnClosed(p)
    \/ IssueNOC(p) \/ ReconnectPASEAfterAddNOC(p) \/ EstablishCASE(p) \/ SaveNode(p)

Next ==
    \/ \E p \in Procs :
        \/ Flow(p) \/ DeviceHandles(p)
        \/ FailsafeExpires(p) \/ Lose(p) \/ LinkDrops(p) \/ Kill(p)
    \/ Terminated

Spec == Init /\ [][Next]_vars

(* The flow is one goroutine that the runtime schedules, a running deadline
   fires; the device handles what reaches it. *)
FairSpec == Spec /\ \A p \in Procs : WF_vars(Flow(p)) /\ WF_vars(DeviceHandles(p))
-----------------------------------------------------------------------------
(* Properties *)

(* When the command reports success, and whenever a node is in the store,
   that device has committed: it has answered CommissioningComplete within
   its failsafe, holds a certificate for exactly that node ID and is on the
   network. This has to survive calls that were given up and are handled
   later, a failsafe that expires at any step, and AddNOC and ConnectNetwork
   being passed over without an answer (flow.go 393-411, 507-519).
   When the command reports an error although the device has committed, it
   was the call of CommissioningComplete whose answer did not come: nothing
   that goes wrong after the commit makes the flow fail (flow.go 591-608). *)
OutcomeHonest ==
    /\ \A p \in Procs : result[p] = "ok" =>
           dev[p].done /\ dev[p].noc = id[p] /\ Online(dev[p])
    /\ \A i \in DOMAIN nodes : dev[nodes[i]].done /\ dev[nodes[i]].noc = i
    /\ \A p \in Procs : result[p] = "failed" /\ dev[p].done => at[p] = "complete"

(* Every commission returns, unless some process waits for ever for the
   answer to a read or to a TimedRequest, the calls without a deadline. *)
CommissionEnds ==
    \A p \in Procs : \/ <>(pc[p] = "done")
                     \/ \E q \in Procs : <>[](pc[q] \in Reads \cup Timed)

-----------------------------------------------------------------------------
(* What the comments say and the code does not do *)

(* nextNodeID "returns the next available node ID" (commission.go 338): two
   devices are never commissioned under one node ID. The ID is chosen before
   the store is opened for the rest of the command, and a node that was not
   saved leaves its ID free. *)
NodeIDsUnique ==
    \A p, q \in Procs : dev[p].done /\ dev[q].done /\ p # q => dev[p].noc # dev[q].noc

(* "never block indefinitely waiting for a device that has disconnected or
   crashed" (client.go 249-250), of an invoke with its TimedRequest leg. *)
InvokeReturns ==
    \A p \in Procs : pc[p] \in Timed \cup Invokes ~> pc[p] \notin Timed \cup Invokes
=============================================================================
