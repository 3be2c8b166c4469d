--------------------------- MODULE ProcessesProof ---------------------------
(***************************************************************************)
(* Proofs about Processes, for any commands run side by side and any       *)
(* number of nodes: the lock on the database file decides who serves the   *)
(* socket, a decommission is reported only when it happened, and a cache   *)
(* is saved onto the record it was read from.                              *)
(***************************************************************************)
EXTENDS Processes, TLAPS

Labels == {"idle", "check", "recheck", "ask", "answered", "open", "held", "silent",
           "force", "wait", "done"}
Outs == {"none", "decommissioned", "local only", "stopped", "started", "not ready",
         "ok", "error", "no daemon", "already running", "interrupted"}
Lives == {"none", "opening", "starting", "up", "stopping", "leaving", "gone"}
Devs == [ours : BOOLEAN, label : Names, at : Addrs]

TypeOK ==
    /\ store \in [Nodes -> Recs \cup {Absent}]
    /\ sock \in Daemons \cup {None}
    /\ dm \in [Daemons -> Lives]
    /\ dev \in [Nodes -> Devs]
    /\ pc \in [Procs -> Labels]
    /\ cmd \in [Procs -> DOMAIN Program]
    /\ node \in [Procs -> Nodes]
    /\ op \in [Procs -> Nat]
    /\ \A p \in Procs : op[p] \in 1 .. Len(Program[cmd[p]])
    /\ todo \in [Procs -> SUBSET Nodes]
    /\ snap \in [Procs -> Recs \cup {Absent}]
    /\ res \in [Procs -> {"none", "ok", "fail", "nothing"}]
    /\ out \in [Procs -> Outs]

(* The lock: a daemon has it from opening the store until its process has
   ended, a command while it holds the store. *)
LockInv ==
    /\ \A d \in Daemons : dm[d] \in {"starting", "up", "stopping", "leaving"} => lock = <<"daemon", d>>
    /\ \A p \in Procs : pc[p] \in {"held", "silent"} => lock = <<"cli", p>>
    /\ \A d \in Daemons : dm[d] = "up" => sock = d

(* The steps of an operation that has been sent or is about to be. *)
Under == {"ask", "answered", "recheck", "open", "held", "silent"}

(* Which steps a command can be at. *)
StepInv(p) ==
    /\ pc[p] = "force" => cmd[p] = "decommission"
    /\ Op(p) \in {"confirm", "spawn"} => pc[p] \notin Under
    /\ pc[p] = "wait" => Op(p) = "spawn"
    /\ out[p] = "decommissioned" => cmd[p] = "decommission"
    /\ pc[p] = "answered" => res[p] # "none" /\ (res[p] = "nothing" => Op(p) = "sweep")

(* A record is deleted with the user's consent or when the device has gone. *)
Excused(p) == <<p, node[p]>> \in waived \/ ~dev[node[p]].ours

DeleteInv(p) ==
    /\ cmd[p] = "decommission" /\ op[p] = 3 /\ pc[p] = "answered" /\ res[p] = "ok" =>
         ~dev[node[p]].ours
    /\ cmd[p] = "decommission" /\ op[p] = 4 => Excused(p)
    /\ cmd[p] = "remove" /\ pc[p] # "idle" => Excused(p)
    /\ cmd[p] = "reset" /\ op[p] = 3 => {p} \X todo[p] \subseteq waived
    /\ cmd[p] = "reset" /\ op[p] = 3 /\ pc[p] \in Under => Excused(p)
    /\ out[p] = "decommissioned" => ~dev[node[p]].ours

(* A command that works on a copy of the record has loaded it. *)
Loading == {"rename", "renameReset", "discover", "tree"}

(* What the command has read again is what is in the store, but for lists
   it has read from the device. *)
Current(p) ==
    /\ store[node[p]] \in Recs /\ snap[p] \in Recs
    /\ snap[p].addr = store[node[p]].addr
    /\ store[node[p]].attrs # "none" => snap[p].attrs # "none"

CopyInv(p) ==
    /\ cmd[p] \in Loading /\ (op[p] # 1 \/ (pc[p] = "answered" /\ res[p] = "ok")) =>
         snap[p] \in Recs
    /\ /\ cmd[p] \in {"discover", "tree"} /\ p \notin dirty
       /\ Op(p) = "save" \/ (Op(p) = "reload" /\ pc[p] = "answered" /\ res[p] = "ok")
       => Current(p)

RecordInv ==
    \A n \in Nodes : (dev[n].ours /\ store[n] = Absent) => \E p \in Procs : <<p, n>> \in waived

CmdInv(p) == StepInv(p) /\ DeleteInv(p) /\ CopyInv(p)

IndInv == TypeOK /\ LockInv /\ RecordInv /\ \A p \in Procs : CmdInv(p)

-----------------------------------------------------------------------------
USE ProcessesAssumption

(* What the programs of the commands look like, as far as it matters. *)
LEMMA ProgramTable ==
    ASSUME NEW c \in DOMAIN Program
    PROVE  /\ Len(Program[c]) \in Nat
           /\ c = "decommission" => /\ Len(Program[c]) = 4 /\ Program[c][1] = "label"
                                    /\ Program[c][2] = "readIndex"
                                    /\ Program[c][3] = "removeFabric" /\ Program[c][4] = "delete"
           /\ c = "remove" => Len(Program[c]) = 2 /\ Program[c][1] = "label" /\ Program[c][2] = "delete"
           /\ c = "reset" => /\ Len(Program[c]) = 3 /\ Program[c][1] = "list"
                             /\ Program[c][2] = "confirm" /\ Program[c][3] = "delete"
           /\ Len(Program[c]) >= 1
           /\ c \in Loading => Program[c][1] = "load"
           /\ \A i \in 1 .. Len(Program[c]) :
                /\ Program[c][i] = "delete" => c \in {"decommission", "remove", "reset"}
                /\ Program[c][i] \in {"readIndex", "removeFabric"} => c = "decommission"
                /\ Program[c][i] \in {"save", "sweep", "reload"} => c \in Loading /\ i # 1
                /\ Program[c][i] \in {"list", "confirm"} => c = "reset"
                /\ Program[c][i] = "spawn" => i = 1 /\ Len(Program[c]) = 1
                /\ c \in {"discover", "tree"} /\ Program[c][i] = "save" => Program[c][i - 1] = "reload"
                /\ c \in {"discover", "tree"} /\ Program[c][i] = "reload" => i # Len(Program[c])
<1>. USE DEF Program, Loading
<1>0. c \in {"decommission", "remove", "reset", "ls", "info", "rename", "renameReset", "discover",
             "tree", "openWindow", "operate", "subscribe", "start", "stop", "status"}
  OBVIOUS
<1>1. CASE c = "decommission"
  BY <1>1 DEF RunDecommission
<1>2. CASE c = "remove"
  BY <1>2 DEF FabricRemove
<1>3. CASE c = "reset"
  BY <1>3 DEF FabricReset
<1>4. CASE c = "ls"
  BY <1>4 DEF FabricLs
<1>5. CASE c = "info"
  BY <1>5 DEF FabricInfo
<1>6. CASE c = "rename"
  BY <1>6 DEF RunRename
<1>7. CASE c = "renameReset"
  BY <1>7 DEF RenameReset
<1>8. CASE c = "discover"
  BY <1>8 DEF RunClusterDiscover
<1>9. CASE c = "tree"
  BY <1>9 DEF Tree
<1>10. CASE c = "openWindow"
  BY <1>10 DEF RunOpenWindow
<1>11. CASE c \in {"operate", "subscribe"}
  BY <1>11 DEF RunCloseWindow, RunSubscribe
<1>12. CASE c \in {"start", "stop", "status"}
  BY <1>12 DEF SessionStart, SessionStop, SessionStatus
<1>. QED
  BY <1>0, <1>1, <1>2, <1>3, <1>4, <1>5, <1>6, <1>7, <1>8, <1>9, <1>10, <1>11, <1>12

(* The same of the operation a command is at. *)
LEMMA OpTable ==
    ASSUME TypeOK, NEW p \in Procs
    PROVE  /\ op[p] \in Nat /\ op[p] >= 1 /\ op[p] <= Len(Program[cmd[p]])
           /\ Len(Program[cmd[p]]) \in Nat
           /\ cmd[p] = "decommission" =>
                /\ op[p] = 1 => Op(p) = "label"
                /\ op[p] = 2 => Op(p) = "readIndex"
                /\ op[p] = 3 <=> Op(p) = "removeFabric"
                /\ op[p] = 4 <=> Op(p) = "delete"
                /\ Len(Program[cmd[p]]) = 4
           /\ cmd[p] = "remove" => (op[p] = 2 <=> Op(p) = "delete") /\ (op[p] = 1 <=> Op(p) = "label")
           /\ cmd[p] = "reset" => /\ op[p] = 1 <=> Op(p) = "list"
                                  /\ op[p] = 2 <=> Op(p) = "confirm"
                                  /\ op[p] = 3 <=> Op(p) = "delete"
                                  /\ Len(Program[cmd[p]]) = 3
           /\ cmd[p] \in Loading /\ op[p] = 1 => Op(p) = "load"
           /\ Op(p) = "delete" => cmd[p] \in {"decommission", "remove", "reset"}
           /\ Op(p) \in {"readIndex", "removeFabric"} => cmd[p] = "decommission"
           /\ Op(p) \in {"save", "sweep", "reload"} => cmd[p] \in Loading /\ op[p] # 1
           /\ Op(p) \in {"list", "confirm"} => cmd[p] = "reset"
           /\ Op(p) = "spawn" => op[p] = Len(Program[cmd[p]]) /\ op[p] = 1
           /\ cmd[p] \in {"discover", "tree"} /\ Op(p) = "save" => Program[cmd[p]][op[p] - 1] = "reload"
           /\ cmd[p] \in {"discover", "tree"} /\ Op(p) = "reload" => op[p] # Len(Program[cmd[p]])
<1>1. cmd[p] \in DOMAIN Program /\ op[p] \in Nat /\ op[p] \in 1 .. Len(Program[cmd[p]])
  BY DEF TypeOK
<1>2. Len(Program[cmd[p]]) \in Nat
  BY <1>1, ProgramTable
<1>3. op[p] >= 1 /\ op[p] <= Len(Program[cmd[p]])
  BY <1>1, <1>2
<1>. DEFINE c == cmd[p]  i == op[p]
<1>4. c = "decommission" => /\ i = 1 \/ i = 2 \/ i = 3 \/ i = 4
                            /\ Len(Program[c]) = 4 /\ Program[c][1] = "label"
                            /\ Program[c][2] = "readIndex"
                            /\ Program[c][3] = "removeFabric" /\ Program[c][4] = "delete"
  BY <1>1, <1>3, ProgramTable
<1>5. c = "remove" => (i = 1 \/ i = 2) /\ Program[c][1] = "label" /\ Program[c][2] = "delete"
  BY <1>1, <1>3, ProgramTable
<1>6. c = "reset" => /\ i = 1 \/ i = 2 \/ i = 3
                     /\ Len(Program[c]) = 3 /\ Program[c][1] = "list"
                     /\ Program[c][2] = "confirm" /\ Program[c][3] = "delete"
  BY <1>1, <1>3, ProgramTable
<1>7. /\ Op(p) = "delete" => c \in {"decommission", "remove", "reset"}
      /\ Op(p) \in {"readIndex", "removeFabric"} => c = "decommission"
      /\ Op(p) \in {"save", "sweep", "reload"} => c \in Loading /\ i # 1
      /\ Op(p) \in {"list", "confirm"} => c = "reset"
      /\ Op(p) = "spawn" => i = 1 /\ Len(Program[c]) = 1
      /\ c \in {"discover", "tree"} /\ Op(p) = "save" => Program[c][i - 1] = "reload"
      /\ c \in {"discover", "tree"} /\ Op(p) = "reload" => i # Len(Program[c])
  BY <1>1, ProgramTable DEF Op
<1>8. c \in Loading /\ i = 1 => Op(p) = "load"
  BY <1>1, ProgramTable DEF Op
<1>9. /\ c = "decommission" =>
          /\ i = 1 => Op(p) = "label"
          /\ i = 2 => Op(p) = "readIndex"
          /\ i = 3 <=> Op(p) = "removeFabric"
          /\ i = 4 <=> Op(p) = "delete"
      /\ c = "remove" => (i = 2 <=> Op(p) = "delete") /\ (i = 1 <=> Op(p) = "label")
      /\ c = "reset" => /\ i = 1 <=> Op(p) = "list"
                        /\ i = 2 <=> Op(p) = "confirm"
                        /\ i = 3 <=> Op(p) = "delete"
  BY <1>4, <1>5, <1>6 DEF Op
<1>. QED
  BY <1>1, <1>2, <1>3, <1>4, <1>6, <1>7, <1>8, <1>9

(* How a command can go on after an operation with result r: it ends, goes
   on with its next operation, asks the user, or takes the next node. *)
Ends(p, r) ==
    \E o \in Outs :
      /\ pc' = [pc EXCEPT ![p] = "done"] /\ out' = [out EXCEPT ![p] = o]
      /\ op' = op /\ todo' = todo
      /\ o = "decommissioned" =>
           cmd[p] = "decommission" /\ op[p] = 4 /\ <<p, node[p]>> \notin waived

Advances(p, r) ==
    /\ pc' = [pc EXCEPT ![p] = "check"] /\ op' = [op EXCEPT ![p] = @ + 1]
    /\ op[p] < Len(Program[cmd[p]])
    /\ out' = out /\ todo' = todo
    /\ r \notin {"fail", "nothing"} \/ Op(p) \in Tolerated

AsksUser(p) ==
    /\ pc' = [pc EXCEPT ![p] = "force"] /\ cmd[p] = "decommission"
    /\ op' = op /\ out' = out /\ todo' = todo

NextOfReset(p) ==
    /\ pc' = [pc EXCEPT ![p] = "check"] /\ cmd[p] = "reset"
    /\ op' = op /\ out' = out /\ todo' = [todo EXCEPT ![p] = @ \ {node[p]}]

LEMMA SuccessTold ==
    ASSUME TypeOK, NEW p \in Procs, NEW r, op[p] = Len(Program[cmd[p]]), Next1(p), todo' = todo
    PROVE  Ends(p, r)
<1>1. /\ pc' = [pc EXCEPT ![p] = "done"] /\ out' = [out EXCEPT ![p] = Success(p)]
      /\ op' = op
  BY DEF Next1, End, Go
<1>2. cmd[p] = "decommission" => op[p] = 4
  BY OpTable
<1>3. /\ Success(p) \in Outs
      /\ Success(p) = "decommissioned" => cmd[p] = "decommission" /\ <<p, node[p]>> \notin waived
  <2>1. CASE cmd[p] = "decommission" /\ <<p, node[p]>> \in waived
    BY <2>1 DEF Success, Outs
  <2>5. CASE cmd[p] = "decommission" /\ <<p, node[p]>> \notin waived
    BY <2>5 DEF Success, Outs
  <2>2. CASE cmd[p] = "stop"
    BY <2>2 DEF Success, Outs
  <2>3. CASE cmd[p] = "start"
    BY <2>3 DEF Success, Outs
  <2>4. CASE cmd[p] \notin {"decommission", "stop", "start"}
    BY <2>4 DEF Success, Outs
  <2>. QED
    BY <2>1, <2>2, <2>3, <2>4, <2>5
<1>. QED
  BY <1>1, <1>2, <1>3 DEF Ends

LEMMA ContinueCases ==
    ASSUME TypeOK, NEW p \in Procs, NEW r, Continue(p, r)
    PROVE  Ends(p, r) \/ Advances(p, r) \/ AsksUser(p) \/ NextOfReset(p)
<1>t. op[p] <= Len(Program[cmd[p]]) /\ op[p] \in Nat /\ Len(Program[cmd[p]]) \in Nat
  BY OpTable
<1>n. ASSUME Next1(p), todo' = todo, r \notin {"fail", "nothing"} \/ Op(p) \in Tolerated
      PROVE  Ends(p, r) \/ Advances(p, r)
  <2>1. CASE op[p] = Len(Program[cmd[p]])
    BY <1>n, <2>1, SuccessTold
  <2>2. CASE op[p] # Len(Program[cmd[p]])
    BY <1>n, <1>t, <2>2 DEF Next1, Go, Advances
  <2>. QED
    BY <2>1, <2>2
<1>1. CASE Op(p) \in {"readIndex", "removeFabric"}
  <2>0. cmd[p] = "decommission"
    BY <1>1, OpTable
  <2>1. CASE r = "ok"
    BY <1>1, <1>n, <2>1 DEF Continue, AfterDevice
  <2>2. CASE r # "ok"
    BY <1>1, <2>0, <2>2 DEF Continue, AfterDevice, AsksUser, Go
  <2>. QED
    BY <2>1, <2>2
<1>2. CASE Op(p) \notin {"readIndex", "removeFabric"}
  <2>1. CASE r = "fail" /\ Op(p) \notin Tolerated
    BY <1>2, <2>1 DEF Continue, End, Go, Ends, Outs
  <2>2. CASE ~(r = "fail" /\ Op(p) \notin Tolerated) /\ r = "nothing"
    BY <1>2, <2>2 DEF Continue, End, Go, Ends, Outs
  <2>3. CASE /\ ~(r = "fail" /\ Op(p) \notin Tolerated) /\ r # "nothing"
             /\ cmd[p] = "reset" /\ Op(p) = "delete" /\ todo[p] # {node[p]}
    BY <1>2, <2>3 DEF Continue, Go, NextOfReset
  <2>4. CASE /\ ~(r = "fail" /\ Op(p) \notin Tolerated) /\ r # "nothing"
             /\ ~(cmd[p] = "reset" /\ Op(p) = "delete" /\ todo[p] # {node[p]})
    <3>1. Next1(p) /\ todo' = todo
      BY <1>2, <2>4 DEF Continue
    <3>. QED
      BY <1>n, <2>4, <3>1
  <2>. QED
    BY <2>1, <2>2, <2>3, <2>4
<1>. QED
  BY <1>1, <1>2

-----------------------------------------------------------------------------
(* What an operation may do to the store, the device and the copy. *)
AnswerOK(p, a) ==
    /\ a.store \in [Nodes -> Recs \cup {Absent}] /\ a.dev \in [Nodes -> Devs]
    /\ a.snap \in Recs \cup {Absent} /\ a.todo \in SUBSET Nodes
    /\ a.res \in {"ok", "fail", "nothing"}
    /\ \A n \in Nodes \ {node[p]} : a.store[n] = store[n] /\ a.dev[n] = dev[n]
    /\ a.dev[node[p]].ours => dev[node[p]].ours
    /\ a.store[node[p]] = Absent => store[node[p]] = Absent \/ Op(p) = "delete"
    /\ Op(p) = "removeFabric" /\ a.res = "ok" => ~a.dev[node[p]].ours
    /\ a.res = "nothing" => Op(p) = "sweep"
    /\ Op(p) # "list" => a.todo = todo[p]
    /\ cmd[p] \in Loading /\ (op[p] # 1 \/ a.res = "ok") => a.snap \in Recs
    /\ Op(p) \in {"load", "reload"} => a.store = store
    /\ Op(p) = "reload" /\ a.res = "ok" => store[node[p]] \in Recs /\ a.snap = ApplyAttributeList(p)
    /\ Op(p) = "save" /\ cmd[p] \in {"discover", "tree"} => a.store[node[p]] = snap[p] /\ a.snap = snap[p]

LEMMA AnswerFields ==
    ASSUME NEW s, NEW d, NEW k, NEW t, NEW r
    PROVE  /\ Answer(s, d, k, t, r).store = s /\ Answer(s, d, k, t, r).dev = d
           /\ Answer(s, d, k, t, r).snap = k /\ Answer(s, d, k, t, r).todo = t
           /\ Answer(s, d, k, t, r).res = r
BY DEF Answer

LEMMA DeviceFacts ==
    ASSUME TypeOK, NEW p \in Procs, CopyInv(p), Op(p) \notin {"list", "load", "reload", "delete", "save"},
           NEW s \in [Nodes -> Recs \cup {Absent}],
           \A n \in Nodes \ {node[p]} : s[n] = store[n],
           s[node[p]] = Absent => store[node[p]] = Absent,
           NEW a, \/ a \in DeviceAnswers(p, s)
                  \/ a = Failed(p, s, dev)
    PROVE  AnswerOK(p, a)
<1>. DEFINE n == node[p]
<1>1. /\ n \in Nodes /\ dev \in [Nodes -> Devs] /\ snap[p] \in Recs \cup {Absent}
      /\ todo[p] \in SUBSET Nodes /\ dev[n] \in Devs
  BY DEF TypeOK
<1>2. /\ Op(p) \notin {"load", "reload", "save", "delete", "list"}
      /\ cmd[p] \in Loading => op[p] # 1 /\ snap[p] \in Recs
      /\ Op(p) = "sweep" => snap[p] \in Recs
  BY OpTable DEF CopyInv
<1>3. ASSUME NEW d \in {dev, [dev EXCEPT ![n].ours = FALSE], [dev EXCEPT ![n].label = "new"]}
      PROVE  /\ d \in [Nodes -> Devs] /\ \A m \in Nodes \ {n} : d[m] = dev[m]
             /\ d[n].ours => dev[n].ours
  <2>1. CASE d = dev
    BY <1>1, <2>1
  <2>2. CASE d = [dev EXCEPT ![n].ours = FALSE]
    <3>1. [dev[n] EXCEPT !.ours = FALSE] \in Devs /\ ~[dev[n] EXCEPT !.ours = FALSE].ours
      BY <1>1 DEF Devs
    <3>. QED
      BY <1>1, <2>2, <3>1
  <2>3. CASE d = [dev EXCEPT ![n].label = "new"]
    <3>1. [dev[n] EXCEPT !.label = "new"] \in Devs /\ [dev[n] EXCEPT !.label = "new"].ours = dev[n].ours
      BY <1>1 DEF Devs, Names
    <3>. QED
      BY <1>1, <2>3, <3>1
  <2>. QED
    BY <1>3, <2>1, <2>2, <2>3
<1>4. ASSUME NEW d \in {dev, [dev EXCEPT ![n].ours = FALSE], [dev EXCEPT ![n].label = "new"]},
             NEW k \in Recs \cup {Absent}, k = snap[p] \/ k \in Recs, NEW r \in {"ok", "fail", "nothing"},
             Op(p) = "removeFabric" /\ r = "ok" => ~d[n].ours, r = "nothing" => Op(p) = "sweep",
             a = Answer(s, d, k, todo[p], r)
      PROVE  AnswerOK(p, a)
  <2>1. a.store = s /\ a.dev = d /\ a.snap = k /\ a.todo = todo[p] /\ a.res = r
    BY <1>4, AnswerFields
  <2>2. /\ a.store \in [Nodes -> Recs \cup {Absent}] /\ a.dev \in [Nodes -> Devs]
        /\ a.snap \in Recs \cup {Absent} /\ a.todo \in SUBSET Nodes
        /\ a.res \in {"ok", "fail", "nothing"}
        /\ \A m \in Nodes \ {n} : a.store[m] = store[m] /\ a.dev[m] = dev[m]
        /\ a.dev[n].ours => dev[n].ours
    <3>1. /\ d \in [Nodes -> Devs] /\ \A m \in Nodes \ {n} : d[m] = dev[m]
          /\ d[n].ours => dev[n].ours
      BY <1>3
    <3>. QED
      BY <1>1, <2>1, <3>1
  <2>3. /\ a.store[n] = Absent => store[n] = Absent
        /\ Op(p) = "removeFabric" /\ a.res = "ok" => ~a.dev[n].ours
        /\ a.res = "nothing" => Op(p) = "sweep"
        /\ cmd[p] \in Loading => a.snap \in Recs
    BY <1>2, <1>4, <2>1
  <2>. QED
    BY <1>2, <2>1, <2>2, <2>3 DEF AnswerOK
<1>5. CASE a = Failed(p, s, dev)
  BY <1>1, <1>4, <1>5 DEF Failed
<1>6. CASE Op(p) = "readIndex" /\ a \in DeviceAnswers(p, s)
  BY <1>1, <1>4, <1>6 DEF DeviceAnswers, ReadCurrentFabricIndex, Failed, Done
<1>7. CASE Op(p) = "removeFabric" /\ a \in DeviceAnswers(p, s)
  <2>1. ~[dev EXCEPT ![n].ours = FALSE][n].ours
    BY <1>1 DEF Devs
  <2>. QED
    BY <1>1, <1>4, <1>7, <2>1 DEF DeviceAnswers, InvokeRemoveFabric, ParseNOCResponse, Failed, Done
<1>8. CASE Op(p) = "writeLabel" /\ a \in DeviceAnswers(p, s)
  BY <1>1, <1>4, <1>8 DEF DeviceAnswers, WriteNodeLabel, Failed, Done
<1>9. CASE Op(p) = "sweep" /\ a \in DeviceAnswers(p, s)
  <2>1. \A l \in {"none", "fresh"} : [snap[p] EXCEPT !.attrs = l] \in Recs
    BY <1>2, <1>9 DEF Recs, Lists
  <2>2. CASE a = Answer(s, dev, snap[p], todo[p], "nothing")
    BY <1>1, <1>4, <1>9, <2>2
  <2>3. CASE \E l \in {"none", "fresh"} : a = Answer(s, dev, [snap[p] EXCEPT !.attrs = l], todo[p], "ok")
    BY <1>1, <1>4, <1>9, <2>1, <2>3
  <2>. QED
    BY <1>9, <2>2, <2>3 DEF DeviceAnswers, SweepAttributeLists
<1>10. CASE Op(p) \notin {"readIndex", "removeFabric", "writeLabel", "sweep"} /\ a \in DeviceAnswers(p, s)
  BY <1>1, <1>4, <1>10 DEF DeviceAnswers, InvokeAdminCommissioning, Failed, Done
<1>. QED
  BY <1>5, <1>6, <1>7, <1>8, <1>9, <1>10
LEMMA RecFacts ==
    ASSUME NEW r \in Recs
    PROVE  /\ \A x \in Addrs : [r EXCEPT !.addr = x] \in Recs
           /\ \A x \in Lists : [r EXCEPT !.attrs = x] \in Recs /\ [r EXCEPT !.attrs = x].addr = r.addr
                               /\ [r EXCEPT !.attrs = x].attrs = x
           /\ [r EXCEPT !.name = "new"] \in Recs
           /\ r.attrs \in Lists /\ r # Absent
BY DEF Recs, Names

LEMMA AnswerFacts ==
    ASSUME TypeOK, NEW p \in Procs, CopyInv(p), NEW a, a \in Operates(p) \cup Cached(p)
    PROVE  AnswerOK(p, a)
<1>. DEFINE n == node[p]
<1>t. /\ n \in Nodes /\ dev \in [Nodes -> Devs] /\ snap[p] \in Recs \cup {Absent}
      /\ todo[p] \in SUBSET Nodes /\ dev[n] \in Devs
      /\ store \in [Nodes -> Recs \cup {Absent}] /\ store[n] \in Recs \cup {Absent}
  BY DEF TypeOK
<1>l. cmd[p] \in Loading => (op[p] = 1 => Op(p) = "load") /\ (op[p] # 1 => snap[p] \in Recs)
  BY OpTable DEF CopyInv
<1>m. Op(p) \in {"save", "reload"} => cmd[p] \in Loading /\ op[p] # 1 /\ snap[p] \in Recs
  BY <1>l, OpTable
<1>1. CASE Op(p) \in {"list", "label"}
  <2>1. Op(p) \notin DeviceOps \cup DaemonOps
    BY <1>1 DEF DeviceOps, DaemonOps
  <2>2. PICK t \in SUBSET Nodes : /\ a = Answer(store, dev, snap[p], t, "ok")
                                  /\ Op(p) # "list" => t = todo[p]
    <3>1. CASE Op(p) = "label"
      <4>1. a = Answer(store, dev, snap[p], todo[p], "ok")
        BY <2>1, <3>1 DEF Operates, Cached, ListNodes
      <4>. QED
        BY <1>t, <4>1
    <3>2. CASE Op(p) = "list"
      <4>1. a = Answer(store, dev, snap[p], {k \in Nodes : store[k] # Absent}, "ok")
        BY <2>1, <3>2 DEF Operates, Cached, ListNodes
      <4>. QED
        BY <3>2, <4>1
    <3>. QED
      BY <1>1, <3>1, <3>2
  <2>3. a.store = store /\ a.dev = dev /\ a.snap = snap[p] /\ a.todo = t /\ a.res = "ok"
    BY <2>2, AnswerFields
  <2>. QED
    BY <1>1, <1>t, <1>l, <2>2, <2>3 DEF AnswerOK
<1>2. CASE Op(p) \in {"load", "reload"}
  <2>0. Op(p) \notin DeviceOps \cup DaemonOps
    BY <1>2 DEF DeviceOps, DaemonOps
  <2>1. CASE Op(p) = "load" /\ cmd[p] = "ls"
    <3>1. a = Answer(store, dev, Absent, todo[p], "ok")
      BY <2>0, <2>1 DEF Operates, Cached, ListNodes
    <3>2. a.store = store /\ a.dev = dev /\ a.snap = Absent /\ a.todo = todo[p] /\ a.res = "ok"
      BY <3>1, AnswerFields
    <3>. QED
      BY <2>1, <1>t, <3>2 DEF AnswerOK, Loading
  <2>2. CASE store[n] = Absent /\ ~(Op(p) = "load" /\ cmd[p] = "ls")
    <3>1. a = Answer(store, dev, snap[p], todo[p], "fail")
      BY <1>2, <2>0, <2>2 DEF Operates, Cached, ListNodes
    <3>2. a.store = store /\ a.dev = dev /\ a.snap = snap[p] /\ a.todo = todo[p] /\ a.res = "fail"
      BY <3>1, AnswerFields
    <3>. QED
      BY <1>2, <2>2, <1>l, <1>t, <3>2 DEF AnswerOK
  <2>3. CASE store[n] # Absent /\ Op(p) = "load" /\ cmd[p] # "ls"
    <3>1. a = Answer(store, dev, store[n], todo[p], "ok")
      BY <2>0, <2>3 DEF Operates, Cached, ListNodes
    <3>2. a.store = store /\ a.dev = dev /\ a.snap = store[n] /\ a.todo = todo[p] /\ a.res = "ok"
      BY <3>1, AnswerFields
    <3>. QED
      BY <2>3, <1>t, <3>2 DEF AnswerOK
  <2>4. CASE store[n] # Absent /\ Op(p) = "reload"
    <3>1. a = Answer(store, dev, ApplyAttributeList(p), todo[p], "ok")
      BY <2>0, <2>4 DEF Operates, Cached, ListNodes
    <3>2. /\ a.store = store /\ a.dev = dev /\ a.snap = ApplyAttributeList(p) /\ a.todo = todo[p]
          /\ a.res = "ok"
      BY <3>1, AnswerFields
    <3>3. ApplyAttributeList(p) \in Recs
      BY <1>m, <1>t, <2>4, RecFacts DEF ApplyAttributeList
    <3>. QED
      BY <2>4, <1>t, <3>2, <3>3 DEF AnswerOK
  <2>. QED
    BY <1>2, <2>1, <2>2, <2>3, <2>4
<1>3. CASE Op(p) = "delete"
  <2>0. Op(p) \notin DeviceOps \cup DaemonOps
    BY <1>3 DEF DeviceOps, DaemonOps
  <2>1. PICK s \in [Nodes -> Recs \cup {Absent}], r \in {"ok", "fail"} :
          /\ a = Answer(s, dev, snap[p], todo[p], r)
          /\ \A k \in Nodes \ {n} : s[k] = store[k]
    <3>1. [store EXCEPT ![n] = Absent] \in [Nodes -> Recs \cup {Absent}]
      BY <1>t
    <3>2. \A k \in Nodes \ {n} : [store EXCEPT ![n] = Absent][k] = store[k]
      BY <1>t
    <3>. QED
      BY <1>3, <1>t, <2>0, <3>1, <3>2 DEF Operates, Cached, DeleteNode
  <2>2. a.store = s /\ a.dev = dev /\ a.snap = snap[p] /\ a.todo = todo[p] /\ a.res = r
    BY <2>1, AnswerFields
  <2>. QED
    BY <1>3, <1>t, <1>l, <2>1, <2>2 DEF AnswerOK
<1>4. CASE Op(p) = "save"
  <2>0. Op(p) \notin DeviceOps \cup DaemonOps
    BY <1>4 DEF DeviceOps, DaemonOps
  <2>1. PICK r \in Recs : /\ a = Answer([store EXCEPT ![n] = r], dev, snap[p], todo[p], "ok")
                          /\ cmd[p] \in {"discover", "tree"} => r = snap[p]
    <3>1. [snap[p] EXCEPT !.name = "new"] \in Recs
      BY <1>4, <1>m, RecFacts
    <3>. QED
      BY <1>4, <1>m, <2>0, <3>1 DEF Operates, Cached, SaveNode
  <2>2. /\ a.store = [store EXCEPT ![n] = r] /\ a.dev = dev /\ a.snap = snap[p]
        /\ a.todo = todo[p] /\ a.res = "ok"
    BY <2>1, AnswerFields
  <2>3. /\ a.store \in [Nodes -> Recs \cup {Absent}] /\ a.store[n] = r /\ r # Absent
        /\ \A k \in Nodes \ {n} : a.store[k] = store[k]
    BY <1>t, <2>2, RecFacts
  <2>. QED
    BY <1>4, <1>m, <1>t, <2>1, <2>2, <2>3 DEF AnswerOK
<1>5. CASE Op(p) \in DaemonOps \cup {"fabric"}
  <2>0. Op(p) \notin DeviceOps
    BY <1>5 DEF DeviceOps, DaemonOps
  <2>1. a = Answer(store, dev, snap[p], todo[p], "ok")
    BY <1>5, <2>0 DEF Operates, Cached, Done, DaemonOps
  <2>2. a.store = store /\ a.dev = dev /\ a.snap = snap[p] /\ a.todo = todo[p] /\ a.res = "ok"
    BY <2>1, AnswerFields
  <2>. QED
    BY <1>5, <1>l, <1>t, <2>2 DEF AnswerOK, DaemonOps
<1>6. CASE Op(p) \notin {"list", "label", "load", "reload", "delete", "save", "fabric"} \cup DaemonOps
  <2>1. CASE a \in Cached(p)
    BY <1>6, <1>t, <2>1, DeviceFacts DEF Cached
  <2>2. CASE a \in ConnectToNode(p) /\ store[n] = Absent
    BY <1>6, <1>t, <2>2, DeviceFacts DEF ConnectToNode
  <2>3. CASE a \in ConnectToNode(p) /\ store[n] # Absent
    <3>. DEFINE found == [store EXCEPT ![n].addr = dev[n].at]
    <3>1. [store[n] EXCEPT !.addr = dev[n].at] \in Recs
      <4>1. dev[n].at \in Addrs
        BY <1>t DEF Devs
      <4>. QED
        BY <1>t, <2>3, <4>1, RecFacts
    <3>2. /\ found \in [Nodes -> Recs \cup {Absent}] /\ found[n] \in Recs
          /\ \A k \in Nodes \ {n} : found[k] = store[k]
      BY <1>t, <3>1
    <3>3. \/ a = Failed(p, store, dev) \/ a = Failed(p, found, dev)
          \/ a \in DeviceAnswers(p, found)
      BY <2>3 DEF ConnectToNode
    <3>4. found[n] # Absent
      BY <3>2, RecFacts
    <3>. HIDE DEF found
    <3>. QED
      BY <1>6, <1>t, <3>2, <3>3, <3>4, DeviceFacts
  <2>. QED
    BY <1>6, <2>1, <2>2, <2>3 DEF Operates
<1>. QED
  BY <1>1, <1>2, <1>3, <1>4, <1>5, <1>6
-----------------------------------------------------------------------------
(* A step of another process leaves a command where it is; the user takes
   no consent back and no device our fabric; and who writes the record the
   command works on is noticed. *)
Same(q) ==
    /\ pc'[q] = pc[q] /\ cmd'[q] = cmd[q] /\ node'[q] = node[q] /\ op'[q] = op[q]
    /\ todo'[q] = todo[q] /\ snap'[q] = snap[q] /\ res'[q] = res[q] /\ out'[q] = out[q]

Monotone ==
    /\ waived \subseteq waived'
    /\ \A n \in Nodes : dev'[n].ours => dev[n].ours

Noticed(q) ==
    \/ q \in dirty'
    \/ q \notin dirty /\ store'[node[q]] = store[node[q]]

LEMMA SameInv ==
    ASSUME NEW q \in Procs, node[q] \in Nodes, Same(q), Monotone, Noticed(q), CmdInv(q)
    PROVE  CmdInv(q)'
<1>0. Op(q)' = Op(q)
  BY DEF Same, Op
<1>1. StepInv(q)'
  BY <1>0 DEF CmdInv, StepInv, Same
<1>2. Excused(q) => Excused(q)'
  BY DEF Excused, Same, Monotone
<1>3. DeleteInv(q)'
  <2>1. cmd[q] = "reset" /\ op[q] = 3 => {q} \X todo[q] \subseteq waived'
    BY DEF CmdInv, DeleteInv, Monotone
  <2>. QED
    BY <1>2, <2>1 DEF CmdInv, DeleteInv, Same, Monotone
<1>4. CopyInv(q)'
  BY <1>0 DEF CmdInv, CopyInv, Same, Noticed, Current
<1>. QED
  BY <1>1, <1>3, <1>4 DEF CmdInv

(* A command that goes on from an operation: its result tells what the next
   one relies on. *)
LEMMA ContinueInv ==
    ASSUME TypeOK, NEW p \in Procs, NEW r, CmdInv(p), Monotone,
           Ends(p, r) \/ Advances(p, r) \/ AsksUser(p) \/ NextOfReset(p),
           pc[p] # "idle", Op(p) # "confirm",
           cmd' = cmd, node' = node, waived' = waived,
           cmd[p] = "decommission" /\ op[p] = 3 /\ r \notin {"fail", "nothing"} => ~dev'[node[p]].ours,
           cmd[p] \in Loading /\ (op[p] # 1 \/ r \notin {"fail", "nothing"}) => snap'[p] \in Recs,
           /\ cmd[p] \in {"discover", "tree"} /\ p \notin dirty'
           /\ Op(p) = "save" \/ (Op(p) = "reload" /\ r \notin {"fail", "nothing"})
           => Current(p)'
    PROVE  CmdInv(p)'
<1>t. /\ node[p] \in Nodes /\ pc \in [Procs -> Labels] /\ op \in [Procs -> Nat] /\ op[p] \in Nat
      /\ todo \in [Procs -> SUBSET Nodes] /\ out \in [Procs -> Outs] /\ cmd[p] \in DOMAIN Program
  BY DEF TypeOK
<1>i. StepInv(p) /\ DeleteInv(p) /\ CopyInv(p)
  BY DEF CmdInv
<1>e. Excused(p) => Excused(p)'
  BY <1>t DEF Excused, Monotone
<1>1. /\ pc'[p] \in {"done", "check", "force"} /\ (pc'[p] = "force" => cmd[p] = "decommission")
      /\ todo'[p] \subseteq todo[p]
      /\ \/ op'[p] = op[p]
         \/ Advances(p, r) /\ op'[p] = op[p] + 1 /\ op[p] < Len(Program[cmd[p]])
      /\ \/ out'[p] = out[p]
         \/ out'[p] = "decommissioned" =>
              cmd[p] = "decommission" /\ op[p] = 4 /\ <<p, node[p]>> \notin waived
  <2>1. CASE Ends(p, r)
    <3>1. PICK o \in Outs :
            /\ pc' = [pc EXCEPT ![p] = "done"] /\ out' = [out EXCEPT ![p] = o]
            /\ op' = op /\ todo' = todo
            /\ o = "decommissioned" =>
                 cmd[p] = "decommission" /\ op[p] = 4 /\ <<p, node[p]>> \notin waived
      BY <2>1 DEF Ends
    <3>2. pc'[p] = "done" /\ out'[p] = o /\ op'[p] = op[p] /\ todo'[p] = todo[p]
      BY <1>t, <3>1
    <3>. QED
      BY <3>1, <3>2
  <2>2. CASE Advances(p, r)
    BY <1>t, <2>2 DEF Advances
  <2>3. CASE AsksUser(p)
    <3>1. /\ pc'[p] = "force" /\ out'[p] = out[p] /\ op'[p] = op[p] /\ todo'[p] = todo[p]
          /\ cmd[p] = "decommission"
      BY <1>t, <2>3 DEF AsksUser
    <3>. QED
      BY <3>1
  <2>4. CASE NextOfReset(p)
    <3>1. /\ pc'[p] = "check" /\ out'[p] = out[p] /\ op'[p] = op[p]
          /\ todo'[p] = todo[p] \ {node[p]}
      BY <1>t, <2>4 DEF NextOfReset
    <3>. QED
      BY <3>1
  <2>. QED
    BY <2>1, <2>2, <2>3, <2>4
<1>2. StepInv(p)'
  BY <1>1, <1>i DEF StepInv, Under
<1>3. DeleteInv(p)'
  <2>1. cmd[p] = "decommission" /\ op'[p] = 4 => Excused(p)'
    <3>1. CASE op[p] = 4
      BY <1>e, <1>i, <3>1 DEF DeleteInv
    <3>2. CASE cmd[p] = "decommission" /\ op[p] = 3 /\ Advances(p, r)
      <4>1. Op(p) \notin Tolerated
        BY <3>2, OpTable DEF Tolerated
      <4>. QED
        BY <3>2, <4>1 DEF Advances, Excused
    <3>. QED
      BY <1>t, <1>1, <3>1, <3>2
  <2>2. cmd[p] = "remove" => Excused(p)'
    BY <1>e, <1>i DEF DeleteInv
  <2>3. cmd[p] = "reset" /\ op'[p] = 3 => {p} \X todo'[p] \subseteq waived'
    <3>1. cmd[p] = "reset" => op[p] # 2
      BY OpTable
    <3>. QED
      BY <1>t, <1>1, <1>i, <3>1 DEF DeleteInv
  <2>4. out'[p] = "decommissioned" => ~dev'[node[p]].ours
    BY <1>t, <1>1, <1>i DEF DeleteInv, Excused, Monotone
  <2>. QED
    BY <1>1, <2>1, <2>2, <2>3, <2>4 DEF DeleteInv, Under
<1>4. CopyInv(p)'
  <2>1. cmd[p] \in Loading /\ op'[p] # 1 => snap'[p] \in Recs
    <3>1. CASE op'[p] = op[p]
      BY <3>1
    <3>2. CASE cmd[p] \in Loading /\ op[p] = 1 /\ Advances(p, r)
      <4>1. Op(p) \notin Tolerated
        BY <3>2, OpTable DEF Tolerated
      <4>. QED
        BY <3>2, <4>1 DEF Advances
    <3>. QED
      BY <1>t, <1>1, <3>1, <3>2
  <2>2. cmd[p] \in {"discover", "tree"} /\ p \notin dirty' /\ Op(p)' = "save" => Current(p)'
    <3>1. CASE op'[p] = op[p]
      BY <3>1 DEF Op
    <3>2. CASE Advances(p, r) /\ op'[p] = op[p] + 1 /\ op[p] < Len(Program[cmd[p]])
      <4>. SUFFICES ASSUME cmd[p] \in {"discover", "tree"}, p \notin dirty', Op(p)' = "save"
                    PROVE  Current(p)'
        OBVIOUS
      <4>1. Program[cmd[p]][op[p] + 1] = "save"
        BY <3>2 DEF Op
      <4>2. op[p] + 1 \in 1 .. Len(Program[cmd[p]]) /\ (op[p] + 1) - 1 = op[p]
        BY <1>t, <3>2, OpTable
      <4>3. Program[cmd[p]][op[p]] = "reload"
        BY <1>t, <4>1, <4>2, ProgramTable
      <4>4. Op(p) = "reload" /\ Op(p) \notin Tolerated
        BY <4>3 DEF Op, Tolerated
      <4>. QED
        BY <3>2, <4>4 DEF Advances
    <3>. QED
      BY <1>1, <3>1, <3>2
  <2>. QED
    BY <1>1, <2>1, <2>2 DEF CopyInv
<1>. QED
  BY <1>2, <1>3, <1>4 DEF CmdInv

LEMMA ContinueType ==
    ASSUME TypeOK, NEW p \in Procs, NEW r,
           Ends(p, r) \/ Advances(p, r) \/ AsksUser(p) \/ NextOfReset(p), cmd' = cmd
    PROVE  /\ pc' \in [Procs -> Labels] /\ op' \in [Procs -> Nat] /\ out' \in [Procs -> Outs]
           /\ \A q \in Procs : op'[q] \in 1 .. Len(Program[cmd'[q]])
           /\ todo' \in [Procs -> SUBSET Nodes]
           /\ pc'[p] \notin {"held", "silent"}
           /\ \A q \in Procs \ {p} : /\ pc'[q] = pc[q] /\ op'[q] = op[q] /\ out'[q] = out[q]
                                     /\ todo'[q] = todo[q]
<1>. USE DEF TypeOK
<1>1. CASE Ends(p, r)
  BY <1>1 DEF Ends, Labels
<1>2. CASE Advances(p, r)
  <2>1. op[p] + 1 \in Nat /\ op[p] + 1 \in 1 .. Len(Program[cmd[p]])
    BY <1>2, OpTable DEF Advances
  <2>2. /\ op' \in [Procs -> Nat] /\ op'[p] = op[p] + 1
        /\ \A q \in Procs \ {p} : op'[q] = op[q]
    BY <1>2, <2>1 DEF Advances
  <2>3. \A q \in Procs : op'[q] \in 1 .. Len(Program[cmd'[q]])
    BY <2>1, <2>2
  <2>4. pc' \in [Procs -> Labels] /\ pc'[p] \notin {"held", "silent"} /\ \A q \in Procs \ {p} : pc'[q] = pc[q]
    BY <1>2 DEF Advances, Labels
  <2>. QED
    BY <1>2, <2>2, <2>3, <2>4 DEF Advances
<1>3. CASE AsksUser(p)
  BY <1>3 DEF AsksUser, Labels
<1>4. CASE NextOfReset(p)
  BY <1>4 DEF NextOfReset, Labels
<1>. QED
  BY <1>1, <1>2, <1>3, <1>4
-----------------------------------------------------------------------------
(* The steps that end an operation without touching the store: an error on
   the way, or the daemon's answer. *)
LEMMA ContinueStep ==
    ASSUME IndInv, NEW p \in Procs, NEW r, Continue(p, r), pc[p] \in Under,
           r = "fail" \/ (pc[p] = "answered" /\ r = res[p]),
           UNCHANGED <<store, lock, sock, dm, dev, cmd, node, snap, res, waived, dirty>>
    PROVE  IndInv'
<1>i. TypeOK /\ LockInv /\ RecordInv /\ \A q \in Procs : CmdInv(q)
  BY DEF IndInv
<1>1. Ends(p, r) \/ Advances(p, r) \/ AsksUser(p) \/ NextOfReset(p)
  BY <1>i, ContinueCases
<1>2. /\ pc' \in [Procs -> Labels] /\ op' \in [Procs -> Nat] /\ out' \in [Procs -> Outs]
      /\ \A q \in Procs : op'[q] \in 1 .. Len(Program[cmd'[q]])
      /\ todo' \in [Procs -> SUBSET Nodes]
      /\ pc'[p] \notin {"held", "silent"}
      /\ \A q \in Procs \ {p} : /\ pc'[q] = pc[q] /\ op'[q] = op[q] /\ out'[q] = out[q]
                                /\ todo'[q] = todo[q]
  BY <1>1, <1>i, ContinueType
<1>3. TypeOK'
  BY <1>2, <1>i DEF TypeOK
<1>4. LockInv'
  BY <1>2, <1>i DEF LockInv
<1>5. RecordInv'
  BY <1>i DEF RecordInv
<1>6. Monotone
  BY DEF Monotone
<1>7. \A q \in Procs \ {p} : CmdInv(q)'
  BY <1>2, <1>6, <1>i, SameInv DEF Same, Noticed, TypeOK
<1>8. CmdInv(p)'
  <2>1. Op(p) # "confirm" /\ pc[p] # "idle"
    BY <1>i DEF CmdInv, StepInv, Under
  <2>2. /\ StepInv(p) /\ DeleteInv(p) /\ CopyInv(p)
        /\ r \notin {"fail", "nothing"} => pc[p] = "answered" /\ res[p] = "ok"
    BY <1>i DEF CmdInv, TypeOK, StepInv
  <2>3. cmd[p] = "decommission" /\ op[p] = 3 /\ r \notin {"fail", "nothing"} => ~dev'[node[p]].ours
    BY <2>2 DEF DeleteInv
  <2>4. cmd[p] \in Loading /\ (op[p] # 1 \/ r \notin {"fail", "nothing"}) => snap'[p] \in Recs
    BY <2>2 DEF CopyInv
  <2>5. /\ cmd[p] \in {"discover", "tree"} /\ p \notin dirty'
        /\ Op(p) = "save" \/ (Op(p) = "reload" /\ r \notin {"fail", "nothing"})
        => Current(p)'
    BY <2>2 DEF CopyInv, Current
  <2>. QED
    BY <1>1, <1>6, <1>i, <2>1, <2>3, <2>4, <2>5, ContinueInv
<1>. QED
  BY <1>3, <1>4, <1>5, <1>7, <1>8 DEF IndInv

(* An operation is performed, by the daemon or by the command itself: what
   that does to everybody else. *)
LEMMA TakeFacts ==
    ASSUME IndInv, NEW p \in Procs, NEW a, AnswerOK(p, a), Take(p, a), pc[p] \in Under,
           cmd' = cmd, node' = node, waived' = waived
    PROVE  /\ store' \in [Nodes -> Recs \cup {Absent}] /\ dev' \in [Nodes -> Devs]
           /\ snap' \in [Procs -> Recs \cup {Absent}] /\ snap'[p] = a.snap
           /\ \A q \in Procs \ {p} : snap'[q] = snap[q] /\ Noticed(q)
           /\ Monotone /\ RecordInv'
           /\ Op(p) = "removeFabric" /\ a.res = "ok" => ~dev'[node[p]].ours
           /\ cmd[p] \in Loading /\ (op[p] # 1 \/ a.res = "ok") => snap'[p] \in Recs
           /\ cmd[p] \in {"discover", "tree"} /\ (Op(p) = "save" \/ (Op(p) = "reload" /\ a.res = "ok"))
              => Current(p)'
<1>i. TypeOK /\ RecordInv /\ CmdInv(p)
  BY DEF IndInv
<1>t. node[p] \in Nodes /\ snap \in [Procs -> Recs \cup {Absent}]
  BY <1>i DEF TypeOK
<1>1. /\ store' = a.store /\ dev' = a.dev /\ snap' = [snap EXCEPT ![p] = a.snap]
  BY DEF Take
<1>2. /\ store' \in [Nodes -> Recs \cup {Absent}] /\ dev' \in [Nodes -> Devs]
      /\ snap' \in [Procs -> Recs \cup {Absent}] /\ snap'[p] = a.snap
      /\ \A q \in Procs \ {p} : snap'[q] = snap[q]
  BY <1>t, <1>1 DEF AnswerOK
<1>3. \A n \in Nodes \ {node[p]} : store'[n] = store[n] /\ dev'[n] = dev[n]
  BY <1>1 DEF AnswerOK
<1>4. Monotone
  BY <1>1, <1>3 DEF Monotone, AnswerOK
<1>5. ASSUME NEW q \in Procs \ {p} PROVE Noticed(q)
  <2>0. node[q] \in Nodes
    BY <1>i DEF TypeOK
  <2>1. CASE a.store = store
    BY <1>1, <2>1 DEF Take, Noticed
  <2>2. CASE a.store # store
    <3>1. dirty' = (dirty \cup {k \in Procs \ {p} : node[k] = node[p]}) \ {p}
      BY <2>2 DEF Take, Overtake
    <3>. QED
      BY <1>3, <2>0, <3>1 DEF Noticed
  <2>. QED
    BY <2>1, <2>2
<1>6. Op(p) = "delete" => Excused(p)
  <2>1. pc[p] # "idle"
    BY DEF Under
  <2>. QED
    BY <1>i, <2>1, OpTable DEF CmdInv, DeleteInv
<1>7. RecordInv'
  <2>. SUFFICES ASSUME NEW n \in Nodes, dev'[n].ours, store'[n] = Absent
                PROVE  \E q \in Procs : <<q, n>> \in waived
    BY DEF RecordInv
  <2>1. CASE n # node[p]
    BY <1>3, <1>i, <2>1 DEF RecordInv
  <2>2. CASE n = node[p] /\ store[n] = Absent
    BY <1>4, <1>i, <2>2 DEF RecordInv, Monotone
  <2>3. CASE n = node[p] /\ store[n] # Absent
    <3>1. Op(p) = "delete"
      BY <1>1, <2>3 DEF AnswerOK
    <3>. QED
      BY <1>4, <1>6, <2>3, <3>1 DEF Excused, Monotone
  <2>. QED
    BY <2>1, <2>2, <2>3
<1>8. cmd[p] \in {"discover", "tree"} /\ (Op(p) = "save" \/ (Op(p) = "reload" /\ a.res = "ok"))
      => Current(p)'
  <2>. SUFFICES ASSUME cmd[p] \in {"discover", "tree"},
                       Op(p) = "save" \/ (Op(p) = "reload" /\ a.res = "ok")
                PROVE  Current(p)'
    OBVIOUS
  <2>1. cmd[p] \in Loading /\ op[p] # 1 /\ snap[p] \in Recs
    BY <1>i, OpTable DEF CmdInv, CopyInv
  <2>2. CASE Op(p) = "save"
    BY <1>1, <1>2, <2>1, <2>2 DEF AnswerOK, Current
  <2>3. CASE Op(p) = "reload" /\ a.res = "ok"
    <3>1. /\ store' = store /\ store[node[p]] \in Recs /\ snap'[p] = ApplyAttributeList(p)
      BY <1>1, <1>2, <2>3 DEF AnswerOK
    <3>2. /\ snap[p].attrs \in Lists /\ store[node[p]].attrs \in Lists
      BY <2>1, <3>1, RecFacts
    <3>3. /\ ApplyAttributeList(p) \in Recs
          /\ ApplyAttributeList(p).addr = store[node[p]].addr
          /\ ApplyAttributeList(p).attrs = IF snap[p].attrs = "none" THEN store[node[p]].attrs ELSE snap[p].attrs
      <4>. DEFINE x == IF snap[p].attrs = "none" THEN store[node[p]].attrs ELSE snap[p].attrs
      <4>1. x \in Lists /\ ApplyAttributeList(p) = [store[node[p]] EXCEPT !.attrs = x]
        BY <3>2 DEF ApplyAttributeList
      <4>. HIDE DEF x
      <4>2. /\ [store[node[p]] EXCEPT !.attrs = x] \in Recs
            /\ [store[node[p]] EXCEPT !.attrs = x].attrs = x
            /\ [store[node[p]] EXCEPT !.attrs = x].addr = store[node[p]].addr
        <5>1. store[node[p]] \in Recs
          BY <3>1
        <5>. QED
          BY <4>1, <5>1, RecFacts
      <4>. QED
        BY <4>1, <4>2 DEF x
    <3>. QED
      BY <3>1, <3>3 DEF Current
  <2>. QED
    BY <2>2, <2>3
<1>9. /\ Op(p) = "removeFabric" /\ a.res = "ok" => ~dev'[node[p]].ours
      /\ cmd[p] \in Loading /\ (op[p] # 1 \/ a.res = "ok") => snap'[p] \in Recs
  BY <1>1, <1>2 DEF AnswerOK
<1>. QED
  BY <1>2, <1>4, <1>5, <1>7, <1>8, <1>9
LEMMA HandleStep ==
    ASSUME IndInv, NEW p \in Procs, Handle(p)
    PROVE  IndInv'
<1>i. TypeOK /\ LockInv /\ RecordInv /\ \A q \in Procs : CmdInv(q)
  BY DEF IndInv
<1>i2. StepInv(p) /\ DeleteInv(p) /\ CopyInv(p)
  BY <1>i DEF CmdInv
<1>1. PICK a \in Operates(p) \cup Cached(p) :
        /\ Take(p, a) /\ todo' = [todo EXCEPT ![p] = a.todo] /\ res' = [res EXCEPT ![p] = a.res]
  BY DEF Handle
<1>2. AnswerOK(p, a)
  BY <1>1, <1>i, <1>i2, AnswerFacts
<1>3. /\ pc[p] = "ask" /\ pc' = [pc EXCEPT ![p] = "answered"]
      /\ UNCHANGED <<lock, sock, dm, cmd, node, op, out, waived>>
  BY DEF Handle, Go
<1>4. /\ store' \in [Nodes -> Recs \cup {Absent}] /\ dev' \in [Nodes -> Devs]
      /\ snap' \in [Procs -> Recs \cup {Absent}]
      /\ \A q \in Procs \ {p} : snap'[q] = snap[q] /\ Noticed(q)
      /\ Monotone /\ RecordInv'
      /\ Op(p) = "removeFabric" /\ a.res = "ok" => ~dev'[node[p]].ours
      /\ cmd[p] \in Loading /\ (op[p] # 1 \/ a.res = "ok") => snap'[p] \in Recs
      /\ cmd[p] \in {"discover", "tree"} /\ (Op(p) = "save" \/ (Op(p) = "reload" /\ a.res = "ok"))
         => Current(p)'
  BY <1>1, <1>2, <1>3, TakeFacts DEF Under
<1>5. TypeOK'
  <2>1. /\ pc' \in [Procs -> Labels] /\ todo' \in [Procs -> SUBSET Nodes]
        /\ res' \in [Procs -> {"none", "ok", "fail", "nothing"}]
    BY <1>1, <1>2, <1>3, <1>i DEF TypeOK, AnswerOK, Labels
  <2>. QED
    BY <1>3, <1>4, <1>i, <2>1 DEF TypeOK
<1>6. LockInv'
  BY <1>3, <1>i DEF LockInv, TypeOK
<1>7. ASSUME NEW q \in Procs \ {p} PROVE CmdInv(q)'
  <2>1. Same(q)
    BY <1>1, <1>3, <1>4, <1>i DEF Same, TypeOK
  <2>. QED
    BY <1>4, <1>i, <2>1, SameInv DEF TypeOK
<1>8. CmdInv(p)'
  <2>1. pc'[p] = "answered" /\ res'[p] = a.res /\ todo'[p] = a.todo /\ Op(p)' = Op(p) /\ node[p] \in Nodes
    BY <1>1, <1>3, <1>i DEF TypeOK, Op
  <2>2. StepInv(p)'
    BY <1>2, <1>3, <1>i2, <2>1 DEF StepInv, AnswerOK, Under
  <2>3. Excused(p) => Excused(p)'
    BY <1>3, <1>4, <2>1 DEF Excused, Monotone
  <2>4. DeleteInv(p)'
    <3>1. cmd[p] = "reset" /\ op[p] = 3 => a.todo = todo[p]
      BY <1>2, <1>i, OpTable DEF AnswerOK
    <3>2. cmd[p] = "decommission" /\ op[p] = 3 => Op(p) = "removeFabric"
      BY <1>i, OpTable
    <3>3. out[p] = "decommissioned" => ~dev'[node[p]].ours
      BY <1>4, <1>i2, <2>1 DEF DeleteInv, Monotone
    <3>. QED
      BY <1>3, <1>4, <1>i2, <2>1, <2>3, <3>1, <3>2, <3>3 DEF DeleteInv, Under
  <2>5. CopyInv(p)'
    BY <1>3, <1>4, <2>1 DEF CopyInv
  <2>. QED
    BY <2>2, <2>4, <2>5 DEF CmdInv
<1>. QED
  BY <1>4, <1>5, <1>6, <1>7, <1>8 DEF IndInv

(* The call of an operation goes unanswered. *)
LEMMA SilentStep ==
    ASSUME IndInv, NEW p \in Procs, Silent(p)
    PROVE  IndInv'
<1>i. TypeOK /\ LockInv /\ RecordInv /\ \A q \in Procs : CmdInv(q)
  BY DEF IndInv
<1>i2. StepInv(p) /\ DeleteInv(p) /\ CopyInv(p)
  BY <1>i DEF CmdInv
<1>1. PICK a \in Operates(p) : Take(p, a)
  BY DEF Silent
<1>2. AnswerOK(p, a)
  BY <1>1, <1>i, <1>i2, AnswerFacts
<1>3. /\ pc[p] = "held" /\ pc' = [pc EXCEPT ![p] = "silent"] /\ Op(p) \in DeviceOps
      /\ UNCHANGED <<lock, sock, dm, cmd, node, op, todo, res, out, waived>>
  BY DEF Silent, Go, Unbounded
<1>4. /\ store' \in [Nodes -> Recs \cup {Absent}] /\ dev' \in [Nodes -> Devs]
      /\ snap' \in [Procs -> Recs \cup {Absent}]
      /\ \A q \in Procs \ {p} : snap'[q] = snap[q] /\ Noticed(q)
      /\ Monotone /\ RecordInv'
      /\ cmd[p] \in Loading /\ op[p] # 1 => snap'[p] \in Recs
  BY <1>1, <1>2, <1>3, TakeFacts DEF Under
<1>5. /\ pc' \in [Procs -> Labels] /\ pc'[p] = "silent" /\ \A q \in Procs \ {p} : pc'[q] = pc[q]
      /\ Op(p)' = Op(p) /\ node[p] \in Nodes
  BY <1>3, <1>i DEF TypeOK, Labels, Op
<1>6. TypeOK'
  BY <1>3, <1>4, <1>5, <1>i DEF TypeOK
<1>7. LockInv'
  BY <1>3, <1>5, <1>i DEF LockInv
<1>8. ASSUME NEW q \in Procs \ {p} PROVE CmdInv(q)'
  <2>1. Same(q)
    BY <1>3, <1>4, <1>5 DEF Same
  <2>. QED
    BY <1>4, <1>i, <2>1, SameInv DEF TypeOK
<1>9. CmdInv(p)'
  <2>1. StepInv(p)'
    BY <1>3, <1>5, <1>i2 DEF StepInv, Under
  <2>2. Excused(p) => Excused(p)'
    BY <1>3, <1>4, <1>5 DEF Excused, Monotone
  <2>3. DeleteInv(p)'
    BY <1>3, <1>4, <1>5, <1>i2, <2>2 DEF DeleteInv, Under, Monotone
  <2>4. CopyInv(p)'
    <3>1. Op(p) \notin {"save", "reload"}
      BY <1>3 DEF DeviceOps
    <3>. QED
      BY <1>3, <1>4, <1>5, <3>1 DEF CopyInv
  <2>. QED
    BY <2>1, <2>3, <2>4 DEF CmdInv
<1>. QED
  BY <1>4, <1>6, <1>7, <1>8, <1>9 DEF IndInv

(* ... until the user ends the command. *)
LEMMA InterruptStep ==
    ASSUME IndInv, NEW p \in Procs, Interrupt(p)
    PROVE  IndInv'
<1>i. TypeOK /\ LockInv /\ RecordInv /\ \A q \in Procs : CmdInv(q)
  BY DEF IndInv
<1>1. /\ pc[p] = "silent" /\ pc' = [pc EXCEPT ![p] = "done"]
      /\ out' = [out EXCEPT ![p] = "interrupted"] /\ lock' = None
      /\ UNCHANGED <<store, sock, dm, dev, cmd, node, op, todo, snap, res, waived, dirty>>
  BY DEF Interrupt, End, Go
<1>2. /\ pc' \in [Procs -> Labels] /\ out' \in [Procs -> Outs]
      /\ pc'[p] = "done" /\ out'[p] = "interrupted"
      /\ \A q \in Procs \ {p} : pc'[q] = pc[q] /\ out'[q] = out[q]
  BY <1>1, <1>i DEF TypeOK, Labels, Outs
<1>3. TypeOK'
  BY <1>1, <1>2, <1>i DEF TypeOK
<1>4. LockInv'
  <2>1. \A d \in Daemons : dm[d] \notin {"starting", "up", "stopping", "leaving"}
    BY <1>1, <1>i DEF LockInv
  <2>2. \A q \in Procs \ {p} : pc[q] \notin {"held", "silent"}
    BY <1>1, <1>i DEF LockInv
  <2>. QED
    BY <1>1, <1>2, <2>1, <2>2 DEF LockInv
<1>5. RecordInv' /\ Monotone
  BY <1>1, <1>i DEF RecordInv, Monotone
<1>6. ASSUME NEW q \in Procs \ {p} PROVE CmdInv(q)'
  <2>1. Same(q) /\ Noticed(q)
    BY <1>1, <1>2 DEF Same, Noticed
  <2>. QED
    BY <1>5, <1>i, <2>1, SameInv DEF TypeOK
<1>7. CmdInv(p)'
  <2>0. StepInv(p) /\ DeleteInv(p) /\ CopyInv(p) /\ Op(p)' = Op(p)
    BY <1>1, <1>i DEF CmdInv, Op
  <2>1. StepInv(p)' /\ CopyInv(p)'
    BY <1>1, <1>2, <2>0 DEF StepInv, CopyInv, Under, Current
  <2>2. DeleteInv(p)'
    BY <1>1, <1>2, <2>0 DEF DeleteInv, Excused, Under
  <2>. QED
    BY <2>1, <2>2 DEF CmdInv
<1>. QED
  BY <1>3, <1>4, <1>5, <1>6, <1>7 DEF IndInv

LEMMA DirectStep ==
    ASSUME IndInv, NEW p \in Procs, Direct(p)
    PROVE  IndInv'
<1>i. TypeOK /\ LockInv /\ RecordInv /\ \A q \in Procs : CmdInv(q)
  BY DEF IndInv
<1>i2. StepInv(p) /\ DeleteInv(p) /\ CopyInv(p)
  BY <1>i DEF CmdInv
<1>1. PICK a \in Operates(p) :
        /\ Take(p, a)
        /\ IF Op(p) = "list" THEN todo' = [todo EXCEPT ![p] = a.todo] /\ Next1(p)
           ELSE Continue(p, a.res)
  BY DEF Direct
<1>2. AnswerOK(p, a)
  BY <1>1, <1>i, <1>i2, AnswerFacts
<1>3. /\ pc[p] = "held" /\ lock' = None
      /\ UNCHANGED <<sock, dm, cmd, node, res, waived>>
  BY DEF Direct
<1>4. /\ store' \in [Nodes -> Recs \cup {Absent}] /\ dev' \in [Nodes -> Devs]
      /\ snap' \in [Procs -> Recs \cup {Absent}]
      /\ \A q \in Procs \ {p} : snap'[q] = snap[q] /\ Noticed(q)
      /\ Monotone /\ RecordInv'
      /\ Op(p) = "removeFabric" /\ a.res = "ok" => ~dev'[node[p]].ours
      /\ cmd[p] \in Loading /\ (op[p] # 1 \/ a.res = "ok") => snap'[p] \in Recs
      /\ cmd[p] \in {"discover", "tree"} /\ (Op(p) = "save" \/ (Op(p) = "reload" /\ a.res = "ok"))
         => Current(p)'
  BY <1>1, <1>2, <1>3, TakeFacts DEF Under
(* What a command knows when it goes on. *)
<1>5. /\ pc' \in [Procs -> Labels] /\ op' \in [Procs -> Nat] /\ out' \in [Procs -> Outs]
      /\ \A q \in Procs : op'[q] \in 1 .. Len(Program[cmd'[q]])
      /\ todo' \in [Procs -> SUBSET Nodes]
      /\ pc'[p] \notin {"held", "silent"}
      /\ \A q \in Procs \ {p} : /\ pc'[q] = pc[q] /\ op'[q] = op[q] /\ out'[q] = out[q]
                                /\ todo'[q] = todo[q]
      /\ CmdInv(p)'
  <2>1. CASE Op(p) = "list"
    <3>1. /\ cmd[p] = "reset" /\ op[p] = 1 /\ Len(Program[cmd[p]]) = 3
          /\ Program[cmd[p]][2] = "confirm"
      <4>1. cmd[p] \in DOMAIN Program
        BY <1>i DEF TypeOK
      <4>. QED
        BY <1>i, <2>1, <4>1, OpTable, ProgramTable
    <3>2. /\ pc' = [pc EXCEPT ![p] = "check"] /\ op' = [op EXCEPT ![p] = 2] /\ out' = out
          /\ todo' = [todo EXCEPT ![p] = a.todo]
      BY <1>1, <2>1, <3>1 DEF Next1, Go
    <3>3. /\ pc' \in [Procs -> Labels] /\ op' \in [Procs -> Nat] /\ out' \in [Procs -> Outs]
          /\ todo' \in [Procs -> SUBSET Nodes]
          /\ pc'[p] = "check" /\ op'[p] = 2
          /\ \A q \in Procs \ {p} : /\ pc'[q] = pc[q] /\ op'[q] = op[q] /\ out'[q] = out[q]
                                    /\ todo'[q] = todo[q]
      BY <1>2, <1>i, <3>2 DEF TypeOK, AnswerOK, Labels
    <3>4. \A q \in Procs : op'[q] \in 1 .. Len(Program[cmd'[q]])
      <4>1. op'[p] \in 1 .. Len(Program[cmd'[p]])
        BY <1>3, <3>1, <3>3
      <4>2. \A q \in Procs \ {p} : op'[q] \in 1 .. Len(Program[cmd'[q]])
        BY <1>3, <1>i, <3>3 DEF TypeOK
      <4>. QED
        BY <4>1, <4>2
    <3>5. Op(p)' = "confirm" /\ cmd'[p] = "reset" /\ out'[p] = out[p] /\ node[p] \in Nodes
      BY <1>3, <1>i, <3>1, <3>2, <3>3 DEF Op, TypeOK
    <3>6. StepInv(p)' /\ CopyInv(p)'
      BY <1>i2, <1>3, <3>3, <3>5 DEF StepInv, CopyInv, Under, Loading
    <3>7. DeleteInv(p)'
      BY <1>3, <1>4, <1>i2, <3>3, <3>5 DEF DeleteInv, Under, Monotone
    <3>. QED
      BY <3>3, <3>4, <3>6, <3>7 DEF CmdInv
  <2>2. CASE Op(p) # "list"
    <3>1. Ends(p, a.res) \/ Advances(p, a.res) \/ AsksUser(p) \/ NextOfReset(p)
      BY <1>1, <1>i, <2>2, ContinueCases
    <3>2. a.res \notin {"fail", "nothing"} => a.res = "ok"
      BY <1>2 DEF AnswerOK
    <3>3. Op(p) # "confirm" /\ pc[p] # "idle"
      BY <1>3, <1>i2 DEF StepInv, Under
    <3>4. cmd[p] = "decommission" /\ op[p] = 3 => Op(p) = "removeFabric"
      BY <1>i, OpTable
    <3>5. CmdInv(p)'
      <4>1. cmd[p] = "decommission" /\ op[p] = 3 /\ a.res \notin {"fail", "nothing"} => ~dev'[node[p]].ours
        BY <1>4, <3>2, <3>4
      <4>2. cmd[p] \in Loading /\ (op[p] # 1 \/ a.res \notin {"fail", "nothing"}) => snap'[p] \in Recs
        BY <1>4, <3>2
      <4>3. /\ cmd[p] \in {"discover", "tree"} /\ p \notin dirty'
            /\ Op(p) = "save" \/ (Op(p) = "reload" /\ a.res \notin {"fail", "nothing"})
            => Current(p)'
        BY <1>4, <3>2
      <4>. QED
        BY <1>3, <1>4, <1>i, <3>1, <3>3, <4>1, <4>2, <4>3, ContinueInv
    <3>. QED
      BY <1>3, <1>i, <3>1, <3>5, ContinueType
  <2>. QED
    BY <2>1, <2>2
<1>6. TypeOK'
  BY <1>3, <1>4, <1>5, <1>i DEF TypeOK
<1>7. LockInv'
  <2>1. \A d \in Daemons : dm[d] \notin {"starting", "up", "stopping", "leaving"}
    BY <1>3, <1>i DEF LockInv
  <2>2. \A q \in Procs \ {p} : pc[q] \notin {"held", "silent"}
    BY <1>3, <1>i DEF LockInv
  <2>. QED
    BY <1>3, <1>5, <2>1, <2>2 DEF LockInv
<1>8. ASSUME NEW q \in Procs \ {p} PROVE CmdInv(q)'
  <2>1. Same(q)
    BY <1>3, <1>4, <1>5 DEF Same
  <2>. QED
    BY <1>4, <1>i, <2>1, SameInv DEF TypeOK
<1>. QED
  BY <1>4, <1>5, <1>6, <1>7, <1>8 DEF IndInv
(* The user starts a command, it asks for a daemon, or it opens the file. *)
LEMMA EntryStep ==
    ASSUME IndInv, NEW p \in Procs, Run(p) \/ Check(p) \/ OpenStore(p) \/ (Recheck(p) /\ ~IsRunning)
    PROVE  IndInv'
<1>i. TypeOK /\ LockInv /\ RecordInv /\ \A q \in Procs : CmdInv(q)
  BY DEF IndInv
<1>i2. StepInv(p) /\ DeleteInv(p) /\ CopyInv(p)
  BY <1>i DEF CmdInv
<1>u. UNCHANGED <<store, sock, dm, dev, cmd, op, todo, snap, res, dirty>>
  BY DEF Run, Check, OpenStore, Recheck
<1>1. ASSUME NEW l \in Labels \ {"answered", "wait", "force", "silent"}, pc' = [pc EXCEPT ![p] = l],
             l = "held" => lock = None /\ lock' = <<"cli", p>>,
             l # "held" => lock' = lock, pc[p] \notin {"held", "silent"},
             node' \in [Procs -> Nodes], \A q \in Procs \ {p} : node'[q] = node[q],
             out' \in [Procs -> Outs], \A q \in Procs \ {p} : out'[q] = out[q],
             out'[p] # "decommissioned" \/ (out' = out /\ node' = node),
             waived \subseteq waived',
             l \in Under => Op(p) \notin {"confirm", "spawn"},
             node' = node \/ (cmd[p] = "reset" /\ Op(p) = "delete" /\ node'[p] \in todo[p]),
             cmd[p] = "remove" /\ pc[p] = "idle" => <<p, node[p]>> \in waived',
             cmd[p] = "reset" /\ op[p] = 3 /\ l \in Under => pc[p] \in Under \/ node'[p] \in todo[p]
      PROVE  IndInv'
  <2>1. TypeOK'
    <3>1. pc' \in [Procs -> Labels] /\ pc'[p] = l /\ \A q \in Procs \ {p} : pc'[q] = pc[q]
      BY <1>1, <1>i DEF TypeOK
    <3>. QED
      BY <1>1, <1>i, <1>u, <3>1 DEF TypeOK
  <2>2. pc'[p] = l /\ (\A q \in Procs \ {p} : pc'[q] = pc[q]) /\ node[p] \in Nodes
    BY <1>1, <1>i DEF TypeOK
  <2>3. LockInv'
    <3>1. CASE l # "held"
      BY <1>1, <1>i, <1>u, <2>2, <3>1 DEF LockInv
    <3>2. CASE l = "held"
      <4>1. /\ \A d \in Daemons : <<"daemon", d>> # None
            /\ \A q \in Procs : <<"cli", q>> # None
        BY DEF Daemons
      <4>2. /\ \A d \in Daemons : dm[d] \notin {"starting", "up", "stopping", "leaving"}
            /\ \A q \in Procs : pc[q] \notin {"held", "silent"}
        BY <1>1, <1>i, <3>2, <4>1 DEF LockInv
      <4>. QED
        BY <1>1, <1>u, <2>2, <3>2, <4>2 DEF LockInv
    <3>. QED
      BY <3>1, <3>2
  <2>4. RecordInv' /\ Monotone
    BY <1>1, <1>i, <1>u DEF RecordInv, Monotone
  <2>5. ASSUME NEW q \in Procs \ {p} PROVE CmdInv(q)'
    <3>1. Same(q) /\ Noticed(q) /\ node[q] \in Nodes
      BY <1>1, <1>i, <1>u, <2>2 DEF Same, Noticed, TypeOK
    <3>. QED
      BY <1>i, <2>4, <3>1, SameInv
  <2>6. CmdInv(p)'
    <3>0. Op(p)' = Op(p) /\ cmd'[p] = cmd[p] /\ op'[p] = op[p]
      BY <1>u DEF Op
    <3>1. StepInv(p)'
      BY <1>1, <1>i2, <2>2, <3>0 DEF StepInv
    <3>2. Excused(p) /\ node' = node => Excused(p)'
      BY <1>1, <1>u, <2>2, <2>4 DEF Excused, Monotone
    <3>3. DeleteInv(p)'
      <4>1. cmd[p] = "decommission" /\ op[p] = 4 => Excused(p)'
        BY <1>1, <1>i2, <3>2 DEF DeleteInv
      <4>2. cmd[p] = "remove" => Excused(p)'
        BY <1>1, <1>i2, <3>2 DEF DeleteInv, Excused
      <4>3. cmd[p] = "reset" /\ op[p] = 3 => {p} \X todo[p] \subseteq waived'
        BY <1>1, <1>i2 DEF DeleteInv
      <4>4. cmd[p] = "reset" /\ op[p] = 3 /\ l \in Under => Excused(p)'
        BY <1>1, <1>i2, <3>2, <4>3 DEF DeleteInv, Excused
      <4>5. out'[p] = "decommissioned" => ~dev'[node'[p]].ours
        BY <1>1, <1>i2, <1>u DEF DeleteInv
      <4>. QED
        BY <1>1, <1>u, <2>2, <4>1, <4>2, <4>3, <4>4, <4>5 DEF DeleteInv
    <3>4. CopyInv(p)'
      <4>1. cmd[p] \in {"discover", "tree"} => node' = node
        BY <1>1
      <4>. QED
        BY <1>1, <1>i2, <1>u, <2>2, <3>0, <4>1 DEF CopyInv, Current
    <3>. QED
      BY <3>1, <3>3, <3>4 DEF CmdInv
  <2>. QED
    BY <2>1, <2>3, <2>4, <2>5, <2>6 DEF IndInv
<1>t. node \in [Procs -> Nodes] /\ out \in [Procs -> Outs] /\ todo \in [Procs -> SUBSET Nodes]
  BY <1>i DEF TypeOK
<1>2. CASE Run(p)
  <2>1. /\ pc[p] = "idle" /\ pc' = [pc EXCEPT ![p] = "check"] /\ lock' = lock /\ node' = node /\ out' = out
        /\ waived \subseteq waived' /\ (cmd[p] = "remove" => <<p, node[p]>> \in waived')
    BY <1>2 DEF Run, Go
  <2>. QED
    BY <1>1, <1>t, <2>1 DEF Labels, Under
<1>3. CASE OpenStore(p)
  <2>1. /\ pc[p] = "open" /\ pc' = [pc EXCEPT ![p] = "held"] /\ lock = None /\ lock' = <<"cli", p>>
        /\ node' = node /\ out' = out /\ waived' = waived
    BY <1>3 DEF OpenStore, Go
  <2>2. Op(p) \notin {"confirm", "spawn"}
    BY <1>i2, <2>1 DEF StepInv, Under
  <2>. QED
    BY <1>1, <1>t, <2>1, <2>2 DEF Labels, Under
<1>4. CASE Recheck(p) /\ ~IsRunning
  <2>1. /\ pc[p] = "recheck" /\ pc' = [pc EXCEPT ![p] = "open"] /\ lock' = lock
        /\ node' = node /\ out' = out /\ waived' = waived
    BY <1>4 DEF Recheck, Go
  <2>2. Op(p) \notin {"confirm", "spawn"}
    BY <1>i2, <2>1 DEF StepInv, Under
  <2>. QED
    BY <1>1, <1>t, <2>1, <2>2 DEF Labels, Under
<1>5. CASE Check(p)
  <2>1. /\ pc[p] = "check" /\ Op(p) \notin {"confirm", "spawn"} /\ lock' = lock /\ waived' = waived
    BY <1>5 DEF Check
  <2>2. /\ node' \in [Procs -> Nodes] /\ \A q \in Procs \ {p} : node'[q] = node[q]
        /\ node' = node \/ (cmd[p] = "reset" /\ Op(p) = "delete" /\ node'[p] \in todo[p])
        /\ cmd[p] = "reset" /\ Op(p) = "delete" => node'[p] \in todo[p]
    <3>1. CASE cmd[p] = "reset" /\ Op(p) = "delete"
      <4>1. PICK n \in todo[p] : node' = [node EXCEPT ![p] = n]
        BY <1>5, <3>1 DEF Check
      <4>2. n \in Nodes
        BY <1>t
      <4>. QED
        BY <1>t, <3>1, <4>1, <4>2
    <3>2. CASE ~(cmd[p] = "reset" /\ Op(p) = "delete")
      <4>1. node' = node
        BY <1>5, <3>2 DEF Check
      <4>. QED
        BY <1>t, <3>2, <4>1
    <3>. QED
      BY <3>1, <3>2
  <2>3. cmd[p] = "reset" /\ op[p] = 3 => Op(p) = "delete"
    BY <1>i, OpTable
  <2>4. CASE pc' = [pc EXCEPT ![p] = "done"] /\ out' = [out EXCEPT ![p] = "no daemon"]
    <3>1. /\ out' \in [Procs -> Outs] /\ \A q \in Procs \ {p} : out'[q] = out[q]
          /\ out'[p] # "decommissioned"
      BY <1>t, <2>4 DEF Outs
    <3>. QED
      BY <1>1, <1>t, <2>1, <2>2, <2>4, <3>1 DEF Labels, Under
  <2>5. ASSUME NEW l \in {"ask", "recheck", "open"}, pc' = [pc EXCEPT ![p] = l], out' = out
        PROVE  IndInv'
    <3>1. l \in Labels \ {"answered", "wait", "force", "silent"} /\ l # "held"
      BY <2>5 DEF Labels
    <3>2. out'[p] # "decommissioned" \/ (out' = out /\ node' = node)
      <4>1. out[p] = "decommissioned" => node' = node
        BY <1>i2, <2>2 DEF StepInv
      <4>. QED
        BY <2>5, <4>1
    <3>. QED
      BY <1>1, <1>t, <2>1, <2>2, <2>3, <2>5, <3>1, <3>2
  <2>. QED
    BY <1>5, <2>4, <2>5 DEF Check, End, Go
<1>. QED
  BY <1>2, <1>3, <1>4, <1>5

(* The questions to the user, and the command that spawns a daemon. *)
LEMMA UserStep ==
    ASSUME IndInv, NEW p \in Procs,
           ConfirmForceDelete(p) \/ ConfirmReset(p) \/ Spawn(p) \/ WaitForDaemon(p)
    PROVE  IndInv'
<1>i. TypeOK /\ LockInv /\ RecordInv /\ \A q \in Procs : CmdInv(q)
  BY DEF IndInv
<1>i2. StepInv(p) /\ DeleteInv(p) /\ CopyInv(p)
  BY <1>i DEF CmdInv
<1>t. /\ pc \in [Procs -> Labels] /\ op \in [Procs -> Nat] /\ out \in [Procs -> Outs]
      /\ node[p] \in Nodes /\ cmd[p] \in DOMAIN Program /\ dm \in [Daemons -> Lives]
      /\ \A q \in Procs : op[q] \in 1 .. Len(Program[cmd[q]])
  BY <1>i DEF TypeOK
<1>u. UNCHANGED <<store, lock, sock, dev, cmd, node, todo, snap, res, dirty>>
  BY DEF ConfirmForceDelete, ConfirmReset, Spawn, WaitForDaemon
<1>m. waived \subseteq waived'
  BY DEF ConfirmForceDelete, ConfirmReset, Spawn, WaitForDaemon
<1>1. ASSUME pc' \in [Procs -> Labels], op' \in [Procs -> Nat], out' \in [Procs -> Outs],
             \A q \in Procs : op'[q] \in 1 .. Len(Program[cmd'[q]]),
             \A q \in Procs \ {p} : pc'[q] = pc[q] /\ op'[q] = op[q] /\ out'[q] = out[q],
             pc'[p] \notin {"held", "silent"}, CmdInv(p)',
             dm' = dm \/ dm' = [dm EXCEPT ![p] = "opening"]
      PROVE  IndInv'
  <2>0. p \in Daemons /\ "opening" \in Lives
    BY DEF Daemons, Lives
  <2>1. TypeOK'
    <3>1. dm' \in [Daemons -> Lives]
      BY <1>1, <1>t, <2>0
    <3>. QED
      BY <1>1, <1>i, <1>u, <3>1 DEF TypeOK
  <2>2. LockInv'
    <3>1. \A d \in Daemons : dm'[d] = dm[d] \/ dm'[d] = "opening"
      BY <1>1, <1>t, <2>0
    <3>. QED
      BY <1>1, <1>i, <1>u, <3>1 DEF LockInv
  <2>3. RecordInv' /\ Monotone
    BY <1>i, <1>m, <1>u DEF RecordInv, Monotone
  <2>4. ASSUME NEW q \in Procs \ {p} PROVE CmdInv(q)'
    <3>1. Same(q) /\ Noticed(q) /\ node[q] \in Nodes
      BY <1>1, <1>i, <1>u DEF Same, Noticed, TypeOK
    <3>. QED
      BY <1>i, <2>3, <3>1, SameInv
  <2>. QED
    BY <1>1, <2>1, <2>2, <2>3, <2>4 DEF IndInv
(* The command ends. *)
<1>2. ASSUME Ends(p, "fail"), pc[p] # "idle", waived' = waived, dm' = dm
      PROVE  IndInv'
  <2>1. Monotone
    BY <1>u, <1>m DEF Monotone
  <2>2. PICK o \in Outs :
          /\ pc' = [pc EXCEPT ![p] = "done"] /\ out' = [out EXCEPT ![p] = o]
          /\ op' = op /\ todo' = todo
          /\ o = "decommissioned" =>
               cmd[p] = "decommission" /\ op[p] = 4 /\ <<p, node[p]>> \notin waived
    BY <1>2 DEF Ends
  <2>3. /\ pc'[p] = "done" /\ out'[p] = o /\ pc' \in [Procs -> Labels] /\ out' \in [Procs -> Outs]
        /\ \A q \in Procs \ {p} : pc'[q] = pc[q] /\ out'[q] = out[q]
    BY <1>t, <2>2 DEF Labels
  <2>4. Op(p)' = Op(p)
    BY <1>u, <2>2 DEF Op
  <2>5. StepInv(p)' /\ CopyInv(p)'
    BY <1>i2, <1>u, <2>2, <2>3, <2>4 DEF StepInv, CopyInv, Under, Current
  <2>6. DeleteInv(p)'
    BY <1>2, <1>i2, <1>u, <2>2, <2>3 DEF DeleteInv, Excused, Under
  <2>. QED
    BY <1>1, <1>2, <1>t, <1>u, <2>2, <2>3, <2>5, <2>6 DEF CmdInv
<1>e. ASSUME NEW o \in Outs \ {"decommissioned"}, End(p, o), op' = op PROVE Ends(p, "fail")
  BY <1>e, <1>u DEF End, Go, Ends
<1>3. CASE ConfirmForceDelete(p)
  <2>0. pc[p] = "force" /\ cmd[p] = "decommission" /\ dm' = dm
    BY <1>3, <1>i2 DEF ConfirmForceDelete, StepInv
  <2>1. CASE End(p, "error") /\ UNCHANGED <<op, waived>>
    BY <1>2, <1>e, <2>0, <2>1 DEF Outs
  <2>2. CASE /\ op' = [op EXCEPT ![p] = Len(Program[cmd[p]])]
             /\ waived' = waived \cup {<<p, node[p]>>}
             /\ Go(p, "check") /\ UNCHANGED out
    <3>1. Len(Program[cmd[p]]) = 4 /\ Program[cmd[p]][4] = "delete"
      BY <1>t, <2>0, ProgramTable
    <3>2. /\ pc' \in [Procs -> Labels] /\ op' \in [Procs -> Nat] /\ pc'[p] = "check" /\ op'[p] = 4
          /\ \A q \in Procs \ {p} : pc'[q] = pc[q] /\ op'[q] = op[q]
      BY <1>t, <2>2, <3>1 DEF Go, Labels
    <3>3. \A q \in Procs : op'[q] \in 1 .. Len(Program[cmd'[q]])
      <4>1. op'[p] \in 1 .. Len(Program[cmd'[p]])
        BY <1>u, <3>1, <3>2
      <4>2. \A q \in Procs \ {p} : op'[q] \in 1 .. Len(Program[cmd'[q]])
        BY <1>t, <1>u, <3>2
      <4>. QED
        BY <4>1, <4>2
    <3>4. Op(p)' = "delete" /\ out' = out
      BY <1>u, <2>2, <3>1, <3>2 DEF Op
    <3>5. StepInv(p)' /\ CopyInv(p)'
      BY <1>i2, <1>u, <2>0, <3>2, <3>4 DEF StepInv, CopyInv, Under, Loading
    <3>6. DeleteInv(p)'
      BY <1>i2, <1>u, <2>0, <2>2, <3>2, <3>4 DEF DeleteInv, Excused
    <3>. QED
      BY <1>1, <1>t, <2>0, <3>2, <3>3, <3>4, <3>5, <3>6 DEF CmdInv
  <2>. QED
    BY <1>3, <2>1, <2>2 DEF ConfirmForceDelete
<1>4. CASE ConfirmReset(p)
  <2>0. /\ pc[p] = "check" /\ cmd[p] = "reset" /\ op[p] = 2 /\ Len(Program[cmd[p]]) = 3 /\ dm' = dm
        /\ Program[cmd[p]][3] = "delete"
    BY <1>4, <1>i, <1>t, OpTable, ProgramTable DEF ConfirmReset
  <2>1. CASE End(p, "ok") /\ UNCHANGED <<op, waived>>
    BY <1>2, <1>e, <2>0, <2>1 DEF Outs
  <2>2. CASE Next1(p) /\ waived' = waived \cup ({p} \X todo[p])
    <3>1. pc' = [pc EXCEPT ![p] = "check"] /\ op' = [op EXCEPT ![p] = 3] /\ out' = out
      BY <2>0, <2>2 DEF Next1, Go
    <3>2. /\ pc' \in [Procs -> Labels] /\ op' \in [Procs -> Nat] /\ pc'[p] = "check" /\ op'[p] = 3
          /\ \A q \in Procs \ {p} : pc'[q] = pc[q] /\ op'[q] = op[q]
      BY <1>t, <3>1 DEF Labels
    <3>3. \A q \in Procs : op'[q] \in 1 .. Len(Program[cmd'[q]])
      <4>1. op'[p] \in 1 .. Len(Program[cmd'[p]])
        BY <1>u, <2>0, <3>2
      <4>2. \A q \in Procs \ {p} : op'[q] \in 1 .. Len(Program[cmd'[q]])
        BY <1>t, <1>u, <3>2
      <4>. QED
        BY <4>1, <4>2
    <3>4. Op(p)' = "delete"
      BY <1>u, <2>0, <3>2 DEF Op
    <3>5. StepInv(p)' /\ CopyInv(p)'
      BY <1>i2, <1>u, <2>0, <3>1, <3>2, <3>4 DEF StepInv, CopyInv, Under, Loading
    <3>6. DeleteInv(p)'
      BY <1>i2, <1>u, <2>0, <2>2, <3>1, <3>2 DEF DeleteInv, Under
    <3>. QED
      BY <1>1, <1>t, <2>0, <3>1, <3>2, <3>3, <3>5, <3>6 DEF CmdInv
  <2>. QED
    BY <1>4, <2>1, <2>2 DEF ConfirmReset
<1>5. CASE Spawn(p)
  <2>0. pc[p] = "check" /\ Op(p) = "spawn" /\ waived' = waived /\ op' = op
    BY <1>5 DEF Spawn
  <2>1. CASE IsRunning
    <3>1. End(p, "already running") /\ dm' = dm
      BY <1>5, <2>1 DEF Spawn
    <3>. QED
      BY <1>2, <1>e, <2>0, <3>1 DEF Outs
  <2>2. CASE ~IsRunning
    <3>1. pc' = [pc EXCEPT ![p] = "wait"] /\ dm' = [dm EXCEPT ![p] = "opening"] /\ out' = out
      BY <1>5, <2>2 DEF Spawn, Go
    <3>2. pc' \in [Procs -> Labels] /\ pc'[p] = "wait" /\ \A q \in Procs \ {p} : pc'[q] = pc[q]
      BY <1>t, <3>1 DEF Labels
    <3>3. Op(p)' = "spawn"
      BY <1>u, <2>0 DEF Op
    <3>4. StepInv(p)' /\ CopyInv(p)'
      BY <1>i2, <1>u, <2>0, <3>1, <3>2, <3>3 DEF StepInv, CopyInv, Under, Current
    <3>5. DeleteInv(p)'
      BY <1>i2, <1>u, <2>0, <3>1, <3>2 DEF DeleteInv, Excused, Under
    <3>. QED
      BY <1>1, <1>t, <1>u, <2>0, <3>1, <3>2, <3>4, <3>5 DEF CmdInv
  <2>. QED
    BY <2>1, <2>2
<1>6. CASE WaitForDaemon(p)
  <2>1. pc[p] = "wait" /\ Next1(p) /\ dm' = dm /\ waived' = waived
    BY <1>6 DEF WaitForDaemon
  <2>2. op[p] = Len(Program[cmd[p]])
    BY <1>i, <1>i2, <2>1, OpTable DEF StepInv
  <2>3. Ends(p, "fail")
    BY <1>i, <1>u, <2>1, <2>2, SuccessTold
  <2>. QED
    BY <1>2, <2>1, <2>3
<1>. QED
  BY <1>3, <1>4, <1>5, <1>6

(* The daemons and the devices. *)
LEMMA DaemonStep ==
    ASSUME IndInv, NEW d \in Daemons, DaemonSteps(d) \/ KillDaemon(d)
    PROVE  IndInv'
<1>i. TypeOK /\ LockInv /\ RecordInv /\ \A q \in Procs : CmdInv(q)
  BY DEF IndInv
<1>t. dm \in [Daemons -> Lives] /\ d \in Daemons
  BY <1>i DEF TypeOK
<1>n. /\ \A k \in Daemons : <<"daemon", k>> # None
      /\ \A q \in Procs : <<"cli", q>> # None
  BY DEF Daemons
<1>u. UNCHANGED <<store, dev, pc, cmd, node, op, todo, snap, res, out, waived, dirty>>
  BY DEF DaemonSteps, DaemonOpens, Listen, IdleTimeout, Cancelled, Shutdown, Exit, KillDaemon,
         cmdVars
<1>1. ASSUME NEW l \in Lives, dm' = [dm EXCEPT ![d] = l], sock' \in {sock, d, None}, LockInv'
      PROVE  IndInv'
  <2>1. TypeOK'
    BY <1>1, <1>i, <1>u DEF TypeOK
  <2>2. RecordInv' /\ Monotone
    BY <1>i, <1>u DEF RecordInv, Monotone
  <2>3. ASSUME NEW q \in Procs PROVE CmdInv(q)'
    <3>1. Same(q) /\ Noticed(q) /\ node[q] \in Nodes
      BY <1>i, <1>u DEF Same, Noticed, TypeOK
    <3>. QED
      BY <1>i, <2>2, <3>1, SameInv
  <2>. QED
    BY <1>1, <2>1, <2>2, <2>3 DEF IndInv
<1>2. CASE DaemonOpens(d)
  <2>1. /\ lock = None /\ lock' = <<"daemon", d>> /\ dm' = [dm EXCEPT ![d] = "starting"] /\ sock' = sock
    BY <1>2 DEF DaemonOpens
  <2>2. /\ \A k \in Daemons : dm[k] \notin {"starting", "up", "stopping", "leaving"}
        /\ \A q \in Procs : pc[q] \notin {"held", "silent"}
    BY <1>i, <1>n, <2>1 DEF LockInv
  <2>3. LockInv'
    BY <1>t, <1>u, <2>1, <2>2 DEF LockInv
  <2>. QED
    BY <1>1, <2>1, <2>3 DEF Lives
(* From here on d has the lock, and nobody else. *)
<1>h. ASSUME dm[d] \in {"starting", "up", "stopping", "leaving"}
      PROVE  /\ \A k \in Daemons \ {d} : dm[k] \notin {"starting", "up", "stopping", "leaving"}
             /\ \A q \in Procs : pc[q] \notin {"held", "silent"}
             /\ lock = <<"daemon", d>>
  <2>1. lock = <<"daemon", d>>
    BY <1>h, <1>i DEF LockInv
  <2>2. \A k \in Daemons \ {d} : lock # <<"daemon", k>>
    BY <2>1
  <2>3. \A q \in Procs : lock # <<"cli", q>>
    BY <2>1
  <2>. QED
    BY <1>i, <2>1, <2>2, <2>3 DEF LockInv
<1>3. CASE Listen(d)
  <2>1. dm[d] = "starting" /\ lock' = lock /\ dm' = [dm EXCEPT ![d] = "up"] /\ sock' = d
    BY <1>3 DEF Listen
  <2>2. LockInv'
    BY <1>h, <1>t, <1>u, <2>1 DEF LockInv
  <2>. QED
    BY <1>1, <2>1, <2>2 DEF Lives
<1>4. CASE IdleTimeout(d) \/ Cancelled(d)
  <2>1. dm[d] = "up" /\ lock' = lock /\ dm' = [dm EXCEPT ![d] = "stopping"] /\ sock' = sock
    BY <1>4 DEF IdleTimeout, Cancelled
  <2>2. LockInv'
    BY <1>h, <1>t, <1>u, <2>1 DEF LockInv
  <2>. QED
    BY <1>1, <2>1, <2>2 DEF Lives
<1>5. CASE Shutdown(d)
  <2>1. dm[d] = "stopping" /\ lock' = lock /\ dm' = [dm EXCEPT ![d] = "leaving"] /\ sock' = None
    BY <1>5 DEF Shutdown
  <2>2. LockInv'
    BY <1>h, <1>t, <1>u, <2>1 DEF LockInv
  <2>. QED
    BY <1>1, <2>1, <2>2 DEF Lives
<1>6. CASE Exit(d)
  <2>1. dm[d] = "leaving" /\ lock' = None /\ dm' = [dm EXCEPT ![d] = "gone"] /\ sock' = sock
    BY <1>6 DEF Exit
  <2>2. LockInv'
    BY <1>h, <1>t, <1>u, <2>1 DEF LockInv
  <2>. QED
    BY <1>1, <2>1, <2>2 DEF Lives
<1>7. CASE KillDaemon(d)
  <2>1. /\ lock' = IF lock = <<"daemon", d>> THEN None ELSE lock
        /\ dm' = [dm EXCEPT ![d] = "gone"] /\ sock' = sock
    BY <1>7 DEF KillDaemon
  <2>2. CASE lock = <<"daemon", d>>
    <3>1. /\ \A k \in Daemons \ {d} : dm[k] \notin {"starting", "up", "stopping", "leaving"}
          /\ \A q \in Procs : pc[q] \notin {"held", "silent"}
      <4>1. /\ \A k \in Daemons \ {d} : lock # <<"daemon", k>>
            /\ \A q \in Procs : lock # <<"cli", q>>
        BY <2>2
      <4>. QED
        BY <1>i, <4>1 DEF LockInv
    <3>2. LockInv'
      BY <1>t, <1>u, <2>1, <3>1 DEF LockInv
    <3>. QED
      BY <1>1, <2>1, <3>2 DEF Lives
  <2>3. CASE lock # <<"daemon", d>>
    <3>1. LockInv'
      BY <1>i, <1>t, <1>u, <2>1, <2>3 DEF LockInv
    <3>. QED
      BY <1>1, <2>1, <3>1 DEF Lives
  <2>. QED
    BY <2>2, <2>3
<1>. QED
  BY <1>2, <1>3, <1>4, <1>5, <1>6, <1>7 DEF DaemonSteps

LEMMA MoveStep ==
    ASSUME IndInv, NEW n \in Nodes, Move(n)
    PROVE  IndInv'
<1>i. TypeOK /\ LockInv /\ RecordInv /\ \A q \in Procs : CmdInv(q)
  BY DEF IndInv
<1>1. PICK a \in Addrs : dev' = [dev EXCEPT ![n].at = a]
  BY DEF Move
<1>2. [dev[n] EXCEPT !.at = a] \in Devs /\ [dev[n] EXCEPT !.at = a].ours = dev[n].ours
  <2>1. dev[n] \in Devs
    BY <1>i DEF TypeOK
  <2>. QED
    BY <2>1 DEF Devs
<1>3. dev' \in [Nodes -> Devs] /\ \A m \in Nodes : dev'[m].ours = dev[m].ours
  BY <1>1, <1>2, <1>i DEF TypeOK
<1>u. UNCHANGED <<store, lock, sock, dm, pc, cmd, node, op, todo, snap, res, out, waived, dirty>>
  BY DEF Move, cmdVars
<1>4. TypeOK' /\ LockInv'
  BY <1>3, <1>i, <1>u DEF TypeOK, LockInv
<1>5. RecordInv' /\ Monotone
  BY <1>3, <1>i, <1>u DEF RecordInv, Monotone
<1>6. ASSUME NEW q \in Procs PROVE CmdInv(q)'
  <2>1. Same(q) /\ Noticed(q) /\ node[q] \in Nodes
    BY <1>i, <1>u DEF Same, Noticed, TypeOK
  <2>. QED
    BY <1>i, <1>5, <2>1, SameInv
<1>. QED
  BY <1>4, <1>5, <1>6 DEF IndInv
-----------------------------------------------------------------------------
LEMMA InitInv == Init => IndInv
<1>. SUFFICES ASSUME Init PROVE IndInv
  OBVIOUS
<1>. DEFINE a == CHOOSE x \in Addrs : TRUE
<1>a. a \in Addrs
  OBVIOUS
<1>c. cmd \in [Procs -> DOMAIN Program]
  BY DEF Init
<1>s. store \in [Nodes -> Recs]
  <2>1. [addr |-> a, name |-> "old", attrs |-> "stale"] \in Recs
    BY <1>a DEF Recs, Names, Lists
  <2>. QED
    BY <2>1 DEF Init
<1>d. dev \in [Nodes -> Devs]
  <2>1. [ours |-> TRUE, label |-> "old", at |-> a] \in Devs
    BY <1>a DEF Devs, Names
  <2>. QED
    BY <2>1 DEF Init
<1>o. \A p \in Procs : op[p] = 1 /\ 1 \in 1 .. Len(Program[cmd[p]])
  <2>1. \A p \in Procs : Len(Program[cmd[p]]) \in Nat /\ Len(Program[cmd[p]]) >= 1
    BY <1>c, ProgramTable
  <2>2. \A p \in Procs : op[p] = 1
    BY DEF Init
  <2>3. \A k \in Nat : k >= 1 => 1 \in 1 .. k
    OBVIOUS
  <2>. QED
    BY <2>1, <2>2, <2>3
<1>m. dm \in [Daemons -> Lives] /\ sock \in Daemons \cup {None}
  BY DEF Init, Daemons, Lives
<1>1. TypeOK
  <2>1. store \in [Nodes -> Recs \cup {Absent}]
    BY <1>s
  <2>. QED
    BY <1>c, <1>d, <1>m, <1>o, <2>1 DEF Init, TypeOK, Labels, Outs
<1>2. LockInv
  <2>1. CASE dm = [d \in Daemons |-> "none"]
    BY <2>1 DEF Init, LockInv
  <2>2. CASE /\ lock = <<"daemon", Earlier>> /\ sock = Earlier
             /\ dm = [[d \in Daemons |-> "none"] EXCEPT ![Earlier] = "up"]
    <3>1. \A d \in Daemons : dm[d] # "none" => d = Earlier
      BY <2>2
    <3>2. \A p \in Procs : pc[p] \notin {"held", "silent"}
      BY DEF Init
    <3>. QED
      BY <2>2, <3>1, <3>2 DEF LockInv
  <2>. QED
    BY <2>1, <2>2 DEF Init
<1>3. RecordInv
  <2>1. \A n \in Nodes : store[n] # Absent
    BY <1>s
  <2>. QED
    BY <2>1 DEF RecordInv
<1>4. ASSUME NEW p \in Procs PROVE CmdInv(p)
  <2>1. pc[p] = "idle" /\ op[p] = 1 /\ out[p] = "none"
    BY DEF Init
  <2>2. Op(p) \notin {"save", "reload"}
    BY <1>1, <2>1, OpTable
  <2>. QED
    BY <2>1, <2>2 DEF CmdInv, StepInv, DeleteInv, CopyInv, Under
<1>. QED
  BY <1>1, <1>2, <1>3, <1>4 DEF IndInv

LEMMA NextInv == IndInv /\ [Next]_vars => IndInv'
<1>. SUFFICES ASSUME IndInv, [Next]_vars PROVE IndInv'
  OBVIOUS
<1>1. CASE UNCHANGED vars
  <2>i. TypeOK /\ LockInv /\ RecordInv /\ \A q \in Procs : CmdInv(q)
    BY DEF IndInv
  <2>u. UNCHANGED <<store, lock, sock, dm, dev, pc, cmd, node, op, todo, snap, res, out, waived, dirty>>
    BY <1>1 DEF vars, cmdVars
  <2>1. TypeOK' /\ LockInv'
    BY <2>i, <2>u DEF TypeOK, LockInv
  <2>2. RecordInv' /\ Monotone
    BY <2>i, <2>u DEF RecordInv, Monotone
  <2>3. ASSUME NEW q \in Procs PROVE CmdInv(q)'
    <3>1. Same(q) /\ Noticed(q) /\ node[q] \in Nodes
      BY <2>i, <2>u DEF Same, Noticed, TypeOK
    <3>. QED
      BY <2>i, <2>2, <3>1, SameInv
  <2>. QED
    BY <2>1, <2>2, <2>3 DEF IndInv
<1>2. ASSUME NEW p \in Procs, Run(p) \/ CommandSteps(p) \/ Interrupt(p) PROVE IndInv'
  <2>1. CASE Recheck(p) /\ IsRunning
    <3>1. /\ Continue(p, "fail") /\ pc[p] = "recheck"
          /\ UNCHANGED <<store, lock, sock, dm, dev, cmd, node, snap, res, waived, dirty>>
      BY <2>1 DEF Recheck
    <3>. QED
      BY <3>1, ContinueStep DEF Under
  <2>2. CASE Disconnected(p)
    <3>1. /\ Continue(p, "fail") /\ pc[p] \in {"ask", "answered"}
          /\ UNCHANGED <<store, lock, sock, dm, dev, cmd, node, snap, res, waived, dirty>>
      BY <2>2 DEF Disconnected
    <3>. QED
      BY <3>1, ContinueStep DEF Under
  <2>3. CASE Respond(p)
    <3>1. /\ Continue(p, res[p]) /\ pc[p] = "answered"
          /\ UNCHANGED <<store, lock, sock, dm, dev, cmd, node, snap, res, waived, dirty>>
      BY <2>3 DEF Respond
    <3>. QED
      BY <3>1, ContinueStep DEF Under
  <2>4. CASE OpenTimesOut(p)
    <3>1. /\ Continue(p, "fail") /\ pc[p] = "open"
          /\ UNCHANGED <<store, lock, sock, dm, dev, cmd, node, snap, res, waived, dirty>>
      BY <2>4 DEF OpenTimesOut
    <3>. QED
      BY <3>1, ContinueStep DEF Under
  <2>5. CASE Run(p) \/ Check(p) \/ OpenStore(p) \/ (Recheck(p) /\ ~IsRunning)
    BY <2>5, EntryStep
  <2>6. CASE Handle(p)
    BY <2>6, HandleStep
  <2>7. CASE Direct(p)
    BY <2>7, DirectStep
  <2>8. CASE ConfirmForceDelete(p) \/ ConfirmReset(p) \/ Spawn(p) \/ WaitForDaemon(p)
    BY <2>8, UserStep
  <2>9. CASE Silent(p) \/ Interrupt(p)
    BY <2>9, SilentStep, InterruptStep
  <2>. QED
    BY <1>2, <2>1, <2>2, <2>3, <2>4, <2>5, <2>6, <2>7, <2>8, <2>9 DEF CommandSteps
<1>3. ASSUME NEW d \in Daemons, DaemonSteps(d) \/ KillDaemon(d) PROVE IndInv'
  BY <1>3, DaemonStep
<1>4. ASSUME NEW n \in Nodes, Move(n) PROVE IndInv'
  BY <1>4, MoveStep
<1>. QED
  BY <1>1, <1>2, <1>3, <1>4 DEF Next

LEMMA Invariance == Spec => []IndInv
<1>. QED
  BY InitInv, NextInv, PTL DEF Spec

-----------------------------------------------------------------------------
(* daemon.Server.Run and shutdown: of the daemons that are spawned, whatever
   their number and however they end, the one that accepts requests is the
   one the socket path leads to. A daemon that shuts down removes the path
   before it gives up the lock on the database file, and its successor
   listens only once it has that lock (docs/DAEMON_STORE.md). *)
THEOREM SocketIsServed == Spec => []ServedSocket
<1>1. IndInv => ServedSocket
  BY DEF IndInv, LockInv, ServedSocket
<1>. QED
  BY <1>1, Invariance, PTL

(* cli/decommission.go, fabric remove and fabric reset: "decommissioned" is
   reported only when the device has dropped the fabric, and the record of a
   device that still holds the fabric is never deleted unless the user
   agreed, for every mix of commands, over the daemon or directly, with
   daemons that die between the request and its answer. *)
THEOREM DecommissionIsHonest == Spec => []DecommissionHonest
<1>1. IndInv => DecommissionHonest
  BY DEF IndInv, CmdInv, DeleteInv, RecordInv, DecommissionHonest
<1>. QED
  BY <1>1, Invariance, PTL

-----------------------------------------------------------------------------
(* A step of one command leaves the others where they are. *)
LEMMA StepIsOwn ==
    ASSUME TypeOK, NEW p \in Procs, NEW q \in Procs, p # q, Run(q) \/ CommandSteps(q) \/ Interrupt(q)
    PROVE  pc'[p] = pc[p]
<1>t. pc \in [Procs -> Labels]
  BY DEF TypeOK
<1>1. ASSUME NEW l, pc' = [pc EXCEPT ![q] = l] PROVE pc'[p] = pc[p]
  BY <1>1, <1>t
<1>2. ASSUME NEW r, Continue(q, r) PROVE pc'[p] = pc[p]
  <2>1. Ends(q, r) \/ Advances(q, r) \/ AsksUser(q) \/ NextOfReset(q)
    BY <1>2, ContinueCases
  <2>. QED
    BY <1>1, <2>1 DEF Ends, Advances, AsksUser, NextOfReset
<1>3. ASSUME Next1(q) PROVE pc'[p] = pc[p]
  BY <1>1, <1>3 DEF Next1, End, Go
<1>4. CASE Run(q) \/ Check(q) \/ Handle(q) \/ OpenStore(q)
  BY <1>1, <1>4 DEF Run, Check, Handle, OpenStore, End, Go
<1>5. CASE Recheck(q) \/ Disconnected(q) \/ Respond(q) \/ OpenTimesOut(q)
  BY <1>1, <1>2, <1>5 DEF Recheck, Disconnected, Respond, OpenTimesOut, Go
<1>6. CASE Direct(q)
  BY <1>2, <1>3, <1>6 DEF Direct
<1>7. CASE ConfirmForceDelete(q) \/ ConfirmReset(q) \/ Spawn(q) \/ WaitForDaemon(q)
  BY <1>1, <1>3, <1>7 DEF ConfirmForceDelete, ConfirmReset, Spawn, WaitForDaemon, End, Go
<1>8. CASE Silent(q) \/ Interrupt(q)
  BY <1>1, <1>8 DEF Silent, Interrupt, End, Go
<1>. QED
  BY <1>4, <1>5, <1>6, <1>7, <1>8 DEF CommandSteps

LEMMA SaveStep ==
    ASSUME IndInv, [Next]_vars, NEW p \in Procs, cmd[p] \in {"discover", "tree"}
    PROVE  SavesCurrent(p)
<1>. SUFFICES ASSUME Saves(p), p \notin dirty
              PROVE  /\ store[node[p]] # Absent /\ store'[node[p]].addr = store[node[p]].addr
                     /\ store[node[p]].attrs # "none" => store'[node[p]].attrs # "none"
  BY DEF SavesCurrent
<1>i. TypeOK /\ CmdInv(p)
  BY DEF IndInv
<1>s. Op(p) = "save" /\ pc[p] \in {"ask", "held"} /\ pc'[p] # pc[p]
  BY DEF Saves
<1>c. Current(p) /\ CopyInv(p) /\ store[node[p]] # Absent
  BY <1>i, <1>s DEF CmdInv, CopyInv, Current
<1>1. ASSUME NEW a \in Operates(p) \cup Cached(p), Take(p, a)
      PROVE  store'[node[p]] = snap[p]
  <2>1. AnswerOK(p, a)
    BY <1>1, <1>c, <1>i, AnswerFacts
  <2>. QED
    BY <1>1, <1>s, <2>1 DEF AnswerOK, Take
<1>2. store' = store \/ store'[node[p]] = snap[p]
  <2>0. pc' # pc
    BY <1>s
  <2>1. CASE UNCHANGED vars
    BY <2>0, <2>1 DEF vars, cmdVars
  <2>2. ASSUME NEW q \in Procs, Run(q) \/ CommandSteps(q) \/ Interrupt(q) PROVE store' = store \/ store'[node[p]] = snap[p]
    <3>1. p = q
      BY <1>i, <1>s, <2>2, StepIsOwn
    <3>2. CASE Handle(p)
      BY <1>1, <3>2 DEF Handle
    <3>3. CASE Direct(p)
      BY <1>1, <3>3 DEF Direct
    <3>5. ~Silent(p)
      BY <1>s DEF Silent, Unbounded, DeviceOps
    <3>4. CASE ~Handle(p) /\ ~Direct(p)
      BY <2>2, <3>1, <3>4, <3>5
         DEF CommandSteps, Run, Check, Recheck, Disconnected, Respond, OpenStore, OpenTimesOut,
             Interrupt, ConfirmForceDelete, ConfirmReset, Spawn, WaitForDaemon
    <3>. QED
      BY <3>2, <3>3, <3>4
  <2>3. ASSUME NEW d \in Daemons, DaemonSteps(d) \/ KillDaemon(d) PROVE store' = store
    BY <2>3 DEF DaemonSteps, DaemonOpens, Listen, IdleTimeout, Cancelled, Shutdown, Exit, KillDaemon
  <2>4. ASSUME NEW n \in Nodes, Move(n) PROVE store' = store
    BY <2>4 DEF Move
  <2>. QED
    BY <2>1, <2>2, <2>3, <2>4 DEF Next
<1>. QED
  BY <1>2, <1>c DEF Current

(* persistAttributeCache (cli/cluster_discover.go, tree.go): unless another
   process has written the record since it was read again, saving the lists
   loses neither the address a session found nor a list that was cached,
   whichever way the record was loaded and is saved. *)
THEOREM CacheSaveIsCurrent == Spec => CacheSaveCurrent
<1>1. IndInv /\ [Next]_vars => [\A p \in Procs : cmd[p] \in {"discover", "tree"} => SavesCurrent(p)]_vars
  BY SaveStep
<1>. QED
  BY <1>1, Invariance, PTL DEF Spec, CacheSaveCurrent
=============================================================================
