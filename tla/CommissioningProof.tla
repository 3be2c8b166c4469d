------------------------- MODULE CommissioningProof -------------------------
(***************************************************************************)
(* Proofs about Commissioning, for any number of commissions at a time and *)
(* any number of faults: what the command reports is what the device did.  *)
(***************************************************************************)
EXTENDS Commissioning, TLAPS, WellFoundedInduction

Steps ==
    Calls \cup {"new", "open", "discover", "pase", "issue", "reconnect", "case",
                "save", "done"}

Devices == [armed : BOOLEAN, root : BOOLEAN, noc : Nat, creds : BOOLEAN,
            joined : BOOLEAN, done : BOOLEAN, wired : BOOLEAN]

TypeOK ==
    /\ pc \in [Procs -> Steps]
    /\ rpc \in [Procs -> {"idle", "wait", "ok", "rejected"}]
    /\ inbox \in [Procs -> SUBSET Calls]
    /\ id \in [Procs -> Nat]
    /\ result \in [Procs -> {"none", "ok", "failed", "killed"}]
    /\ dev \in [Procs -> Devices]
    /\ at \in [Procs -> Steps]

(* The steps after AddTrustedRootCertificate, and those after CASE. *)
PastCASE == {"complete", "devinfo", "save"}
PastRoot == {"nocTimed", "noc", "reconnect", "rearm", "setup", "connect", "case"}
            \cup PastCASE

(* An answer is to the call of the current step, and takes it out of the
   inbox; between calls there is none. *)
AnswerInv(p) ==
    /\ pc[p] \notin Calls => rpc[p] = "idle"
    /\ rpc[p] \in {"ok", "rejected"} => pc[p] \notin inbox[p]
    /\ pc[p] # "done" => result[p] = "none"

(* The device has no certificate but one for the ID that was chosen. *)
CertInv(p) ==
    /\ pc[p] \notin {"new", "done"} \/ inbox[p] # {} => id[p] # 0
    /\ pc[p] = "new" => inbox[p] = {} /\ dev[p].noc = 0
    /\ dev[p].noc \in {0, id[p]}
    /\ dev[p].noc # 0 => dev[p].root
    /\ dev[p].done => dev[p].noc = id[p] /\ id[p] # 0

(* A root certificate that the failsafe takes away after AddTrustedRoot was
   answered does not come back, and without it there is no NOC either. So a
   device that still has the root after CASE is the one CASE was made with. *)
RootInv(p) ==
    /\ pc[p] \in PastRoot => "root" \notin inbox[p]
    /\ pc[p] \in PastCASE /\ dev[p].root => dev[p].noc = id[p] /\ Online(dev[p])

(* The commit: who may have asked for it, and who knows of it. *)
CommitInv(p) ==
    /\ "complete" \in inbox[p] \/ dev[p].done =>
         \/ pc[p] \in PastCASE
         \/ pc[p] = "done" /\ (result[p] \in {"ok", "killed"} \/ at[p] = "complete")
    /\ \/ pc[p] \in {"devinfo", "save"}
       \/ pc[p] = "complete" /\ rpc[p] = "ok"
       \/ result[p] = "ok"
       => dev[p].done /\ Online(dev[p])

ProcInv(p) == AnswerInv(p) /\ CertInv(p) /\ RootInv(p) /\ CommitInv(p)

(* The store holds devices that have committed, and finitely many IDs. *)
NodesInv ==
    /\ \A i \in DOMAIN nodes :
         nodes[i] \in Procs /\ dev[nodes[i]].done /\ dev[nodes[i]].noc = i
    /\ DOMAIN nodes \subseteq Nat
    /\ \E m \in Nat : \A i \in DOMAIN nodes : i <= m

IndInv == TypeOK /\ (\A p \in Procs : ProcInv(p)) /\ NodesInv

-----------------------------------------------------------------------------
USE CommissioningAssumption

(* A bounded set of naturals that is not empty has a greatest element, the
   one that Max chooses. *)
LEMMA MaxOfBounded ==
    ASSUME NEW S \in SUBSET Nat, S # {}, NEW m \in Nat, \A x \in S : x <= m
    PROVE  Max(S) \in S
<1>. DEFINE T == {m - x : x \in S}
<1>1. T \subseteq Nat /\ T # {}
  <2>1. \A x \in S : m - x \in Nat
    OBVIOUS
  <2>. QED
    BY <2>1
<1>2. \E x \in T : \A y \in T : ~(<<y, x>> \in OpToRel(<, Nat))
  BY <1>1, NatLessThanWellFounded, WFMin
<1>3. PICK x \in T : \A y \in T : ~(y < x)
  <2>1. PICK x \in T : \A y \in T : ~(<<y, x>> \in OpToRel(<, Nat))
    BY <1>2
  <2>2. \A y \in T : <<y, x>> \in Nat \X Nat
    BY <1>1
  <2>3. \A y \in T : ~(y < x)
    BY <2>1, <2>2 DEF OpToRel
  <2>. QED
    BY <2>3
<1>4. PICK a \in S : x = m - a
  OBVIOUS
<1>5. \A b \in S : a >= b
  <2>1. \A b \in S : ~(m - b < m - a)
    BY <1>3, <1>4
  <2>. QED
    BY <2>1
<1>. QED
  BY <1>5 DEF Max

(* nextNodeID never returns 0, which stands for no certificate. *)
LEMMA FreeIDPositive == NodesInv => FreeID \in Nat \ {0}
<1>. SUFFICES ASSUME NodesInv PROVE FreeID \in Nat \ {0}
  OBVIOUS
<1>0. PICK m \in Nat : \A i \in DOMAIN nodes : i <= m
  BY DEF NodesInv
<1>1. \A i \in {0} \cup DOMAIN nodes : i <= m
  BY <1>0
<1>2. {0} \cup DOMAIN nodes \in SUBSET Nat
  BY DEF NodesInv
<1>3. Max({0} \cup DOMAIN nodes) \in Nat
  BY <1>1, <1>2, MaxOfBounded
<1>. QED
  BY <1>3 DEF FreeID

(* Where the flow goes after a call. *)
LEMMA AfterTable ==
    ASSUME NEW p \in Procs, pc[p] \in Calls
    PROVE  /\ After(p) \in Steps \ {"new", "open", "complete", "done"}
           /\ After(p) \in PastRoot => pc[p] \in PastRoot \cup {"root"}
           /\ After(p) \in PastCASE <=> pc[p] \in {"complete", "devinfo"}
BY DEF After, AfterNOC, Calls, Reads, Timed, Invokes, Steps, PastRoot, PastCASE

(* What a call that the device accepts does to it. *)
LEMMA EffectFacts ==
    ASSUME NEW d \in Devices, NEW k \in Calls, NEW n \in Nat, Accepts(d, k, n)
    PROVE  /\ Effect(d, k, n) \in Devices
           /\ Effect(d, k, n).done <=> d.done \/ k = "complete"
           /\ k = "complete" => d.noc = n
           /\ Effect(d, k, n).root <=> d.root \/ k = "root"
           /\ Effect(d, k, n).noc = IF k = "noc" THEN n ELSE d.noc
           /\ k = "noc" => d.root
           /\ Online(d) => Online(Effect(d, k, n))
<1>1. CASE k \in {"arm", "rearm"}
  BY <1>1 DEF Effect, Devices, Online
<1>2. CASE k = "root"
  BY <1>2 DEF Effect, Devices, Online
<1>3. CASE k = "noc"
  BY <1>3 DEF Effect, Accepts, Devices, Online
<1>4. CASE k = "setup"
  BY <1>4 DEF Effect, Devices, Online
<1>5. CASE k = "connect"
  BY <1>5 DEF Effect, Devices, Online
<1>6. CASE k = "complete"
  BY <1>6 DEF Effect, Accepts, Devices, Online
<1>7. CASE k \notin {"arm", "rearm", "root", "noc", "setup", "connect", "complete"}
  BY <1>7 DEF Effect
<1>. QED
  BY <1>1, <1>2, <1>3, <1>4, <1>5, <1>6, <1>7

LEMMA FreshFacts ==
    ASSUME NEW w \in BOOLEAN
    PROVE  /\ Fresh(w) \in Devices
           /\ ~Fresh(w).root /\ Fresh(w).noc = 0 /\ ~Fresh(w).done
BY DEF Fresh, Devices

-----------------------------------------------------------------------------
(* A step of one command, or of its device, leaves the others alone. *)
Same(q) ==
    /\ pc'[q] = pc[q] /\ rpc'[q] = rpc[q] /\ inbox'[q] = inbox[q]
    /\ id'[q] = id[q] /\ result'[q] = result[q] /\ dev'[q] = dev[q]
    /\ at'[q] = at[q]

Step(p) ==
    \/ Flow(p) \/ DeviceHandles(p)
    \/ FailsafeExpires(p) \/ Lose(p) \/ LinkDrops(p) \/ Kill(p)

LEMMA SameInv ==
    ASSUME NEW q \in Procs, Same(q), ProcInv(q) PROVE ProcInv(q)'
BY DEF Same, ProcInv, AnswerInv, CertInv, RootInv, CommitInv, Online

(* Every step is typed and stays with its process. *)
LEMMA FlowFrame ==
    ASSUME TypeOK, NodesInv, NEW p \in Procs, Flow(p)
    PROVE  TypeOK' /\ \A q \in Procs \ {p} : Same(q)
<1>. USE DEF TypeOK, Same
<1>a. \A l \in Steps : Go(p, l) => pc' \in [Procs -> Steps] /\ \A q \in Procs \ {p} : pc'[q] = pc[q]
  BY DEF Go
<1>l. {"new", "open", "discover", "pase", "arm", "issue", "rootTimed", "reconnect", "rearm",
       "case", "complete", "save", "done"} \subseteq Steps
  BY DEF Steps, Calls, Reads, Timed, Invokes
<1>f. Fail(p) => /\ pc' \in [Procs -> Steps] /\ at' \in [Procs -> Steps]
                 /\ result' \in [Procs -> {"none", "ok", "failed", "killed"}]
                 /\ \A q \in Procs \ {p} : pc'[q] = pc[q] /\ at'[q] = at[q] /\ result'[q] = result[q]
  BY <1>a, <1>l DEF Fail, Exit
<1>m. \A l \in Steps : MoveTo(p, l) =>
                 /\ pc' \in [Procs -> Steps] /\ at' = at /\ result' = result
                 /\ \A q \in Procs \ {p} : pc'[q] = pc[q]
  BY <1>a DEF MoveTo
<1>1. CASE NextNodeID(p)
  <2>1. FreeID \in Nat
    BY FreeIDPositive
  <2>2. id' \in [Procs -> Nat] /\ \A q \in Procs \ {p} : id'[q] = id[q]
    BY <1>1, <2>1 DEF NextNodeID
  <2>. QED
    BY <1>1, <1>f, <1>m, <1>l, <2>2 DEF NextNodeID
<1>2. CASE OpenStore(p)
  BY <1>2, <1>a, <1>f, <1>l DEF OpenStore
<1>3. CASE Discover(p)
  BY <1>3, <1>m, <1>f, <1>l DEF Discover
<1>4. CASE EstablishPASE(p)
  BY <1>4, <1>m, <1>f, <1>l DEF EstablishPASE, flowVars
<1>5. CASE Send(p)
  <2>1. inbox' \in [Procs -> SUBSET Calls] /\ rpc' \in [Procs -> {"idle", "wait", "ok", "rejected"}]
    BY <1>5 DEF Send
  <2>. QED
    BY <1>5, <2>1 DEF Send, flowVars
<1>6. CASE Succeeds(p)
  <2>1. After(p) \in Steps
    BY <1>6, AfterTable DEF Succeeds
  <2>. QED
    BY <1>6, <2>1, <1>m, <1>f DEF Succeeds, flowVars
<1>7. ASSUME NEW kind, pc[p] \in Calls, CallFails(p, kind) PROVE TypeOK' /\ \A q \in Procs \ {p} : Same(q)
  <2>1. After(p) \in Steps /\ AfterDrop(p) \in Steps
    BY <1>7, <1>l, AfterTable DEF AfterDrop
  <2>. QED
    BY <1>7, <2>1, <1>m, <1>f DEF CallFails, flowVars
<1>8. CASE Rejected(p) \/ Deadline(p) \/ ConnClosed(p)
  BY <1>7, <1>8 DEF Rejected, Deadline, ConnClosed, Calls
<1>9. CASE IssueNOC(p)
  BY <1>9, <1>m, <1>f, <1>l DEF IssueNOC, flowVars
<1>10. CASE ReconnectPASEAfterAddNOC(p)
  BY <1>10, <1>m, <1>f, <1>l DEF ReconnectPASEAfterAddNOC, Retry, flowVars
<1>11. CASE EstablishCASE(p)
  BY <1>11, <1>m, <1>f, <1>l DEF EstablishCASE, Retry, flowVars
<1>12. CASE SaveNode(p)
  BY <1>12, <1>a, <1>l DEF SaveNode, Exit, flowVars
<1>. QED
  BY <1>1, <1>2, <1>3, <1>4, <1>5, <1>6, <1>8, <1>9, <1>10, <1>11, <1>12 DEF Flow

LEMMA OtherFrame ==
    ASSUME TypeOK, NEW p \in Procs,
           \/ DeviceHandles(p) \/ FailsafeExpires(p) \/ Lose(p)
           \/ LinkDrops(p) \/ Kill(p)
    PROVE  TypeOK' /\ \A q \in Procs \ {p} : Same(q)
<1>. USE DEF TypeOK, Same
<1>1. CASE DeviceHandles(p)
  <2>1. PICK k \in inbox[p], s \in {"ok", "rejected"} :
          /\ s = "ok" => Accepts(dev[p], k, id[p])
          /\ inbox' = [inbox EXCEPT ![p] = @ \ {k}]
          /\ dev' = IF s = "ok" THEN [dev EXCEPT ![p] = Effect(dev[p], k, id[p])] ELSE dev
          /\ rpc' = IF k = pc[p] /\ rpc[p] = "wait" /\ link[p]
                    THEN [rpc EXCEPT ![p] = s] ELSE rpc
    BY <1>1 DEF DeviceHandles
  <2>2. s = "ok" => Effect(dev[p], k, id[p]) \in Devices
    BY <2>1, EffectFacts
  <2>3. dev' \in [Procs -> Devices] /\ \A q \in Procs \ {p} : dev'[q] = dev[q]
    BY <2>1, <2>2
  <2>4. rpc' \in [Procs -> {"idle", "wait", "ok", "rejected"}] /\ \A q \in Procs \ {p} : rpc'[q] = rpc[q]
    BY <2>1
  <2>. QED
    BY <1>1, <2>1, <2>3, <2>4 DEF DeviceHandles, flowVars
<1>2. CASE FailsafeExpires(p)
  <2>1. /\ [dev[p] EXCEPT !.armed = FALSE] \in Devices
        /\ dev[p].wired \in BOOLEAN
    <3>1. dev[p] \in Devices
      OBVIOUS
    <3>. QED
      BY <3>1 DEF Devices
  <2>2. Fresh(dev[p].wired) \in Devices
    BY <2>1, FreshFacts
  <2>3. dev' \in [Procs -> Devices] /\ \A q \in Procs \ {p} : dev'[q] = dev[q]
    BY <1>2, <2>1, <2>2 DEF FailsafeExpires
  <2>. QED
    BY <1>2, <2>3 DEF FailsafeExpires, flowVars
<1>3. CASE Lose(p)
  BY <1>3 DEF Lose, flowVars
<1>4. CASE LinkDrops(p)
  BY <1>4 DEF LinkDrops, flowVars
<1>5. CASE Kill(p)
  <2>1. "done" \in Steps
    BY DEF Steps
  <2>. QED
    BY <1>5, <2>1 DEF Kill, Exit, Go, flowVars
<1>. QED
  BY <1>1, <1>2, <1>3, <1>4, <1>5
-----------------------------------------------------------------------------
(* The flow keeps the invariant of its process. *)
LEMMA FlowStep ==
    ASSUME TypeOK, NodesInv, NEW p \in Procs, ProcInv(p), Flow(p)
    PROVE  ProcInv(p)'
<1>. USE DEF TypeOK
<1>i. AnswerInv(p) /\ CertInv(p) /\ RootInv(p) /\ CommitInv(p)
  BY DEF ProcInv
<1>c. {"new", "open", "discover", "pase", "issue", "reconnect", "case", "save", "done"}
        \cap Calls = {}
  BY DEF Calls, Reads, Timed, Invokes
<1>g. \A l : Go(p, l) => pc'[p] = l
  BY DEF Go
(* The flow gives up where the device cannot have committed, or at the call
   that commits. *)
<1>f. ASSUME Fail(p), pc[p] \notin {"devinfo", "save"}, pc[p] # "done",
             \/ rpc' = [rpc EXCEPT ![p] = "idle"]
             \/ pc[p] \notin Calls /\ rpc' = rpc,
             inbox' = inbox, dev' = dev, id' = id
      PROVE  ProcInv(p)'
  <2>1. /\ pc'[p] = "done" /\ result'[p] = "failed" /\ at'[p] = pc[p]
        /\ rpc'[p] = "idle"
    BY <1>f, <1>g, <1>i DEF Fail, Exit, AnswerInv
  <2>2. AnswerInv(p)' /\ CertInv(p)' /\ RootInv(p)'
    BY <1>f, <1>i, <2>1 DEF AnswerInv, CertInv, RootInv, PastRoot, PastCASE
  <2>3. CommitInv(p)'
    BY <1>f, <1>i, <2>1 DEF CommitInv, PastCASE
  <2>. QED
    BY <2>2, <2>3 DEF ProcInv
(* The flow goes on between two steps, neither of which is past CASE. *)
<1>m. ASSUME NEW l, MoveTo(p, l), l \notin PastCASE \cup {"new", "done"},
             pc[p] \notin PastCASE \cup {"done"},
             l \in PastRoot => pc[p] \in PastRoot \/ "root" \notin inbox[p],
             \/ rpc' = [rpc EXCEPT ![p] = "idle"]
             \/ pc[p] \notin Calls /\ rpc' = rpc,
             inbox' = inbox, dev' = dev, id' = id, id[p] # 0
      PROVE  ProcInv(p)'
  <2>1. /\ pc'[p] = l /\ result' = result /\ at' = at
        /\ rpc'[p] = "idle"
    BY <1>m, <1>g, <1>i DEF MoveTo, AnswerInv
  <2>2. AnswerInv(p)' /\ CertInv(p)' /\ RootInv(p)'
    BY <1>m, <1>i, <2>1 DEF AnswerInv, CertInv, RootInv
  <2>3. CommitInv(p)'
    BY <1>m, <1>i, <2>1 DEF CommitInv, AnswerInv, PastCASE
  <2>. QED
    BY <2>2, <2>3 DEF ProcInv
<1>1. CASE NextNodeID(p)
  <2>1. /\ pc[p] = "new" /\ inbox' = inbox /\ dev' = dev /\ rpc' = rpc
        /\ inbox[p] = {} /\ dev[p].noc = 0 /\ ~dev[p].done
    BY <1>1, <1>i DEF NextNodeID, CertInv, CommitInv, PastCASE
  <2>2. CASE Fail(p) /\ UNCHANGED id
    BY <1>c, <1>f, <2>1, <2>2
  <2>3. CASE id' = [id EXCEPT ![p] = FreeID] /\ MoveTo(p, "open")
    <3>1. pc'[p] = "open" /\ id'[p] \in Nat \ {0} /\ result' = result /\ at' = at
      BY <1>g, <2>3, FreeIDPositive DEF MoveTo
    <3>2. AnswerInv(p)' /\ CertInv(p)'
      BY <1>i, <1>c, <2>1, <3>1 DEF AnswerInv, CertInv
    <3>3. RootInv(p)' /\ CommitInv(p)'
      BY <1>i, <2>1, <3>1 DEF RootInv, CommitInv, AnswerInv, PastRoot, PastCASE
    <3>. QED
      BY <3>2, <3>3 DEF ProcInv
  <2>. QED
    BY <1>1, <2>2, <2>3 DEF NextNodeID
<1>n. pc[p] \notin {"new", "done"} => id[p] # 0
  BY <1>i DEF CertInv
<1>2. CASE OpenStore(p)
  <2>1. CASE Fail(p)
    BY <1>2, <1>c, <1>f, <2>1 DEF OpenStore
  <2>2. CASE Go(p, "discover") /\ UNCHANGED <<result, at>>
    <3>1. pc'[p] = "discover"
      BY <1>g, <2>2
    <3>2. AnswerInv(p)' /\ CertInv(p)' /\ RootInv(p)'
      BY <1>2, <1>i, <1>c, <2>2, <3>1
         DEF OpenStore, AnswerInv, CertInv, RootInv, PastRoot, PastCASE
    <3>3. CommitInv(p)'
      BY <1>2, <1>i, <2>2, <3>1 DEF OpenStore, AnswerInv, CommitInv, PastCASE
    <3>. QED
      BY <3>2, <3>3 DEF ProcInv
  <2>. QED
    BY <1>2, <2>1, <2>2 DEF OpenStore
<1>3. CASE Discover(p)
  BY <1>3, <1>c, <1>f, <1>m, <1>n DEF Discover, PastRoot, PastCASE
<1>4. CASE EstablishPASE(p)
  BY <1>4, <1>c, <1>f, <1>m, <1>n DEF EstablishPASE, PastRoot, PastCASE, flowVars
<1>5. CASE Send(p)
  <2>1. /\ pc[p] \in Calls /\ pc[p] # "done" /\ rpc'[p] = "wait" /\ id' = id
        /\ inbox'[p] = inbox[p] \cup {pc[p]} /\ pc[p] # "new"
        /\ pc' = pc /\ dev' = dev /\ result' = result /\ at' = at
    BY <1>5, <1>c DEF Send, flowVars
  <2>2. AnswerInv(p)' /\ CertInv(p)'
    BY <1>i, <2>1 DEF AnswerInv, CertInv
  <2>3. RootInv(p)' /\ CommitInv(p)'
    BY <1>i, <2>1 DEF RootInv, CommitInv, AnswerInv, PastRoot, PastCASE
  <2>. QED
    BY <2>2, <2>3 DEF ProcInv
(* Past the commit every call leads on to the end. *)
<1>p. ASSUME pc[p] \in {"complete", "devinfo"}, MoveTo(p, After(p)), dev[p].done, Online(dev[p]),
             rpc' = [rpc EXCEPT ![p] = "idle"], inbox' = inbox, dev' = dev, id' = id
      PROVE  ProcInv(p)'
  <2>1. /\ pc'[p] \in {"devinfo", "save"} /\ result' = result /\ at' = at
        /\ rpc'[p] = "idle"
    BY <1>p, <1>g DEF MoveTo, After
  <2>2. AnswerInv(p)' /\ CertInv(p)' /\ RootInv(p)'
    BY <1>p, <1>i, <2>1 DEF AnswerInv, CertInv, RootInv, PastRoot, PastCASE
  <2>3. CommitInv(p)'
    BY <1>p, <1>i, <2>1 DEF CommitInv, PastCASE
  <2>. QED
    BY <2>2, <2>3 DEF ProcInv
<1>6. CASE Succeeds(p)
  <2>1. CASE pc[p] = "features" /\ Fail(p)
    BY <1>6, <1>f, <2>1 DEF Succeeds, flowVars
  <2>2. CASE pc[p] \in {"complete", "devinfo"} /\ MoveTo(p, After(p))
    BY <1>6, <1>i, <1>p, <2>2 DEF Succeeds, CommitInv, flowVars
  <2>3. CASE pc[p] \notin {"complete", "devinfo"} /\ MoveTo(p, After(p))
    <3>1. /\ After(p) \notin PastCASE \cup {"new", "done"}
          /\ After(p) \in PastRoot => pc[p] \in PastRoot \cup {"root"}
          /\ pc[p] \notin PastCASE \cup {"done"} /\ pc[p] # "new"
      BY <1>6, <1>c, <2>3, AfterTable DEF Succeeds, PastCASE
    <3>2. pc[p] \notin inbox[p]
      BY <1>6, <1>i DEF Succeeds, AnswerInv
    <3>. QED
      BY <1>6, <1>m, <1>n, <2>3, <3>1, <3>2 DEF Succeeds, flowVars
  <2>. QED
    BY <1>6, <2>1, <2>2, <2>3 DEF Succeeds
<1>7. ASSUME NEW kind, pc[p] \in Calls, CallFails(p, kind) PROVE ProcInv(p)'
  <2>0. /\ rpc' = [rpc EXCEPT ![p] = "idle"] /\ inbox' = inbox /\ dev' = dev /\ id' = id
        /\ pc[p] \notin {"save", "done", "new"}
    BY <1>7, <1>c DEF CallFails, flowVars
  <2>1. CASE ~Tolerated(p, kind)
    BY <1>7, <1>f, <2>0, <2>1 DEF CallFails, Tolerated
  <2>2. CASE Tolerated(p, kind) /\ pc[p] = "devinfo"
    <3>1. MoveTo(p, After(p))
      BY <1>7, <2>2 DEF CallFails, Reads
    <3>. QED
      BY <1>i, <1>p, <2>0, <2>2, <3>1 DEF CommitInv
  <2>3. CASE Tolerated(p, kind) /\ pc[p] \in {"info", "features"}
    <3>1. MoveTo(p, After(p))
      BY <1>7, <2>3 DEF CallFails, Reads
    <3>2. /\ After(p) \notin PastCASE \cup PastRoot \cup {"new", "done"}
          /\ pc[p] \notin PastCASE \cup {"done"}
      BY <1>7, <2>3, AfterTable DEF PastCASE, PastRoot
    <3>. QED
      BY <1>m, <1>n, <2>0, <3>1, <3>2
  <2>4. CASE Tolerated(p, kind) /\ pc[p] \notin Reads
    <3>1. MoveTo(p, AfterDrop(p)) /\ pc[p] \in {"nocTimed", "noc", "connect", "setup"}
      BY <1>7, <2>4 DEF CallFails, Tolerated, Reads
    <3>2. /\ AfterDrop(p) \notin PastCASE \cup {"new", "done"}
          /\ pc[p] \notin PastCASE \cup {"done"} /\ pc[p] \in PastRoot
      BY <3>1 DEF AfterDrop, PastCASE, PastRoot
    <3>. QED
      BY <1>m, <1>n, <2>0, <3>1, <3>2
  <2>. QED
    BY <2>1, <2>2, <2>3, <2>4 DEF Tolerated, Reads
<1>8. CASE Rejected(p) \/ Deadline(p) \/ ConnClosed(p)
  BY <1>7, <1>8 DEF Rejected, Deadline, ConnClosed, Calls
<1>9. CASE IssueNOC(p)
  BY <1>9, <1>c, <1>f, <1>m, <1>n DEF IssueNOC, PastRoot, PastCASE, flowVars
<1>r. ASSUME NEW limit, Retry(p, limit), pc[p] \in {"reconnect", "case"},
             rpc' = rpc, inbox' = inbox, dev' = dev, id' = id
      PROVE  ProcInv(p)'
  <2>1. CASE Fail(p)
    BY <1>r, <1>c, <1>f, <2>1
  <2>2. CASE MoveTo(p, pc[p])
    BY <1>r, <1>c, <1>m, <1>n, <2>2 DEF PastRoot, PastCASE
  <2>. QED
    BY <1>r, <2>1, <2>2 DEF Retry
<1>10. CASE ReconnectPASEAfterAddNOC(p)
  <2>1. CASE MoveTo(p, "rearm")
    BY <1>10, <1>c, <1>m, <1>n, <2>1 DEF ReconnectPASEAfterAddNOC, PastRoot, PastCASE, flowVars
  <2>2. CASE Retry(p, Reconnects)
    BY <1>10, <1>r, <2>2 DEF ReconnectPASEAfterAddNOC, flowVars
  <2>. QED
    BY <1>10, <2>1, <2>2 DEF ReconnectPASEAfterAddNOC
<1>11. CASE EstablishCASE(p)
  <2>1. CASE dev[p].noc = id[p] /\ Online(dev[p]) /\ MoveTo(p, "complete")
    <3>1. /\ pc[p] = "case" /\ rpc[p] = "idle" /\ rpc' = rpc /\ inbox' = inbox /\ dev' = dev /\ id' = id
          /\ pc'[p] = "complete" /\ result' = result /\ at' = at
      BY <1>11, <1>c, <1>g, <1>i, <2>1 DEF EstablishCASE, AnswerInv, MoveTo, flowVars
    <3>2. AnswerInv(p)' /\ CertInv(p)' /\ RootInv(p)'
      BY <1>i, <2>1, <3>1 DEF AnswerInv, CertInv, RootInv, PastRoot, PastCASE
    <3>3. CommitInv(p)'
      BY <1>i, <3>1 DEF CommitInv, AnswerInv, PastCASE
    <3>. QED
      BY <3>2, <3>3 DEF ProcInv
  <2>2. CASE Retry(p, CaseLimit(p))
    BY <1>11, <1>r, <2>2 DEF EstablishCASE, flowVars
  <2>. QED
    BY <1>11, <2>1, <2>2 DEF EstablishCASE
<1>12. CASE SaveNode(p)
  <2>1. /\ pc[p] = "save" /\ rpc[p] = "idle" /\ rpc' = rpc /\ inbox' = inbox /\ dev' = dev /\ id' = id
        /\ pc'[p] = "done" /\ result'[p] = "ok" /\ at' = at
    BY <1>12, <1>c, <1>g, <1>i DEF SaveNode, Exit, AnswerInv, flowVars
  <2>2. AnswerInv(p)' /\ CertInv(p)' /\ RootInv(p)'
    BY <1>i, <2>1 DEF AnswerInv, CertInv, RootInv, PastRoot, PastCASE
  <2>3. CommitInv(p)'
    BY <1>i, <2>1 DEF CommitInv, PastCASE
  <2>. QED
    BY <2>2, <2>3 DEF ProcInv
<1>. QED
  BY <1>1, <1>2, <1>3, <1>4, <1>5, <1>6, <1>8, <1>9, <1>10, <1>11, <1>12 DEF Flow
(* ... and so do its device, the network and the user. *)
LEMMA DeviceStep ==
    ASSUME TypeOK, NEW p \in Procs, ProcInv(p), DeviceHandles(p)
    PROVE  ProcInv(p)'
<1>. USE DEF TypeOK
<1>i. AnswerInv(p) /\ CertInv(p) /\ RootInv(p) /\ CommitInv(p)
  BY DEF ProcInv
<1>1. PICK k \in inbox[p], s \in {"ok", "rejected"} :
        /\ s = "ok" => Accepts(dev[p], k, id[p])
        /\ inbox' = [inbox EXCEPT ![p] = @ \ {k}]
        /\ dev' = IF s = "ok" THEN [dev EXCEPT ![p] = Effect(dev[p], k, id[p])] ELSE dev
        /\ rpc' = IF k = pc[p] /\ rpc[p] = "wait" /\ link[p]
                  THEN [rpc EXCEPT ![p] = s] ELSE rpc
  BY DEF DeviceHandles
<1>2. /\ pc' = pc /\ id' = id /\ result' = result /\ at' = at
      /\ inbox'[p] = inbox[p] \ {k} /\ k \in Calls /\ id[p] # 0 /\ pc[p] # "new"
  BY <1>1, <1>i DEF DeviceHandles, CertInv, flowVars
<1>3. AnswerInv(p)'
  <2>1. CASE rpc' = rpc
    BY <1>i, <1>2, <2>1 DEF AnswerInv
  <2>2. CASE k = pc[p] /\ rpc'[p] = s
    BY <1>i, <1>2, <2>2 DEF AnswerInv
  <2>. QED
    BY <1>1, <2>1, <2>2
<1>4. CASE s = "rejected"
  <2>1. dev' = dev /\ (rpc'[p] = "ok" => rpc[p] = "ok")
    BY <1>1, <1>4
  <2>2. CertInv(p)' /\ RootInv(p)' /\ CommitInv(p)'
    BY <1>i, <1>2, <2>1 DEF CertInv, RootInv, CommitInv
  <2>. QED
    BY <1>3, <2>2 DEF ProcInv
<1>5. CASE s = "ok"
  <2>. DEFINE d == dev[p]
              e == Effect(dev[p], k, id[p])
  <2>1. /\ d \in Devices /\ dev'[p] = e
        /\ e.done <=> d.done \/ k = "complete"
        /\ k = "complete" => d.noc = id[p]
        /\ e.root <=> d.root \/ k = "root"
        /\ e.noc = IF k = "noc" THEN id[p] ELSE d.noc
        /\ k = "noc" => d.root
        /\ Online(d) => Online(e)
    BY <1>1, <1>2, <1>5, EffectFacts
  <2>. HIDE DEF d, e
  <2>i. /\ d.noc \in {0, id[p]} /\ (d.noc # 0 => d.root)
        /\ d.done => d.noc = id[p]
        /\ pc[p] \in PastRoot => k # "root"
        /\ pc[p] \in PastCASE /\ d.root => d.noc = id[p] /\ Online(d)
    BY <1>i, <1>1 DEF CertInv, RootInv, d
  <2>2. CertInv(p)'
    BY <1>2, <2>1, <2>i DEF CertInv
  <2>3. RootInv(p)'
    <3>1. pc[p] \in PastCASE => pc[p] \in PastRoot
      BY DEF PastRoot
    <3>. QED
      BY <1>i, <1>2, <2>1, <2>i, <3>1 DEF RootInv
  <2>4. CommitInv(p)'
    <3>1. "complete" \in inbox'[p] \/ e.done => "complete" \in inbox[p] \/ d.done
      BY <1>1, <1>2, <2>1
    <3>2. pc[p] = "complete" /\ rpc'[p] = "ok" => rpc[p] = "ok" \/ k = "complete"
      BY <1>1
    <3>3. pc[p] = "complete" /\ k = "complete" => Online(e)
      BY <1>2, <2>1, <2>i DEF PastCASE
    <3>4. "complete" \in inbox[p] \/ d.done =>
            \/ pc[p] \in PastCASE
            \/ pc[p] = "done" /\ (result[p] \in {"ok", "killed"} \/ at[p] = "complete")
      BY <1>i DEF CommitInv, d
    <3>5. (\/ pc[p] \in {"devinfo", "save"}
           \/ pc[p] = "complete" /\ rpc[p] = "ok"
           \/ result[p] = "ok") => d.done /\ Online(d)
      BY <1>i DEF CommitInv, d
    <3>. QED
      BY <1>2, <2>1, <3>1, <3>2, <3>3, <3>4, <3>5 DEF CommitInv
  <2>. QED
    BY <1>3, <2>2, <2>3, <2>4 DEF ProcInv
<1>. QED
  BY <1>4, <1>5

LEMMA FaultStep ==
    ASSUME TypeOK, NEW p \in Procs, ProcInv(p),
           FailsafeExpires(p) \/ Lose(p) \/ LinkDrops(p) \/ Kill(p)
    PROVE  ProcInv(p)'
<1>. USE DEF TypeOK
<1>i. AnswerInv(p) /\ CertInv(p) /\ RootInv(p) /\ CommitInv(p)
  BY DEF ProcInv
<1>1. CASE FailsafeExpires(p)
  <2>0. /\ pc' = pc /\ rpc' = rpc /\ inbox' = inbox /\ id' = id /\ result' = result /\ at' = at
        /\ dev[p] \in Devices
    BY <1>1 DEF FailsafeExpires, flowVars
  <2>1. CASE dev[p].done
    <3>1. dev'[p] = [dev[p] EXCEPT !.armed = FALSE]
      BY <1>1, <2>1 DEF FailsafeExpires
    <3>2. /\ dev'[p].root = dev[p].root /\ dev'[p].noc = dev[p].noc
          /\ dev'[p].done = dev[p].done /\ (Online(dev[p]) => Online(dev'[p]))
      BY <2>0, <3>1 DEF Devices, Online
    <3>3. CertInv(p)' /\ RootInv(p)'
      BY <1>i, <2>0, <3>2 DEF CertInv, RootInv
    <3>4. AnswerInv(p)' /\ CommitInv(p)'
      BY <1>i, <2>0, <3>2 DEF AnswerInv, CommitInv
    <3>. QED
      BY <3>3, <3>4 DEF ProcInv
  <2>2. CASE ~dev[p].done
    <3>1. dev'[p] = Fresh(dev[p].wired) /\ dev[p].wired \in BOOLEAN
      BY <1>1, <2>0, <2>2 DEF FailsafeExpires, Devices
    <3>2. ~dev'[p].root /\ dev'[p].noc = 0 /\ ~dev'[p].done
      BY <3>1, FreshFacts
    <3>3. CertInv(p)' /\ RootInv(p)'
      BY <1>i, <2>0, <3>2 DEF CertInv, RootInv
    <3>4. AnswerInv(p)' /\ CommitInv(p)'
      BY <1>i, <2>0, <2>2, <3>2 DEF AnswerInv, CommitInv
    <3>. QED
      BY <3>3, <3>4 DEF ProcInv
  <2>. QED
    BY <2>1, <2>2
<1>2. ASSUME Lose(p) \/ LinkDrops(p) PROVE ProcInv(p)'
  <2>1. /\ pc' = pc /\ id' = id /\ result' = result /\ at' = at /\ dev' = dev
        /\ inbox'[p] \in {inbox[p], {}}
        /\ rpc'[p] = rpc[p] \/ (rpc'[p] = "wait" /\ rpc[p] \in {"ok", "rejected"})
    BY <1>2 DEF Lose, LinkDrops, flowVars
  <2>2. AnswerInv(p)' /\ CertInv(p)'
    BY <1>i, <2>1 DEF AnswerInv, CertInv
  <2>3. RootInv(p)' /\ CommitInv(p)'
    BY <1>i, <2>1 DEF RootInv, CommitInv
  <2>. QED
    BY <2>2, <2>3 DEF ProcInv
<1>3. CASE Kill(p)
  <2>1. /\ id' = id /\ at' = at /\ dev' = dev /\ inbox' = inbox
        /\ pc'[p] = "done" /\ result'[p] = "killed" /\ rpc'[p] = "idle"
    BY <1>3 DEF Kill, Exit, Go, flowVars
  <2>2. AnswerInv(p)' /\ CertInv(p)' /\ RootInv(p)'
    BY <1>i, <2>1 DEF AnswerInv, CertInv, RootInv, PastRoot, PastCASE
  <2>3. CommitInv(p)'
    BY <1>i, <2>1 DEF CommitInv, PastCASE
  <2>. QED
    BY <2>2, <2>3 DEF ProcInv
<1>. QED
  BY <1>1, <1>2, <1>3

(* A device that has committed never loses its certificate. *)
LEMMA CommitStays ==
    ASSUME TypeOK, NEW p \in Procs, ProcInv(p), Step(p), dev[p].done
    PROVE  dev'[p].done /\ dev'[p].noc = dev[p].noc
<1>. USE DEF TypeOK
<1>1. dev[p] \in Devices
  OBVIOUS
<1>2. CASE dev' = dev
  BY <1>2
<1>3. CASE FailsafeExpires(p)
  BY <1>1, <1>3 DEF FailsafeExpires, Devices
<1>4. CASE DeviceHandles(p)
  <2>1. PICK k \in inbox[p] :
          \/ dev' = dev
          \/ Accepts(dev[p], k, id[p]) /\ dev' = [dev EXCEPT ![p] = Effect(dev[p], k, id[p])]
    BY <1>4 DEF DeviceHandles
  <2>2. dev[p].noc = id[p]
    BY DEF ProcInv, CertInv
  <2>. QED
    BY <1>1, <2>1, <2>2, EffectFacts
<1>5. Flow(p) \/ Lose(p) \/ LinkDrops(p) \/ Kill(p) => dev' = dev
  BY DEF Flow, NextNodeID, OpenStore, Discover, EstablishPASE, Send, Succeeds, Rejected,
         Deadline, ConnClosed, CallFails, IssueNOC, ReconnectPASEAfterAddNOC, EstablishCASE,
         SaveNode, Lose, LinkDrops, Kill
<1>. QED
  BY <1>2, <1>3, <1>4, <1>5 DEF Step

LEMMA NodesStep ==
    ASSUME IndInv, NEW p \in Procs, Step(p), \A q \in Procs \ {p} : Same(q)
    PROVE  NodesInv'
<1>. USE DEF IndInv, TypeOK
<1>1. \A q \in Procs : dev[q].done => dev'[q].done /\ dev'[q].noc = dev[q].noc
  BY CommitStays DEF Same
<1>2. CASE nodes' = nodes
  BY <1>1, <1>2 DEF NodesInv
<1>3. CASE SaveNode(p) /\ nodes' # nodes
  <2>1. /\ nodes' = [i \in DOMAIN nodes \cup {id[p]} |-> IF i = id[p] THEN p ELSE nodes[i]]
        /\ pc[p] = "save"
    BY <1>3 DEF SaveNode
  <2>2. dev[p].done /\ dev[p].noc = id[p] /\ id[p] \in Nat
    BY <2>1 DEF ProcInv, CommitInv, CertInv
  <2>3. \A i \in DOMAIN nodes' :
          nodes'[i] \in Procs /\ dev'[nodes'[i]].done /\ dev'[nodes'[i]].noc = i
    BY <1>1, <2>1, <2>2 DEF NodesInv
  <2>4. DOMAIN nodes' \subseteq Nat
    BY <2>1, <2>2 DEF NodesInv
  <2>5. PICK m \in Nat : \A i \in DOMAIN nodes : i <= m
    BY DEF NodesInv
  <2>6. m + id[p] \in Nat /\ \A i \in DOMAIN nodes' : i <= m + id[p]
    BY <2>1, <2>2, <2>4, <2>5 DEF NodesInv
  <2>. QED
    BY <2>3, <2>4, <2>6 DEF NodesInv
<1>4. SaveNode(p) \/ nodes' = nodes
  BY DEF Step, Flow, NextNodeID, OpenStore, Discover, EstablishPASE, Send, Succeeds, Rejected,
         Deadline, ConnClosed, CallFails, IssueNOC, ReconnectPASEAfterAddNOC, EstablishCASE,
         DeviceHandles, FailsafeExpires, Lose, LinkDrops, Kill
<1>. QED
  BY <1>2, <1>3, <1>4

-----------------------------------------------------------------------------
LEMMA InitInv == Init => IndInv
<1>. SUFFICES ASSUME Init PROVE IndInv
  OBVIOUS
<1>1. \A p \in Procs : dev[p] \in Devices /\ ~dev[p].root /\ dev[p].noc = 0 /\ ~dev[p].done
  BY FreshFacts DEF Init
<1>2. TypeOK
  <2>1. dev \in [Procs -> Devices]
    BY <1>1 DEF Init
  <2>. QED
    BY <2>1 DEF Init, TypeOK, Steps
<1>3. ASSUME NEW p \in Procs PROVE ProcInv(p)
  BY <1>1 DEF Init, ProcInv, AnswerInv, CertInv, RootInv, CommitInv, PastRoot, PastCASE, Calls,
              Reads, Timed, Invokes
<1>4. NodesInv
  <2>1. DOMAIN nodes = {}
    BY DEF Init
  <2>. QED
    BY <2>1 DEF NodesInv
<1>. QED
  BY <1>2, <1>3, <1>4 DEF IndInv

LEMMA NextInv == IndInv /\ [Next]_vars => IndInv'
<1>. SUFFICES ASSUME IndInv, [Next]_vars PROVE IndInv'
  OBVIOUS
<1>i. TypeOK /\ NodesInv /\ \A q \in Procs : ProcInv(q)
  BY DEF IndInv
<1>1. ASSUME NEW p \in Procs, Step(p) PROVE IndInv'
  <2>1. TypeOK' /\ \A q \in Procs \ {p} : Same(q)
    BY <1>1, <1>i, FlowFrame, OtherFrame DEF Step
  <2>2. ProcInv(p)'
    BY <1>1, <1>i, FlowStep, DeviceStep, FaultStep DEF Step
  <2>3. \A q \in Procs \ {p} : ProcInv(q)'
    BY <1>i, <2>1, SameInv
  <2>4. NodesInv'
    BY <1>1, <2>1, NodesStep
  <2>. QED
    BY <2>1, <2>2, <2>3, <2>4 DEF IndInv
<1>2. CASE UNCHANGED vars
  <2>1. TypeOK' /\ NodesInv' /\ \A q \in Procs : Same(q)
    BY <1>2, <1>i DEF vars, TypeOK, NodesInv, Same
  <2>. QED
    BY <1>i, <2>1, SameInv DEF IndInv
<1>. QED
  BY <1>1, <1>2 DEF Next, Step, Terminated

(* What `matter commission` reports is what happened: a success, and every
   record in the store, belongs to a device that has committed under that
   node ID and is on the network; an error with a committed device comes
   only from CommissioningComplete itself (flow.go 555-608). *)
THEOREM CommissioningIsHonest == Spec => []OutcomeHonest
<1>1. IndInv => OutcomeHonest
  <2>. SUFFICES ASSUME IndInv PROVE OutcomeHonest
    OBVIOUS
  <2>1. ASSUME NEW p \in Procs, result[p] = "ok"
        PROVE  dev[p].done /\ dev[p].noc = id[p] /\ Online(dev[p])
    BY <2>1 DEF IndInv, ProcInv, CertInv, CommitInv
  <2>2. ASSUME NEW p \in Procs, result[p] = "failed", dev[p].done
        PROVE  at[p] = "complete"
    <3>1. pc[p] = "done"
      BY <2>2 DEF IndInv, ProcInv, AnswerInv
    <3>. QED
      BY <2>2, <3>1 DEF IndInv, ProcInv, CommitInv, PastCASE
  <2>3. \A i \in DOMAIN nodes : dev[nodes[i]].done /\ dev[nodes[i]].noc = i
    BY DEF IndInv, NodesInv
  <2>. QED
    BY <2>1, <2>2, <2>3 DEF OutcomeHonest
<1>. QED
  BY <1>1, InitInv, NextInv, PTL DEF Spec
=============================================================================
