---------------------------- MODULE Interaction ----------------------------
(***************************************************************************)
(* One interaction with a device: Read, Write, Invoke and InvokeTimed of   *)
(* interaction.Client, from the request to what the user is told. The      *)
(* caller is a cluster command with its own session, a cluster command     *)
(* that goes through the session daemon, or the commissioner.              *)
(*                                                                         *)
(* The device cuts its report into chunks where it likes, sends a list     *)
(* whole or as a prefix and appended items, refuses with a status at any   *)
(* point, and its transport may repeat a message whose acknowledgement was *)
(* lost; the network may lose any message.                                 *)
(***************************************************************************)
EXTENDS Integers, Sequences, SequencesExt, FiniteSets

CONSTANTS
    Attrs,      \* the attributes of the cluster that is read, numbers
    Value,      \* their values: a sequence of items for a list
    Lists,      \* the attributes that are lists
    HiddenSets, \* the sets of attributes a device may answer with a status
    Item,       \* a scalar value the user writes
    Ops,        \* the operations of the run: records of kind, via and attr
    MaxDups,    \* bound: messages the device's transport repeats
    MaxPrefix,  \* bound: items of a list the device sends with its first report
    None

ASSUME InteractionAssumption ==
    /\ Attrs \subseteq Nat \ {0} /\ IsFiniteSet(Attrs)
    /\ Lists \subseteq Attrs /\ HiddenSets \subseteq SUBSET Attrs
    /\ Ops \subseteq [kind : {"read", "write", "invoke", "timed"},
                      via : {"direct", "daemon", "commissioner"}, attr : Nat]
    /\ None \notin Nat /\ None \notin {"error", "status"}
    /\ \A a \in Lists : Value[a] \in Seq(STRING)
    /\ MaxDups \in Nat /\ MaxPrefix \in Nat

VARIABLES
    op,         \* the operation
    pc,         \* where Client.Read, Write or invokeInternal is
    reports,    \* allReports: what Read has collected
    resp,       \* what the client call returned
    result,     \* what the user is told
    toDev,      \* messages on their way to the device
    toCli,      \* messages on their way to the exchange of the call
    dev,        \* the device: rest of its report, its timed window, its state
    dups

vars == <<op, pc, reports, resp, result, toDev, toCli, dev, dups>>

Success  == 0
Denied   == 1       \* a general status other than success
Wildcard == 0       \* the path without an attribute

-----------------------------------------------------------------------------
(* Reports on the wire *)

DataReport(a, v)   == [attr |-> a, status |-> None, append |-> FALSE, value |-> v]
AppendItem(a, v)   == [attr |-> a, status |-> None, append |-> TRUE, value |-> v]
StatusReport(a, c) == [attr |-> a, status |-> c, append |-> FALSE, value |-> None]

ReportData(rs, more) == [op |-> "ReportData", reports |-> rs, more |-> more]
StatusResponse(c)    == [op |-> "StatusResponse", code |-> c]
WriteResponse(sts)   == [op |-> "WriteResponse", statuses |-> sts]
InvokeResponse(ibs)  == [op |-> "InvokeResponse", ibs |-> ibs]
InvokeResponseIB(st, data) == [status |-> st, data |-> data]

ReadRequest(a)      == [op |-> "ReadRequest", attr |-> a]
WriteRequest(a, v)  == [op |-> "WriteRequest", attr |-> a, value |-> v]
InvokeRequest(t)    == [op |-> "InvokeRequest", timed |-> t]
TimedRequest        == [op |-> "TimedRequest"]

-----------------------------------------------------------------------------
(* reassembleListChunks *)

SpliceListItems(base, items) == base \o items

FinalizeListGroup(base, appends) ==
    IF appends = <<>> \/ base.attr \notin Lists THEN base
    ELSE [base EXCEPT !.value = SpliceListItems(@, appends)]

(* attributeReportKey: only a report of data has a key. *)
HasKey(r) == r.status = None

ContinuesOnce(rs, i, j) ==
    i = j + 1 /\ HasKey(rs[j]) /\ ~rs[j].append /\ HasKey(rs[i]) /\ rs[i].append /\ rs[i].attr = rs[j].attr

(* Report i is appended to the group that report j opened: a list, and nothing
   has come since but items appended to the same attribute. *)
Continues(rs, i, j) ==
    /\ j < i /\ HasKey(rs[j]) /\ ~rs[j].append /\ rs[j].attr \in Lists
    /\ \A k \in (j + 1)..i : HasKey(rs[k]) /\ rs[k].append /\ rs[k].attr = rs[j].attr

Appends(rs, j) ==
    LET n == Cardinality({i \in DOMAIN rs : Continues(rs, i, j)})
    IN  [i \in 1..n |-> rs[j + i].value]

(* A group is emitted where it was opened; an item that continues none, and a
   status, are passed through. *)
ReassembleListChunks(rs) ==
    FlattenSeq([i \in DOMAIN rs |->
        IF \E j \in DOMAIN rs : Continues(rs, i, j) THEN <<>>
        ELSE <<FinalizeListGroup(rs[i], Appends(rs, i))>>])

-----------------------------------------------------------------------------
(* From reports to what the user is told *)

Ok(body)      == [ok |-> TRUE, status |-> None, body |-> body]
Failed        == [ok |-> FALSE, status |-> None, body |-> None]
Refused(code) == [ok |-> FALSE, status |-> code, body |-> None]

(* statusFromCode, statusFromIB: no error for success. *)
StatusFromCode(code) == IF code = Success THEN None ELSE code

AttrReport(a, err, v) == [attr |-> a, err |-> err, value |-> v]

DirectAttrReports(rs) ==
    [i \in DOMAIN rs |->
        IF rs[i].status # None THEN AttrReport(rs[i].attr, rs[i].status, None)
                               ELSE AttrReport(rs[i].attr, None, rs[i].value)]

(* base64; the empty string stands for no data *)
EncodeFields(data) == IF data = None THEN <<>> ELSE <<"base64", data>>
DecodeFields(s)    == IF s = <<>> THEN None ELSE s[2]

(* handleRead: the reports as the daemon's answer carries them. *)
ReadResp(rs) ==
    [i \in DOMAIN rs |->
        [attr |-> rs[i].attr,
         code |-> IF rs[i].status # None THEN rs[i].status ELSE Success,
         data |-> EncodeFields(rs[i].value)]]

DaemonAttrReports(answer) ==
    [i \in DOMAIN answer |->
        IF answer[i].code # Success
        THEN AttrReport(answer[i].attr, answer[i].code, None)
        ELSE AttrReport(answer[i].attr, None, DecodeFields(answer[i].data))]

(* buildReadRecords: a stable sort by the attribute IDs. *)
BuildReadRecords(rs) ==
    LET keys     == {<<rs[i].attr, i>> : i \in DOMAIN rs}
        upTo(k)  == {l \in keys : l[1] < k[1] \/ (l[1] = k[1] /\ l[2] <= k[2])}
        index(n) == (CHOOSE k \in keys : Cardinality(upTo(k)) = n)[2]
    IN  [n \in DOMAIN rs |-> rs[index(n)]]

(* runClusterRead *)
ReadOutcome(o, rs) ==
    IF rs = <<>> THEN Failed
    ELSE IF o.attr # Wildcard /\ Len(rs) = 1 /\ rs[1].err # None THEN Refused(rs[1].err)
    ELSE Ok(BuildReadRecords(rs))

FirstFailure(codes) ==
    LET bad == {i \in DOMAIN codes : codes[i] # Success}
    IN  IF bad = {} THEN None ELSE codes[CHOOSE i \in bad : \A j \in bad : i <= j]

WriteOutcome(codes) ==
    IF FirstFailure(codes) = None THEN Ok(None) ELSE Refused(FirstFailure(codes))

InvokeOutcomeUnchecked(ib) == Ok(ib.data)

InvokeOutcome(ib) ==
    IF ib.status # None /\ ib.status # Success THEN Refused(ib.status) ELSE Ok(ib.data)

(* controllerIMClient.ReadAttribute: the first data, or nothing. *)
ReadAttributeOutcome(rs) ==
    LET data == {i \in DOMAIN rs : rs[i].status = None}
    IN  Ok(IF data = {} THEN None ELSE rs[CHOOSE i \in data : \A j \in data : i <= j].value)

(* A client call through the commands' own session. *)
DirectOutcome(o, r) ==
    IF r.err # None THEN IF r.err = "status" THEN Refused(r.code) ELSE Failed
    ELSE CASE o.kind = "read"  -> ReadOutcome(o, DirectAttrReports(r.body))
           [] o.kind = "write" -> WriteOutcome(r.body)
           [] OTHER            -> InvokeOutcome(r.body)

(* handleWrite *)
WriteResp(codes) == [i \in DOMAIN codes |-> [code |-> codes[i]]]

(* The same call made by the daemon: its answer is JSON, in which a typed
   status travels as a number that is 0 when there is none. *)
DaemonResponse(o, r) ==
    IF r.err # None
    THEN [ok |-> FALSE, code |-> IF r.err = "status" THEN r.code ELSE 0, body |-> None]
    ELSE [ok |-> TRUE, code |-> 0,
          body |-> CASE o.kind = "read"  -> ReadResp(r.body)
                     [] o.kind = "write" -> WriteResp(r.body)
                     [] OTHER -> [code |-> IF r.body.status # None THEN r.body.status ELSE 0,
                                  data |-> EncodeFields(r.body.data)]]

DaemonOutcomeUntyped(o, a) == IF ~a.ok THEN Failed ELSE Ok(None)

DaemonOutcome(o, a) ==
    IF ~a.ok THEN IF a.code # 0 THEN Refused(a.code) ELSE Failed
    ELSE CASE o.kind = "read"  -> ReadOutcome(o, DaemonAttrReports(a.body))
           [] o.kind = "write" -> WriteOutcome([i \in DOMAIN a.body |-> a.body[i].code])
           [] OTHER            -> IF a.body.code # 0 THEN Refused(a.body.code)
                                  ELSE Ok(DecodeFields(a.body.data))

CommissionerOutcome(o, r) ==
    IF r.err # None \/ o.kind # "read" THEN DirectOutcome(o, r)
    ELSE ReadAttributeOutcome(r.body)

Outcome(o, r) ==
    CASE o.via = "direct" -> DirectOutcome(o, r)
      [] o.via = "daemon" -> DaemonOutcome(o, DaemonResponse(o, r))
      [] OTHER            -> CommissionerOutcome(o, r)

-----------------------------------------------------------------------------
(* The client *)

Init ==
    /\ op \in Ops
    /\ pc = "start" /\ reports = <<>> /\ resp = None /\ result = None
    /\ toDev = {} /\ toCli = {} /\ dups = 0
    /\ \E h \in HiddenSets :
       \E c \in [h -> {Success, Denied}] :
         dev = [left |-> None, timed |-> FALSE, done |-> FALSE, ran |-> 0, sent |-> 0,
                hidden |-> c]

Send(m) == toDev' = toDev \cup {m}

(* The call returns; unless the caller has given up, its user is told. *)
Return(r) ==
    /\ pc' = "done"
    /\ resp' = r
    /\ result' = IF result = None THEN Outcome(op, r) ELSE result

Returned(body) == [err |-> None, code |-> None, body |-> body]
Error          == [err |-> "error", code |-> None, body |-> None]
StatusError(c) == [err |-> "status", code |-> c, body |-> None]

(* sendIMMessage of the first request *)
StartCall ==
    /\ pc = "start"
    /\ CASE op.kind = "read"   -> Send(ReadRequest(op.attr)) /\ pc' = "read"
         [] op.kind = "write"  -> Send(WriteRequest(op.attr, Item)) /\ pc' = "write"
         [] op.kind = "invoke" -> Send(InvokeRequest(FALSE)) /\ pc' = "invoke"
         [] op.kind = "timed"  -> Send(TimedRequest) /\ pc' = "timed"
    /\ UNCHANGED <<op, reports, resp, result, toCli, dev, dups>>

(* checkStatusResponse: a refusal at any point ends the call. *)
IsRefusal(m) == m.op = "StatusResponse" /\ StatusFromCode(m.code) # None

(* The loop of Client.Read: collect, and ask for the next chunk with a
   StatusResponse, until no more are announced. *)
ReceiveReport(m) ==
    /\ pc = "read"
    /\ IF m.op # "ReportData" THEN Return(Error) /\ UNCHANGED <<reports, toDev>>
       ELSE /\ reports' = reports \o m.reports
            /\ IF m.more
               THEN /\ Send(StatusResponse(Success))
                    /\ UNCHANGED <<pc, resp, result>>
               ELSE /\ \E rs \in {ReassembleListChunks(reports \o m.reports)} : Return(Returned(rs))
                    /\ UNCHANGED toDev

ReceiveWriteResponse(m) ==
    /\ pc = "write"
    /\ Return(IF m.op = "WriteResponse" THEN Returned(m.statuses) ELSE Error)
    /\ UNCHANGED <<reports, toDev>>

(* The answer to TimedRequest need not be a StatusResponse to be taken for one. *)
ReceiveTimedResponse(m) ==
    /\ pc = "timed"
    /\ Send(InvokeRequest(TRUE))
    /\ pc' = "invoke"
    /\ UNCHANGED <<reports, resp, result>>

ReceiveInvokeResponse(m) ==
    /\ pc = "invoke"
    /\ Return(IF m.op = "InvokeResponse" /\ m.ibs # <<>> THEN Returned(m.ibs[1]) ELSE Error)
    /\ UNCHANGED <<reports, toDev>>

Receive ==
    \E m \in toCli :
      /\ toCli' = toCli \ {m}
      /\ IF IsRefusal(m.msg)
         THEN /\ pc \in {"read", "write", "timed", "invoke"}
              /\ Return(StatusError(m.msg.code))
              /\ UNCHANGED <<reports, toDev>>
         ELSE \/ ReceiveReport(m.msg)
              \/ ReceiveWriteResponse(m.msg)
              \/ ReceiveTimedResponse(m.msg)
              \/ ReceiveInvokeResponse(m.msg)
      /\ UNCHANGED <<op, dev, dups>>

HasDeadlineInvokeOnly(o, at) == at = "invoke"

(* The deadline of the call. An InvokeRequest always has one; the daemon's
   handlers and the read commands set one; a write on the command's own
   session and the commissioner's reads and TimedRequests have none. *)
HasDeadline(o, at) ==
    \/ at = "invoke"
    \/ o.via = "daemon"
    \/ o.via = "direct" /\ o.kind = "read"

TimesOut ==
    /\ pc \in {"read", "write", "timed", "invoke"}
    /\ HasDeadline(op, pc)
    /\ Return(Error)
    /\ UNCHANGED <<op, reports, toDev, toCli, dev, dups>>

(* The command gives the daemon 60 seconds; the handler goes on. *)
DaemonClientGivesUp ==
    /\ op.via = "daemon" /\ pc \notin {"start", "done"} /\ result = None
    /\ result' = Failed
    /\ UNCHANGED <<op, pc, reports, resp, toDev, toCli, dev, dups>>

-----------------------------------------------------------------------------
(* The device and the network *)

(* A list as a prefix of k items and the rest appended one by one. *)
ListFragments(a, k) ==
    <<DataReport(a, SubSeq(Value[a], 1, k))>>
      \o [i \in 1..(Len(Value[a]) - k) |-> AppendItem(a, Value[a][k + i])]

(* A hidden attribute is answered with a status, be it SUCCESS. *)
Fragments(a, k) ==
    IF a \in DOMAIN dev.hidden THEN <<StatusReport(a, dev.hidden[a])>>
    ELSE IF a \in Lists THEN ListFragments(a, k)
    ELSE <<DataReport(a, Value[a])>>

Asked(a) == IF a = Wildcard THEN Attrs ELSE {a} \cap Attrs

Answer(body) == toCli' = toCli \cup {[n |-> dev.sent, msg |-> body]}

(* Some of what is left, at least one report; a status instead at any point. *)
DeviceReports(left) ==
    \/ \E n \in 0..Len(left) :
         /\ n > 0 \/ left = <<>>
         /\ Answer(ReportData(SubSeq(left, 1, n), n < Len(left)))
         /\ dev' = [dev EXCEPT !.left = SubSeq(left, n + 1, Len(left)), !.sent = @ + 1]
    \/ /\ Answer(StatusResponse(Denied))
       /\ dev' = [dev EXCEPT !.left = None, !.sent = @ + 1]

DeviceRead(m) ==
    /\ m.op = "ReadRequest"
    /\ \E k \in [Lists -> 0..MaxPrefix] :
         /\ \A a \in Lists : k[a] <= Len(Value[a])
         /\ \E ord \in SetToSeqs(Asked(m.attr)) :
              DeviceReports(FlattenSeq([i \in DOMAIN ord |->
                  Fragments(ord[i], IF ord[i] \in Lists THEN k[ord[i]] ELSE 0)]))

(* The next chunk; a StatusResponse to a report that is over is dropped. *)
DeviceNextChunk(m) ==
    /\ m.op = "StatusResponse"
    /\ IF dev.left \in {None, <<>>} THEN UNCHANGED <<toCli, dev>> ELSE DeviceReports(dev.left)

DeviceWrite(m) ==
    /\ m.op = "WriteRequest"
    /\ \E code \in {Success, Denied} :
         /\ dev' = [dev EXCEPT !.done = (code = Success), !.sent = @ + 1]
         /\ \/ Answer(WriteResponse(<<code>>))
            \/ code = Denied /\ Answer(StatusResponse(code))

DeviceTimed(m) ==
    /\ m.op = "TimedRequest"
    /\ \E code \in {Success, Denied} :
         /\ dev' = [dev EXCEPT !.timed = (code = Success), !.sent = @ + 1]
         /\ Answer(StatusResponse(code))

(* A timed request outside its window, or the reverse, is refused. *)
DeviceInvoke(m) ==
    /\ m.op = "InvokeRequest"
    /\ IF m.timed # dev.timed
       THEN Answer(StatusResponse(Denied)) /\ dev' = [dev EXCEPT !.sent = @ + 1]
       ELSE \E code \in {Success, Denied} :
              /\ dev' = [dev EXCEPT !.done = (code = Success), !.ran = @ + 1, !.sent = @ + 1]
              /\ IF code = Success
                 THEN \/ Answer(InvokeResponse(<<InvokeResponseIB(Success, None)>>))
                      \/ Answer(InvokeResponse(<<InvokeResponseIB(None, "fields")>>))
                 ELSE \/ Answer(InvokeResponse(<<InvokeResponseIB(Denied, None)>>))
                      \/ Answer(StatusResponse(Denied))

DeviceHandles ==
    \E m \in toDev :
      /\ toDev' = toDev \ {m}
      /\ DeviceRead(m) \/ DeviceNextChunk(m) \/ DeviceWrite(m) \/ DeviceTimed(m) \/ DeviceInvoke(m)
      /\ UNCHANGED <<op, pc, reports, resp, result, dups>>

TimedWindowCloses ==
    /\ dev.timed /\ dev' = [dev EXCEPT !.timed = FALSE]
    /\ UNCHANGED <<op, pc, reports, resp, result, toDev, toCli, dups>>

Lose ==
    /\ \/ \E m \in toDev : toDev' = toDev \ {m} /\ UNCHANGED toCli
       \/ \E m \in toCli : toCli' = toCli \ {m} /\ UNCHANGED toDev
    /\ UNCHANGED <<op, pc, reports, resp, result, dev, dups>>

(* The device did not see the acknowledgement of a message and sends it again;
   no code drops the copy. *)
DeviceRepeats ==
    /\ dups < MaxDups
    /\ \E m \in toCli :
         /\ m.n < 100
         /\ toCli' = toCli \cup {[m EXCEPT !.n = @ + 100]}
    /\ dups' = dups + 1
    /\ UNCHANGED <<op, pc, reports, resp, result, toDev, dev>>

Client == StartCall \/ Receive \/ TimesOut \/ DaemonClientGivesUp

Next == Client \/ DeviceHandles \/ TimedWindowCloses \/ Lose \/ DeviceRepeats

Spec == Init /\ [][Next]_vars

(* The caller runs, and timers fire; nothing is assumed of the device. *)
FairSpec == Spec /\ WF_vars(StartCall) /\ WF_vars(Receive) /\ WF_vars(TimesOut)

-----------------------------------------------------------------------------
(* Properties *)

(* What is to be told of attribute x. A status SUCCESS is an error to the
   command's own session and data, of no length, to the daemon's client. *)
Told(via, x) ==
    IF x \notin DOMAIN dev.hidden THEN AttrReport(x, None, Value[x])
    ELSE AttrReport(x, IF via = "daemon" /\ dev.hidden[x] = Success THEN None ELSE dev.hidden[x], None)

Expected(via, a) == BuildReadRecords(SetToSeq({Told(via, x) : x \in Asked(a)}))

(* A read that succeeds shows every attribute that was asked for once, with
   its whole value or its status, however the device cut lists and messages.
   The exception: Read collects a repeated message twice. *)
ReadExact ==
    (op.kind = "read" /\ op.via # "commissioner" /\ result # None /\ result.ok /\ dups = 0)
        => result.body = Expected(op.via, op.attr)

(* What a write or an invoke tells the user is what the device did: success
   only if it did as asked, a status only if it did not, and in no case twice. *)
Truthful ==
    /\ dev.ran <= 1
    /\ (op.kind # "read" /\ result # None) =>
         /\ result.ok => dev.done
         /\ result.status # None => ~dev.done

(* The reports a client call returned hold a status SUCCESS. *)
SuccessReported ==
    op.kind = "read" /\ resp.err = None /\ \E i \in DOMAIN resp.body : resp.body[i].status = Success

SameTold == DirectOutcome(op, resp) = DaemonOutcome(op, DaemonResponse(op, resp))

(* The daemon and a session of the command's own tell the user the same of
   the same answer of the device: daemonAttrReports, daemonWriteError,
   daemonInvokeError and respError agree with their direct counterparts. The
   exception: a report of status SUCCESS. *)
TransportsAgree ==
    (resp # None /\ op.via # "commissioner" /\ ~SuccessReported) => SameTold

(* What the comments say, without the exception: "the two transports cannot
   drift apart" (attrReport), the records "cannot depend on whether a session
   daemon happens to be running" (TestAttrReports_DaemonAndDirectParity). *)
NeverDriftApart == (resp # None /\ op.via # "commissioner") => SameTold

(* A call that has a deadline at every wait returns, whatever is lost. *)
CommandEnds ==
    (op.via = "daemon" \/ op.kind = "invoke" \/ (op.via = "direct" /\ op.kind = "read"))
        ~> (pc = "done" /\ result # None)
=============================================================================
