---------------------------- MODULE Subscription ----------------------------
(***************************************************************************)
(* One subscription: interaction.Client.Subscribe (client.go), the         *)
(* goroutine it leaves behind, and the command that consumes its channels  *)
(* (cli/subscribe.go, runSubscribe).                                       *)
(*                                                                         *)
(* The device reports in cycles, the first of which is the priming report; *)
(* a cycle is one or more chunks, each of which it sends once the one      *)
(* before is acknowledged. A chunk carries data, a failure status of an    *)
(* attribute, or neither. A record is the pair of its cycle and chunk.     *)
(*                                                                         *)
(* Messages travel as datagrams that no replay filter is asked about: one  *)
(* may be late or come again. A report whose transmission is lost is       *)
(* repeated, so it counts as sent when one arrives; a lost acknowledgement *)
(* makes the device fall silent or repeat the report.                      *)
(***************************************************************************)
EXTENDS Integers, Sequences, SequencesExt

CONSTANTS
    MaxCycles,  \* bound: cycles after the priming report
    MaxChunks,  \* bound: chunks of a cycle
    Faults,     \* bound: faults of the device, of the network and of the output, and
                \* reports without data
    Count,      \* --count, 0 for no bound
    Cap         \* capacity of the Reports channel: 16 in the code

ASSUME SubscriptionAssumption ==
    /\ MaxCycles \in Nat /\ Faults \in Nat /\ Count \in Nat
    /\ MaxChunks \in Nat \ {0}
    /\ Cap \in Nat \ {0}

Records == (0 .. MaxCycles) \X (1 .. MaxChunks)

VARIABLES
    cmd,        \* runSubscribe: "request", "priming", "ack", "response", "stream", "ended"
    outcome,    \* what it returned: "running", "error", "bound", "signal", "stream ended"
    emitted,    \* the records it has written
    gor,        \* the goroutine: "none", "recv", "ack", "deliver", "close", "ended"
    acc,        \* the reports accumulated in the current cycle
    last,       \* the report in hand
    reports, reportsClosed,     \* the channel Reports
    errs, errsClosed,           \* the channel Errors, whether it holds an error
    signalled,  \* sigCtx is done
    cancelled,  \* subCtx is done
    exchange,   \* "open" or "closed"
    incoming,   \* messages of the exchange
    dev,        \* the device: record sent last, whether it waits for an acknowledgement
    sent,       \* the data records it has sent, in order
    lost,       \* the connection is lost
    nFaults,
    air,        \* datagrams of the device that may still come, or come again
    strayed,    \* one of them was late or came again
    errored     \* an error was put into Errors

cmdVars == <<cmd, outcome, emitted>>
gorVars == <<gor, acc, last, reports, reportsClosed, errs, errsClosed, errored>>
devVars == <<dev, sent, lost, nFaults, air, strayed>>
vars == <<cmdVars, gorVars, signalled, cancelled, exchange, incoming, devVars>>

NoReport == [kind |-> "report", rec |-> <<0, 1>>, more |-> FALSE, item |-> "none"]

-----------------------------------------------------------------------------
(* splitAttributeReports: a failure status hides the data beside it. *)
Failed(rs)  == \E i \in 1 .. Len(rs) : rs[i].item = "bad"
DataOf(rs)  == FlattenSeq([i \in DOMAIN rs |->
                             IF rs[i].item = "data" THEN <<rs[i].rec>> ELSE <<>>])

(* Exchange.Receive in a select with the context: whichever is ready. *)
HasMessage == incoming # <<>>
AtEnd      == incoming = <<>> /\ exchange = "closed"

(* The acknowledgement of a chunk reaches the device, or the send fails. *)
Acknowledge == dev' = [dev EXCEPT !.waits = FALSE]

Return(o) == cmd' = "ended" /\ outcome' = o /\ cancelled' = TRUE

(* A failed Subscribe closes its exchange on every path. *)
SubscribeFails ==
    /\ Return("error")
    /\ exchange' = "closed"
    /\ UNCHANGED <<emitted, gorVars, signalled, devVars>>

-----------------------------------------------------------------------------
(* Subscribe *)

Request ==
    /\ cmd = "request"
    /\ \/ /\ ~lost
          /\ cmd' = "priming"
          /\ Acknowledge
          /\ UNCHANGED <<outcome, emitted, gorVars, signalled, cancelled, exchange, incoming,
                         sent, lost, nFaults, air, strayed>>
       \/ /\ lost \/ signalled
          /\ SubscribeFails
          /\ UNCHANGED incoming

(* A chunk of the priming report, or anything else, which ends the call. *)
Priming ==
    /\ cmd = "priming"
    /\ \/ /\ HasMessage
          /\ Head(incoming).kind = "report"
          /\ cmd' = "ack"
          /\ last' = Head(incoming)
          /\ acc' = Append(acc, Head(incoming))
          /\ incoming' = Tail(incoming)
          /\ UNCHANGED <<outcome, emitted, gor, reports, reportsClosed, errs, errsClosed, errored,
                         signalled, cancelled, exchange, devVars>>
       \/ /\ HasMessage
          /\ Head(incoming).kind # "report"
          /\ incoming' = Tail(incoming)
          /\ SubscribeFails
       \/ /\ AtEnd \/ signalled
          /\ SubscribeFails
          /\ UNCHANGED incoming

(* It is acknowledged whatever it says; then the next chunk, or the end of
   the priming report, which fails when it holds a failure status. *)
PrimingAck ==
    /\ cmd = "ack"
    /\ \/ /\ ~lost
          /\ last.more \/ ~Failed(acc)
          /\ Acknowledge
          /\ cmd' = IF last.more THEN "priming" ELSE "response"
          /\ UNCHANGED <<outcome, emitted, gorVars, signalled, cancelled, exchange, incoming,
                         sent, lost, nFaults, air, strayed>>
       \/ /\ ~lost
          /\ ~last.more
          /\ Failed(acc)
          /\ Acknowledge
          /\ Return("error")
          /\ exchange' = "closed"
          /\ UNCHANGED <<emitted, gorVars, signalled, incoming, sent, lost, nFaults, air, strayed>>
       \/ /\ lost \/ signalled
          /\ SubscribeFails
          /\ UNCHANGED incoming

ResponseDropsPriming ==
    /\ cmd = "response"
    /\ HasMessage
    /\ Head(incoming).kind = "response"
    /\ incoming' = Tail(incoming)
    /\ cmd' = "stream"
    /\ gor' = "recv"
    /\ acc' = <<>>
    /\ UNCHANGED <<outcome, emitted, last, reports, reportsClosed, errs, errsClosed, errored,
                   signalled, cancelled, exchange, devVars>>

(* SubscribeResponse: the priming data is the first batch, the goroutine
   takes over. *)
Response ==
    /\ cmd = "response"
    /\ \/ /\ HasMessage
          /\ Head(incoming).kind = "response"
          /\ incoming' = Tail(incoming)
          /\ cmd' = "stream"
          /\ gor' = "recv"
          /\ reports' = IF DataOf(acc) = <<>> THEN <<>> ELSE <<DataOf(acc)>>
          /\ acc' = <<>>
          /\ UNCHANGED <<outcome, emitted, last, reportsClosed, errs, errsClosed, errored,
                         signalled, cancelled, exchange, devVars>>
       \/ /\ HasMessage
          /\ Head(incoming).kind # "response"
          /\ incoming' = Tail(incoming)
          /\ SubscribeFails
       \/ /\ AtEnd \/ signalled
          /\ SubscribeFails
          /\ UNCHANGED incoming

-----------------------------------------------------------------------------
(* The goroutine *)

PutError == errs' = TRUE /\ errored' = TRUE /\ gor' = "close"

GorReceive ==
    /\ gor = "recv"
    /\ \/ /\ HasMessage
          /\ incoming' = Tail(incoming)
          /\ LET m == Head(incoming)
             IN \/ /\ m.kind = "report"
                   /\ acc' = Append(acc, m)
                   /\ last' = m
                   /\ gor' = "ack"
                   /\ UNCHANGED <<errs, errored>>
                \/ /\ m.kind \in {"success", "other", "response"}
                   /\ UNCHANGED <<gor, acc, last, errs, errored>>
                \/ /\ m.kind \in {"fail", "broken"}
                   /\ PutError
                   /\ UNCHANGED <<acc, last>>
       \/ /\ AtEnd
          /\ ~cancelled
          /\ PutError
          /\ UNCHANGED <<incoming, acc, last>>
       \/ /\ cancelled
          /\ gor' = "close"
          /\ UNCHANGED <<incoming, acc, last, errs, errored>>
    /\ UNCHANGED <<cmdVars, reports, reportsClosed, errsClosed, signalled, cancelled, exchange,
                   devVars>>

(* The chunk is acknowledged; the last one of a cycle makes it a batch. *)
GorAck ==
    /\ gor = "ack"
    /\ \/ /\ ~lost
          /\ Acknowledge
          /\ gor' = IF last.more THEN "recv" ELSE "deliver"
          /\ UNCHANGED <<errs, errored>>
       \/ /\ lost \/ cancelled
          /\ PutError
          /\ UNCHANGED dev
    /\ UNCHANGED <<cmdVars, acc, last, reports, reportsClosed, errsClosed, signalled, cancelled,
                   exchange, incoming, sent, lost, nFaults, air, strayed>>

KeepCycle == acc

(* accumulated, for the next cycle. *)
NextCycle == <<>>

DeliverBlocking ==
    /\ gor = "deliver"
    /\ acc' = NextCycle
    /\ \/ /\ Failed(acc)
          /\ PutError
          /\ UNCHANGED reports
       \/ /\ ~Failed(acc)
          /\ Len(reports) < Cap
          /\ reports' = IF DataOf(acc) = <<>> THEN reports ELSE Append(reports, DataOf(acc))
          /\ gor' = "recv"
          /\ UNCHANGED <<errs, errored>>
    /\ UNCHANGED <<cmdVars, last, reportsClosed, errsClosed, signalled, cancelled, exchange,
                   incoming, devVars>>

(* The batch goes into Reports, which may be full, unless the subscription is
   cancelled; a failure status ends the goroutine instead. *)
Deliver ==
    /\ gor = "deliver"
    /\ acc' = NextCycle
    /\ \/ /\ Failed(acc)
          /\ PutError
          /\ UNCHANGED reports
       \/ /\ ~Failed(acc)
          /\ DataOf(acc) = <<>>
          /\ gor' = "recv"
          /\ UNCHANGED <<reports, errs, errored>>
       \/ /\ ~Failed(acc)
          /\ DataOf(acc) # <<>>
          /\ Len(reports) < Cap
          /\ reports' = Append(reports, DataOf(acc))
          /\ gor' = "recv"
          /\ UNCHANGED <<errs, errored>>
       \/ /\ ~Failed(acc)
          /\ DataOf(acc) # <<>>
          /\ cancelled
          /\ gor' = "close"
          /\ UNCHANGED <<reports, errs, errored>>
    /\ UNCHANGED <<cmdVars, last, reportsClosed, errsClosed, signalled, cancelled, exchange,
                   incoming, devVars>>

(* The deferred calls, in the order they run. *)
CloseErrs ==
    /\ gor = "close"
    /\ ~errsClosed
    /\ errsClosed' = TRUE
    /\ UNCHANGED <<cmdVars, gor, acc, last, reports, reportsClosed, errs, errored, signalled,
                   cancelled, exchange, incoming, devVars>>

CloseReports ==
    /\ gor = "close"
    /\ errsClosed
    /\ reportsClosed' = TRUE
    /\ exchange' = "closed"
    /\ gor' = "ended"
    /\ UNCHANGED <<cmdVars, acc, last, reports, errs, errored, errsClosed, signalled, cancelled,
                   incoming, devVars>>

-----------------------------------------------------------------------------
(* The command, in its select *)

(* subscribeBoundReached, asked after every record. *)
BoundReached(n) == Count > 0 /\ n >= Count

(* How many records of a batch are written before the bound stops the loop. *)
Written(b) == IF Count = 0 THEN Len(b) ELSE Min({Len(b), Count - Len(emitted)})

(* A batch is written record by record; writing one may fail. *)
TakeBatch ==
    /\ cmd = "stream"
    /\ reports # <<>>
    /\ reports' = Tail(reports)
    /\ LET b == Head(reports)
       IN \/ /\ emitted' = emitted \o SubSeq(b, 1, Written(b))
             /\ IF BoundReached(Len(emitted'))
                THEN Return("bound")
                ELSE UNCHANGED <<cmd, outcome, cancelled>>
             /\ UNCHANGED nFaults
          \/ /\ nFaults < Faults
             /\ nFaults' = nFaults + 1
             /\ Return("error")
             /\ \E k \in 0 .. Written(b) - 1 : emitted' = emitted \o SubSeq(b, 1, k)
    /\ UNCHANGED <<gor, acc, last, reportsClosed, errs, errsClosed, errored, signalled, exchange,
                   incoming, dev, sent, lost, air, strayed>>

TakeError ==
    /\ cmd = "stream"
    /\ errs
    /\ errs' = FALSE
    /\ Return("error")
    /\ UNCHANGED <<emitted, gor, acc, last, reports, reportsClosed, errsClosed, errored, signalled,
                   exchange, incoming, devVars>>

(* A closed and drained channel is always ready. *)
StreamEnds ==
    /\ cmd = "stream"
    /\ (reportsClosed /\ reports = <<>>) \/ (errsClosed /\ ~errs)
    /\ Return("stream ended")
    /\ UNCHANGED <<emitted, gorVars, signalled, exchange, incoming, devVars>>

SignalSeen ==
    /\ cmd = "stream"
    /\ signalled
    /\ Return("signal")
    /\ UNCHANGED <<emitted, gorVars, signalled, exchange, incoming, devVars>>

(* --duration *)
Duration ==
    /\ cmd = "stream"
    /\ Return("bound")
    /\ UNCHANGED <<emitted, gorVars, signalled, exchange, incoming, devVars>>

(* Ctrl+C: sigCtx and with it subCtx. *)
Interrupt ==
    /\ ~signalled
    /\ cmd # "ended"
    /\ signalled' = TRUE
    /\ cancelled' = TRUE
    /\ UNCHANGED <<cmdVars, gorVars, exchange, incoming, devVars>>

-----------------------------------------------------------------------------
(* The device *)

(* The pump hands on whatever datagram comes: it asks no replay filter. *)
Deposit(m) == incoming' = Append(incoming, m)

(* A message sent arrives now, unless it is late and overtaken by others. *)
Transmit(m, late) ==
    /\ air' = air \cup {m}
    /\ IF late THEN strayed' = TRUE /\ UNCHANGED incoming
               ELSE Deposit(m) /\ UNCHANGED strayed

(* The next chunk of a cycle, or the first of the next one. *)
DeviceReport ==
    /\ ~lost /\ exchange = "open"
    /\ ~dev.waits
    /\ \E more, late \in BOOLEAN, item \in {"data", "bad", "none"} :
         /\ nFaults' = nFaults + (IF item = "data" THEN 0 ELSE 1) + (IF late THEN 1 ELSE 0)
         /\ nFaults' <= Faults
         /\ LET r == IF dev.more THEN <<dev.rec[1], dev.rec[2] + 1>> ELSE <<dev.rec[1] + 1, 1>>
            IN /\ r \in Records
               /\ r[1] > 0 => dev.established
               /\ more => r[2] < MaxChunks
               /\ Transmit([kind |-> "report", rec |-> r, more |-> more, item |-> item], late)
               /\ dev' = [rec |-> r, more |-> more, waits |-> TRUE,
                          established |-> dev.established]
               /\ sent' = IF item = "data" THEN Append(sent, r) ELSE sent
    /\ UNCHANGED <<cmdVars, gorVars, signalled, cancelled, exchange, lost>>

DeviceResponse ==
    /\ ~lost /\ exchange = "open"
    /\ ~dev.waits /\ ~dev.more /\ dev.rec[1] = 0 /\ ~dev.established
    /\ \E late \in BOOLEAN :
         /\ nFaults' = nFaults + (IF late THEN 1 ELSE 0)
         /\ nFaults' <= Faults
         /\ Transmit([kind |-> "response"], late)
    /\ dev' = [dev EXCEPT !.established = TRUE]
    /\ UNCHANGED <<cmdVars, gorVars, signalled, cancelled, exchange, sent, lost>>

(* A datagram comes late, or again. *)
Stray ==
    /\ ~lost /\ exchange = "open"
    /\ nFaults < Faults
    /\ nFaults' = nFaults + 1
    /\ strayed' = TRUE
    /\ \E m \in air : Deposit(m)
    /\ UNCHANGED <<cmdVars, gorVars, signalled, cancelled, exchange, dev, sent, lost, air>>

(* A status, a report that does not decode, or another message. *)
DeviceFault ==
    /\ ~lost /\ exchange = "open"
    /\ cmd # "request"
    /\ nFaults < Faults
    /\ nFaults' = nFaults + 1
    /\ \E k \in {"fail", "success", "broken", "other"} : Deposit([kind |-> k])
    /\ UNCHANGED <<cmdVars, gorVars, signalled, cancelled, exchange, dev, sent, lost, air, strayed>>

(* The transport loses its peer and the pump closes the exchange. *)
Lose ==
    /\ ~lost
    /\ cmd # "ended"
    /\ lost' = TRUE
    /\ exchange' = "closed"
    /\ UNCHANGED <<cmdVars, gorVars, signalled, cancelled, incoming, dev, sent, nFaults, air,
                   strayed>>

-----------------------------------------------------------------------------
Init ==
    /\ cmd = "request" /\ outcome = "running" /\ emitted = <<>>
    /\ gor = "none" /\ acc = <<>> /\ last = NoReport
    /\ reports = <<>> /\ reportsClosed = FALSE
    /\ errs = FALSE /\ errsClosed = FALSE /\ errored = FALSE
    /\ signalled = FALSE /\ cancelled = FALSE
    /\ exchange = "open" /\ incoming = <<>>
    /\ dev = [rec |-> <<-1, 1>>, more |-> FALSE, waits |-> TRUE, established |-> FALSE]
    /\ sent = <<>> /\ lost = FALSE /\ nFaults = 0 /\ air = {} /\ strayed = FALSE

CmdStep == Request \/ Priming \/ PrimingAck \/ Response \/ TakeBatch \/ TakeError \/ StreamEnds
           \/ SignalSeen

GorStep == GorReceive \/ GorAck \/ Deliver \/ CloseErrs \/ CloseReports

Next ==
    \/ CmdStep \/ GorStep
    \/ Duration \/ Interrupt
    \/ DeviceReport \/ DeviceResponse \/ DeviceFault \/ Stray \/ Lose

Spec == Init /\ [][Next]_vars

(* Both goroutines are scheduled, and a select does not pass over a case that
   stays ready for ever; nothing is assumed of the device. *)
FairSpec == Spec /\ WF_vars(CmdStep) /\ WF_vars(SignalSeen) /\ WF_vars(GorStep)

-----------------------------------------------------------------------------
(* The command writes what the device reported and no more than --count
   records of it, also when a batch holds more than are left; as long as no
   datagram was late or came again, that is every record once, in the order
   sent, none left out before it. A repeated report is written twice: neither
   Subscribe nor the pump knows it again (Subscribe, subscribeBoundReached). *)
InOrder ==
    /\ ToSet(emitted) \subseteq ToSet(sent)
    /\ Count > 0 => Len(emitted) <= Count
    /\ ~strayed => IsPrefix(emitted, sent)

(* The data records of a cycle, in the order sent. *)
SentIn(c) == FlattenSeq([i \in DOMAIN sent |-> IF sent[i][1] = c THEN <<sent[i]>> ELSE <<>>])

(* A batch is never empty and holds only what the device sent; as long as no
   datagram was late or came again, it is the data of one report cycle,
   complete: chunks of two cycles are never mixed and no chunk is missing
   (Subscribe: "accumulated"). *)
WholeCycles ==
    \A i \in 1 .. Len(reports) :
        /\ reports[i] # <<>>
        /\ ToSet(reports[i]) \subseteq ToSet(sent)
        /\ ~strayed => reports[i] = SentIn(reports[i][1][1])

(* After Ctrl+C or the loss of the connection the command returns; once it
   has returned its goroutine ends too, also when it waits on a full Reports
   channel that nobody reads any more, and the exchange is closed, whichever
   early return of Subscribe was taken (Subscribe, Cancel). *)
CommandEnds ==
    /\ (signalled \/ lost) ~> (cmd = "ended")
    /\ (cmd = "ended") ~> (gor \in {"none", "ended"} /\ exchange = "closed")

-----------------------------------------------------------------------------
(* What a comment of the code says and the code does not do: TLC finds it
   violated. *)

(* subscribe.go, Subscription.Errors: it "delivers errors that occur during
   the subscription": with an error delivered the command does not end as if
   the stream had ended by itself. *)
ErrorSurfaces == outcome = "stream ended" => ~errored
=============================================================================
