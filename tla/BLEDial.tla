------------------------------- MODULE BLEDial -------------------------------
(***************************************************************************)
(* DialBLE: the connection to the device that Discovery found over BLE,    *)
(* up to the BTP handshake, and the goroutines that serve it afterwards.   *)
(*                                                                         *)
(* A write to C1 may be lost: on macOS it is handed to CoreBluetooth, on   *)
(* other systems it is a write without response.  What the device sends on *)
(* C2 reaches us twice on macOS, in the notification callback, which may   *)
(* miss it, and as the cached value of the characteristic, which holds the *)
(* last one only; on other systems the callback is the only way.           *)
(* The device (external) has a BTP endpoint once it has seen a request on  *)
(* C1, answers when C2 is subscribed to after that, and sends segments     *)
(* once the connection is used.                                            *)
(***************************************************************************)
EXTENDS Discovery

CONSTANTS
  Systems,        \* subset of {"darwin", "linux"}
  MaxAttempts,    \* btpHandshakeMaxAttempts
  MaxLost,        \* bound: writes and subscriptions that are lost
  MaxSegments     \* bound: segments that the device sends

ASSUME BLEDialAssumption ==
  /\ Systems \subseteq {"darwin", "linux"}
  /\ MaxAttempts \in Nat \ {0} /\ MaxLost \in Nat /\ MaxSegments \in Nat

VARIABLES
  system,     \* what the program runs on, told apart by the dial only
  dial,       \* "off", "connect", "gatt", "write", "subscribe", "notify",
              \* "shake", "up", "failed" or "closed"
  link,       \* the GATT connection is up
  device,     \* the device: has an endpoint, is subscribed to, segments sent
  air,        \* indications on their way
  cached,     \* the cached value of C2, as a sequence of at most one
  hsResp,     \* chan []byte, capacity 1
  poll,       \* the goroutine in WaitForValue: "off", "on" or "ended"
  attempt, lost,
  fed         \* the segments given to btp.handleSegment

dialVars == <<system, dial, link, device, air, cached, hsResp, poll, attempt, lost, fed>>
bleDialVars == <<findVars, dialVars>>

CapsResponse == 0                       \* the capabilities response
IsCapabilities(msg) == msg = CapsResponse
Mac == system = "darwin"

-----------------------------------------------------------------------------
(* Every error return after Connect disconnects first. *)
Fail == dial' = "failed" /\ link' = FALSE

Loses == lost < MaxLost /\ lost' = lost + 1

(* The device sees a request: an endpoint, and an answer once subscribed to. *)
PeerRequest ==
  /\ device' = [device EXCEPT !.ep = TRUE]
  /\ \/ device.sub /\ air' = Append(air, CapsResponse)
     \/ UNCHANGED air

(* ... and a subscription, which it drops without an endpoint. *)
PeerSubscribe ==
  /\ device' = [device EXCEPT !.sub = @ \/ device.ep]
  /\ air' = IF device.ep /\ ~device.sub THEN Append(air, CapsResponse) ELSE air

WriteC1 ==
  \/ PeerRequest /\ UNCHANGED lost
  \/ Loses /\ UNCHANGED <<device, air>>

-----------------------------------------------------------------------------
(* EstablishPASE for an address found over BLE.  An mDNS browse that is still
   ending shares nothing with the dial: the model lets it end first. *)
StartDial ==
  /\ find = "ret" /\ dial = "off" /\ answer \notin {NoAddr, Listing} /\ answer[1] = "ble"
  /\ mw \in {"off", "ended"}
  /\ dial' = "connect"
  /\ system' \in Systems
  /\ UNCHANGED <<link, device, air, cached, hsResp, poll, attempt, lost, fed>>

Connect ==
  /\ dial = "connect"
  /\ \/ dial' = "gatt" /\ link' = TRUE
     \/ dial' = "failed" /\ UNCHANGED link
  /\ UNCHANGED <<system, device, air, cached, hsResp, poll, attempt, lost, fed>>

(* The Matter service and its characteristics C1 and C2. *)
DiscoverCharacteristics ==
  /\ dial = "gatt"
  /\ \/ link /\ dial' = "write" /\ UNCHANGED link
     \/ Fail
  /\ UNCHANGED <<system, device, air, cached, hsResp, poll, attempt, lost, fed>>

WriteRequest ==
  /\ dial = "write"
  /\ \/ link /\ WriteC1 /\ dial' = "subscribe" /\ UNCHANGED link
     \/ Fail /\ UNCHANGED <<device, air, lost>>
  /\ UNCHANGED <<system, cached, hsResp, poll, attempt, fed>>

EnableNotifications ==
  /\ dial = "subscribe"
  /\ \/ /\ link /\ dial' = "notify" /\ UNCHANGED link
        /\ \/ PeerSubscribe /\ UNCHANGED lost
           \/ Mac /\ Loses /\ UNCHANGED <<device, air>>
     \/ Fail /\ UNCHANGED <<device, air, lost>>
  /\ UNCHANGED <<system, cached, hsResp, poll, attempt, fed>>

(* WaitForNotifying never fails: on macOS it may subscribe once more. *)
WaitForNotifying ==
  /\ dial = "notify"
  /\ dial' = "shake" /\ poll' = "on" /\ attempt' = 1
  /\ \/ Mac /\ link /\ PeerSubscribe
     \/ UNCHANGED <<device, air>>
  /\ UNCHANGED <<system, link, cached, hsResp, lost, fed>>

OfferResponse(msg) == hsResp' = IF hsResp = <<>> THEN <<msg>> ELSE hsResp

CallbackFeedsToo(msg) ==
  IF IsCapabilities(msg) THEN OfferResponse(msg) /\ UNCHANGED fed
  ELSE /\ fed' = IF dial = "up" THEN Append(fed, msg) ELSE fed
       /\ UNCHANGED hsResp

(* The notification callback; dataMode is set when the dial is done. *)
Callback(msg) ==
  IF IsCapabilities(msg) THEN OfferResponse(msg) /\ UNCHANGED fed
  ELSE /\ fed' = IF dial = "up" /\ ~Mac THEN Append(fed, msg) ELSE fed
       /\ UNCHANGED hsResp

Indication ==
  /\ air # <<>>
  /\ air' = Tail(air)
  /\ cached' = IF Mac THEN <<Head(air)>> ELSE cached
  /\ Callback(Head(air)) \/ (Mac /\ UNCHANGED <<hsResp, fed>>)
  /\ UNCHANGED <<system, dial, link, device, poll, attempt, lost>>

(* WaitForValue: the first value the poll sees, or the end of the handshake. *)
WaitForValue ==
  /\ poll = "on"
  /\ \/ cached # <<>> /\ IF IsCapabilities(cached[1]) THEN OfferResponse(cached[1])
                         ELSE UNCHANGED hsResp
     \/ dial # "shake" /\ UNCHANGED hsResp
  /\ poll' = "ended"
  /\ UNCHANGED <<system, dial, link, device, air, cached, attempt, lost, fed>>

Retry ==
  /\ dial = "shake"
  /\ attempt' = attempt + 1
  /\ IF attempt' > MaxAttempts
     THEN Fail /\ UNCHANGED <<device, air, cached, lost>>
     ELSE /\ cached' = <<>>
          /\ \/ link /\ WriteC1 /\ UNCHANGED <<dial, link>>
             \/ Fail /\ UNCHANGED <<device, air, lost>>
  /\ UNCHANGED <<system, hsResp, poll, fed>>

HandshakeTimesOut ==
  /\ dial = "shake"
  /\ Fail
  /\ UNCHANGED <<system, device, air, cached, hsResp, poll, attempt, lost, fed>>

(* The response is parsed, its parameters are applied, dataMode is set. *)
HandshakeDone ==
  /\ dial = "shake" /\ hsResp # <<>>
  /\ hsResp' = <<>>
  /\ \/ dial' = "up" /\ UNCHANGED link
     \/ Fail
  /\ UNCHANGED <<system, device, air, cached, poll, attempt, lost, fed>>

-----------------------------------------------------------------------------
(* The connection *)

PeerSegment ==
  /\ dial = "up" /\ link /\ device.sub /\ device.sent < MaxSegments
  /\ device' = [device EXCEPT !.sent = @ + 1]
  /\ air' = Append(air, device.sent + 1)
  /\ UNCHANGED <<system, dial, link, cached, hsResp, poll, attempt, lost, fed>>

(* The C2 data poller reads and clears the cached value in one go. *)
PollData ==
  /\ dial = "up" /\ Mac /\ cached # <<>>
  /\ cached' = <<>>
  /\ fed' = IF IsCapabilities(cached[1]) THEN fed ELSE Append(fed, cached[1])
  /\ UNCHANGED <<system, dial, link, device, air, hsResp, poll, attempt, lost>>

WatcherOptimistic ==
  /\ dial = "up" /\ ~Mac /\ ~link
  /\ dial' = "closed" /\ link' = FALSE
  /\ UNCHANGED <<system, device, air, cached, hsResp, poll, attempt, lost, fed>>

(* The watcher closes what has been disconnected; without a CoreBluetooth
   pointer IsConnected is always true. *)
DisconnectWatcher ==
  /\ dial = "up" /\ Mac /\ ~link
  /\ dial' = "closed" /\ link' = FALSE
  /\ UNCHANGED <<system, device, air, cached, hsResp, poll, attempt, lost, fed>>

Close ==
  /\ dial = "up"
  /\ dial' = "closed" /\ link' = FALSE
  /\ UNCHANGED <<system, device, air, cached, hsResp, poll, attempt, lost, fed>>

LinkDrops ==
  /\ link
  /\ link' = FALSE /\ air' = <<>>
  /\ UNCHANGED <<system, dial, device, cached, hsResp, poll, attempt, lost, fed>>

-----------------------------------------------------------------------------
DialInit ==
  /\ system = "unknown"
  /\ dial = "off" /\ link = FALSE
  /\ device = [ep |-> FALSE, sub |-> FALSE, sent |-> 0]
  /\ air = <<>> /\ cached = <<>> /\ hsResp = <<>> /\ poll = "off"
  /\ attempt = 0 /\ lost = 0 /\ fed = <<>>

Handshake ==
  \/ StartDial \/ Connect \/ DiscoverCharacteristics \/ WriteRequest
  \/ EnableNotifications \/ WaitForNotifying \/ HandshakeDone
DialNext ==
  \/ Handshake \/ WaitForValue \/ Retry \/ HandshakeTimesOut
  \/ Indication \/ PeerSegment \/ PollData \/ DisconnectWatcher \/ Close \/ LinkDrops

BLEInit == FindInit /\ DialInit
BLENext ==
  \/ FindNext /\ UNCHANGED dialVars
  \/ DialNext /\ UNCHANGED findVars

(* Each call of the Bluetooth library returns, timers fire, pollers poll. *)
BLEFairness ==
  /\ FindFair
  /\ WF_dialVars(Handshake) /\ WF_dialVars(WaitForValue) /\ WF_dialVars(HandshakeTimesOut)
  /\ WF_dialVars(PollData) /\ WF_dialVars(DisconnectWatcher)

BLESpec == BLEInit /\ [][BLENext]_bleDialVars /\ BLEFairness

-----------------------------------------------------------------------------
(* No segment is given to BTP twice or out of order, though macOS has three
   ways by which what the device sends comes in, and elsewhere none is left
   out (the callback, WaitForValue and the C2 poller of DialBLE). *)
DeliveredOnce ==
  /\ \A i, j \in 1..Len(fed) : i < j => fed[i] < fed[j]
  /\ \A i \in 1..Len(fed) : Mac \/ fed[i] = i

(* A dial comes to an end whatever the device does, and one that has failed
   gives the device back; a connection that the device has dropped is closed,
   so that nobody waits on it: on macOS; no other system notices (DialBLE,
   startDisconnectWatcher). *)
DialSettles ==
  /\ (dial # "off") ~> (dial = "up" \/ (dial \in {"failed", "closed"} /\ ~link))
  /\ (dial = "up" /\ ~link /\ Mac) ~> (dial = "closed")
=============================================================================
