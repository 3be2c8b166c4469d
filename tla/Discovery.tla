------------------------------ MODULE Discovery ------------------------------
(***************************************************************************)
(* How `matter commission` finds the device that a setup code is for       *)
(* (autoDiscoverer and the discoverers it starts): a scan of Bluetooth     *)
(* advertisements and an mDNS browse, in goroutines of their own, the      *)
(* first that has an answer stopping the other.  `matter discover` lists   *)
(* what one of the two sees until its timeout.                             *)
(*                                                                         *)
(* Over BLE: FindByDiscriminator runs tinygoAdapter.Scan, which runs the   *)
(* blocking scan of the Bluetooth library (radio, external) in a goroutine *)
(* and stops it when the context ends.  Over mDNS: watch reads the         *)
(* unbuffered channel entries, on which the goroutines that Browse starts  *)
(* for the instances it sees offer what they have resolved; Browse closes  *)
(* the channel when they have all ended.  That is the resolver of macOS;   *)
(* the one of other systems leaves it all to a library (external, taken to *)
(* work alike) but for its own error path, which leaves the channel open.  *)
(*                                                                         *)
(* Contexts: that of the commands is never cancelled, so those below it    *)
(* end by their own timeout or cancel only. Log lines are left out, and so *)
(* are the vendor, product and session interval fields, which nothing here *)
(* depends on.                                                             *)
(***************************************************************************)
EXTENDS Integers, Sequences, FiniteSets

CONSTANTS
  Devices,       \* devices in reach
  Worlds,        \* what each device is and sends: see World
  Codes,         \* discriminators in setup codes
  Short,         \* 2^8: a short discriminator is a multiple of it
  Prefs,         \* TransportPreference: "auto", "ip" or "ble"; or a listing
  Caps,          \* DiscoveryCapabilities: subsets of {"ble", "net"}
  Resolver,      \* "dnssd" or "zeroconf"
  MaxResolve     \* how many instances are resolved at a time: 8

(* A device's discriminator; its advertisements: with the Matter payload, with
   the service but no payload, or not Matter's; and its mDNS record: none, one
   whose host has addresses or one whose host has none. *)
World == [disc : Nat, adv : SUBSET {"full", "bare", "other"},
          dns : {"none", "addr", "noaddr"}]

ASSUME DiscoveryAssumption ==
  /\ Worlds \subseteq [Devices -> World]
  /\ Codes \subseteq Nat /\ Short \in Nat \ {0} /\ MaxResolve \in Nat \ {0}
  /\ Prefs \subseteq {"auto", "ip", "ble", "list-ip", "list-ble"} /\ Caps \subseteq SUBSET {"ble", "net"}
  /\ Resolver \in {"dnssd", "zeroconf"}

VARIABLES
  world, code, pref, caps,
  find,       \* DiscoverCommissionable: "new", "wait" or "ret"
  awaited,    \* results it still waits for
  answer,     \* what it returned: an address, or NoAddr for an error
  results,    \* chan discoveryResult
  bt,         \* the BLE side: "off", "enable", "scan", "stop", "ended"
  radio,      \* Adapter.Scan: "off", "starting", "on", "ended", "error"
  scanDone,   \* the scan's context has ended
  hit,        \* chan ScanResult, capacity 1
  listed,     \* listings: the devices seen, with their discriminators
  mw,         \* watch: "off", "select", "found", "over", "failed", "ended"
  mwDone,     \* watch's context has ended
  mdnsAddr,   \* what onDevice has stored
  browse,     \* Browse: "off", "start", "lines", "wait", "ended"
  res,        \* resolver goroutines: "none", "sem", "lookup", "addr", "send", "gone"
  ips,        \* the entry to send has addresses
  entriesClosed,  \* the channel is closed
  done        \* chan error, capacity 1: what Browse returned

input == <<world, code, pref, caps>>
mainVars == <<find, awaited, answer>>
bleVars == <<bt, radio, scanDone, hit>>
mdnsVars == <<mw, mwDone, mdnsAddr, browse, res, ips, entriesClosed, done>>
findVars == <<input, mainVars, results, bleVars, listed, mdnsVars>>

NoAddr == <<>>
BLEAddr(d) == <<"ble", d>>
IPAddr(d) == <<"ip", d>>
Listing == <<"list">>

-----------------------------------------------------------------------------
(* Manual codes hold the upper bits only; zeros below them say so. *)
Matches(d) == IF code % Short = 0 THEN d \div Short = code \div Short ELSE d = code

(* NewCommissionerWithTransport and the capabilities choose the discoverers. *)
TryBLE == pref \in {"ble", "list-ble"} \/ (pref = "auto" /\ (caps = {} \/ "ble" \in caps))
TryMDNS == pref \in {"ip", "list-ip"} \/ (pref = "auto" /\ (caps = {} \/ "net" \in caps))

(* With "ble" alone no timeout is put on the scan. *)
ScanTimeout == pref # "ble"

IsListing == pref \in {"list-ip", "list-ble"}

-----------------------------------------------------------------------------
(* autoDiscoverer.DiscoverCommissionable *)

Discover ==
  /\ find = "new"
  /\ find' = "wait"
  /\ awaited' = IF TryBLE /\ TryMDNS THEN 2 ELSE 1
  /\ bt' = IF TryBLE THEN "enable" ELSE "off"
  /\ mw' = IF TryMDNS THEN "select" ELSE "off"
  /\ browse' = IF TryMDNS THEN "start" ELSE "off"
  /\ UNCHANGED <<input, answer, results, radio, scanDone, hit, listed, mwDone, mdnsAddr, res, ips,
                 entriesClosed, done>>

CollectOne ==
  /\ find = "wait" /\ results # <<>>
  /\ results' = Tail(results)
  /\ find' = "ret" /\ awaited' = 0 /\ answer' = Head(results)
  /\ UNCHANGED <<input, bleVars, listed, mdnsVars>>

(* The first success cancels the context that both sides work under. *)
Collect ==
  /\ find = "wait" /\ results # <<>>
  /\ results' = Tail(results)
  /\ IF Head(results) = NoAddr /\ awaited > 1
     THEN awaited' = awaited - 1 /\ UNCHANGED <<find, answer, scanDone, mwDone>>
     ELSE /\ find' = "ret" /\ awaited' = 0 /\ answer' = Head(results)
          /\ scanDone' = TRUE /\ mwDone' = TRUE
  /\ UNCHANGED <<input, bt, radio, hit, listed, mw, mdnsAddr, browse, res, ips, entriesClosed, done>>

Result(r) == results' = Append(results, r)

-----------------------------------------------------------------------------
(* BLE *)

(* Enable initialises the adapter, once; then the scan is started. *)
Enable ==
  /\ bt = "enable"
  /\ \/ bt' = "scan" /\ radio' = "starting" /\ UNCHANGED results
     \/ bt' = "ended" /\ Result(NoAddr) /\ UNCHANGED radio
  /\ UNCHANGED <<input, mainVars, scanDone, hit, listed, mdnsVars>>

RadioStarts ==
  /\ radio = "starting"
  /\ radio' \in {"on", "error"}
  /\ UNCHANGED <<input, mainVars, results, bt, scanDone, hit, listed, mdnsVars>>

RadioFails ==
  /\ radio = "on"
  /\ radio' = "error"
  /\ UNCHANGED <<input, mainVars, results, bt, scanDone, hit, listed, mdnsVars>>

(* parseMatterAdvertisement: without a payload the discriminator stays zero. *)
ParsedDiscriminator(d, kind) == IF kind = "full" THEN world[d].disc ELSE 0

(* An advertisement seen by FindByDiscriminator: the first match is kept and
   ends the scan's context. *)
MatchDevice(d, kind) ==
  /\ Matches(ParsedDiscriminator(d, kind)) /\ hit = <<>>
  /\ hit' = <<d>> /\ scanDone' = TRUE
  /\ UNCHANGED listed

(* ... and by BLEScanner.Scan, which keeps of a device what it saw first. *)
ListDevice(d, kind) ==
  /\ \A x \in listed : x[1] # d
  /\ listed' = listed \cup {<<d, ParsedDiscriminator(d, kind)>>}
  /\ UNCHANGED <<hit, scanDone>>

(* tinygoAdapter.Scan hands on those with Matter's service only. *)
Advertise(d, kind) ==
  /\ radio = "on" /\ kind \in world[d].adv \ {"other"}
  /\ IF IsListing THEN ListDevice(d, kind) ELSE MatchDevice(d, kind)
  /\ UNCHANGED <<input, mainVars, results, bt, radio, mdnsVars>>

(* 15 s after the scan was started: it has begun by then. *)
ScanTimesOut ==
  /\ bt = "scan" /\ ScanTimeout /\ radio \in {"on", "error"}
  /\ ~scanDone /\ scanDone' = TRUE
  /\ UNCHANGED <<input, mainVars, results, bt, radio, hit, listed, mdnsVars>>

(* StopScan; it finds nothing to stop if the scan has not begun yet. *)
StopScan ==
  /\ bt = "scan" /\ scanDone
  /\ bt' = "stop"
  /\ radio' = IF radio = "on" THEN "ended" ELSE radio
  /\ UNCHANGED <<input, mainVars, results, scanDone, hit, listed, mdnsVars>>

ScanResult == IF IsListing THEN Listing ELSE IF hit = <<>> THEN NoAddr ELSE BLEAddr(hit[1])

(* The scan has ended: by an error of its own, or stopped, when what was
   found counts whatever ended the context. *)
ScanReturns ==
  /\ \/ bt = "scan" /\ radio = "error" /\ Result(NoAddr)
     \/ /\ bt = "stop" /\ radio \in {"ended", "error"}
        /\ Result(ScanResult)
  /\ bt' = "ended"
  /\ UNCHANGED <<input, mainVars, radio, scanDone, hit, listed, mdnsVars>>

-----------------------------------------------------------------------------
(* dnssdResolver.Browse and the goroutines that resolve instances *)

BrowseUnchanged == UNCHANGED <<input, mainVars, results, bleVars, listed, mw, mwDone, mdnsAddr>>

BrowseStartsNoClose ==
  /\ browse = "start"
  /\ \/ browse' = "lines" /\ UNCHANGED done
     \/ browse' = "ended" /\ done' = <<"err">>
  /\ BrowseUnchanged /\ UNCHANGED <<res, ips, entriesClosed>>

(* The close is deferred to the return, which is then reported on done; the
   other resolver does not close the channel when it cannot start. *)
BrowseStarts ==
  /\ browse = "start"
  /\ \/ browse' = "lines" /\ UNCHANGED <<entriesClosed, done>>
     \/ browse' = "ended" /\ done' = <<"err">> /\ entriesClosed' = (Resolver = "dnssd")
  /\ BrowseUnchanged /\ UNCHANGED <<res, ips>>

(* An Add line for an instance not seen before. *)
BrowseLine(d) ==
  /\ browse = "lines" /\ world[d].dns # "none" /\ res[d] = "none"
  /\ res' = [res EXCEPT ![d] = "sem"]
  /\ BrowseUnchanged /\ UNCHANGED <<browse, ips, entriesClosed, done>>

(* The browse process has been killed with the context, or has ended. *)
BrowseEOF ==
  /\ browse = "lines"
  /\ browse' = "wait"
  /\ BrowseUnchanged /\ UNCHANGED <<res, ips, entriesClosed, done>>

Resolving == {d \in Devices : res[d] \in {"lookup", "addr", "send"}}

TakeToken(d) ==
  /\ res[d] = "sem" /\ Cardinality(Resolving) < MaxResolve
  /\ res' = [res EXCEPT ![d] = "lookup"]
  /\ BrowseUnchanged /\ UNCHANGED <<browse, ips, entriesClosed, done>>

(* runUntilAnswer with -L: an answer, or none before the step's timeout. *)
Lookup(d) ==
  /\ res[d] = "lookup"
  /\ \E next \in {"addr", "gone"} : res' = [res EXCEPT ![d] = next]
  /\ BrowseUnchanged /\ UNCHANGED <<browse, ips, entriesClosed, done>>

(* ... and with -G, then the system's resolver: an entry all the same. *)
ResolveHostname(d) ==
  /\ res[d] = "addr"
  /\ res' = [res EXCEPT ![d] = "send"]
  /\ \E got \in BOOLEAN : ips' = [ips EXCEPT ![d] = got /\ world[d].dns = "addr"]
  /\ BrowseUnchanged /\ UNCHANGED <<browse, entriesClosed, done>>

GiveUpEntry(d) ==
  /\ res[d] = "send" /\ mwDone
  /\ res' = [res EXCEPT ![d] = "gone"]
  /\ BrowseUnchanged /\ UNCHANGED <<browse, ips, entriesClosed, done>>

(* wg.Wait and cmd.Wait, the deferred close, then done <- err: an error only
   if the process ended before the context did. *)
BrowseReturns ==
  /\ browse = "wait"
  /\ \A d \in Devices : res[d] \in {"none", "gone"}
  /\ browse' = "ended" /\ entriesClosed' = TRUE
  /\ done' = <<"ok">> \/ (~mwDone /\ done' = <<"err">>)
  /\ BrowseUnchanged /\ UNCHANGED <<res, ips>>

-----------------------------------------------------------------------------
(* MDNSBrowser.watch with the callback of controllerDiscoverer, and browse,
   which keeps every entry *)

WatchUnchanged == UNCHANGED <<input, mainVars, bleVars, ips, entriesClosed>>

(* onDevice: an address and a matching discriminator. *)
Wanted(d) == ~IsListing /\ ips[d] /\ Matches(world[d].disc)

Keep(d) == listed' = IF IsListing THEN listed \cup {<<d, world[d].disc>>} ELSE listed

WatchEntry(d) ==
  /\ mw = "select" /\ res[d] = "send"
  /\ res' = [res EXCEPT ![d] = "gone"]
  /\ IF Wanted(d)
     THEN mdnsAddr' = IPAddr(d) /\ mw' = "found" /\ mwDone' = TRUE
     ELSE UNCHANGED <<mdnsAddr, mw, mwDone>>
  /\ Keep(d)
  /\ WatchUnchanged /\ UNCHANGED <<results, browse, done>>

(* for range entries *)
Drain(d) ==
  /\ mw \in {"found", "over", "failed"} /\ res[d] = "send"
  /\ res' = [res EXCEPT ![d] = "gone"]
  /\ Keep(d)
  /\ WatchUnchanged /\ UNCHANGED <<results, mw, mwDone, mdnsAddr, browse, done>>

WatchDone ==
  /\ mw = "select" /\ done # <<>>
  /\ mw' = IF done = <<"err">> THEN "failed" ELSE "over"
  /\ done' = <<>>
  /\ WatchUnchanged /\ UNCHANGED <<results, listed, mwDone, mdnsAddr, browse, res>>

(* The channel is closed; after "select" and "found" done is still to come. *)
WatchClosed ==
  /\ entriesClosed
  /\ \/ mw \in {"select", "found"} /\ done # <<>> /\ done' = <<>>
     \/ mw \in {"over", "failed"} /\ UNCHANGED done
  /\ Result(IF mw = "failed" \/ (mw = "select" /\ done = <<"err">>) THEN NoAddr
            ELSE IF IsListing THEN Listing ELSE mdnsAddr)
  /\ mw' = "ended"
  /\ mwDone' = TRUE
  /\ WatchUnchanged /\ UNCHANGED <<listed, mdnsAddr, browse, res>>

WatchTimesOut ==
  /\ mw # "off" /\ ~mwDone /\ mwDone' = TRUE
  /\ WatchUnchanged /\ UNCHANGED <<results, listed, mw, mdnsAddr, browse, res, done>>

-----------------------------------------------------------------------------
FindInit ==
  /\ world \in Worlds /\ code \in Codes /\ pref \in Prefs /\ caps \in Caps
  /\ find = "new" /\ awaited = 0 /\ answer = NoAddr /\ results = <<>>
  /\ bt = "off" /\ radio = "off" /\ scanDone = FALSE /\ hit = <<>> /\ listed = {}
  /\ mw = "off" /\ mwDone = FALSE /\ mdnsAddr = NoAddr
  /\ browse = "off" /\ entriesClosed = FALSE /\ done = <<>>
  /\ res = [d \in Devices |-> "none"]
  /\ ips = [d \in Devices |-> FALSE]

Resolve(d) ==
  TakeToken(d) \/ Lookup(d) \/ ResolveHostname(d) \/ GiveUpEntry(d)
Watch ==
  WatchDone \/ WatchClosed \/ \E d \in Devices : WatchEntry(d) \/ Drain(d)
Scan == Enable \/ RadioStarts \/ StopScan \/ ScanReturns
Browse == BrowseStarts \/ BrowseReturns

FindNext ==
  \/ Discover \/ Collect
  \/ Scan \/ RadioFails \/ ScanTimesOut
  \/ \E d \in Devices, kind \in {"full", "bare"} : Advertise(d, kind)
  \/ Browse \/ BrowseEOF \/ Watch \/ WatchTimesOut
  \/ \E d \in Devices : BrowseLine(d) \/ Resolve(d)

(* Every goroutine goes on while it can, timers fire, and a killed dns-sd
   ends; advertisements and announcements may come or not. *)
FindFair ==
  /\ WF_findVars(Discover) /\ WF_findVars(Collect)
  /\ WF_findVars(Enable) /\ WF_findVars(RadioStarts) /\ WF_findVars(StopScan)
  /\ WF_findVars(ScanReturns) /\ WF_findVars(ScanTimesOut) /\ WF_findVars(WatchTimesOut)
  /\ WF_findVars(Browse) /\ WF_findVars(mwDone /\ BrowseEOF) /\ WF_findVars(Watch)
  /\ \A d \in Devices : WF_findVars(Resolve(d))

-----------------------------------------------------------------------------
PassesFor(d, disc, overBLE) ==
  disc = world[d].disc \/ (overBLE /\ "bare" \in world[d].adv /\ disc = 0)

(* What discovery returns is right: a device of the wanted discriminator, and
   no error once either side has seen one, whatever ends at that moment; a
   listing has every device once.  The exceptions the code has: a device that
   advertises no payload passes for discriminator zero, and a scan that breaks
   down forgets what it found (FindByDiscriminator, watch, autoDiscoverer). *)
FoundIsRight ==
  find = "ret" =>
    CASE answer = NoAddr -> mdnsAddr = NoAddr /\ (hit = <<>> \/ radio = "error")
      [] answer = Listing ->
           \A x \in listed : /\ PassesFor(x[1], x[2], pref = "list-ble")
                             /\ \A y \in listed : x[1] = y[1] => x = y
      [] OTHER -> \E disc \in {0, world[answer[2]].disc} :
                    Matches(disc) /\ PassesFor(answer[2], disc, answer[1] = "ble")

(* A stop that came before the scan had begun. *)
StopLost == bt = "stop" /\ radio = "on"

Quiet ==
  /\ (bt \in {"off", "ended"} /\ radio \notin {"starting", "on"}) \/ StopLost
  /\ mw \in {"off", "ended"} /\ browse \in {"off", "ended"}
  /\ \A d \in Devices : res[d] \in {"none", "gone"}

(* Discovery returns, and after it no goroutine is left blocked on a channel
   nobody reads, no dns-sd process and no scan left running, but for a stop
   that came too early; only the scan of `commission ble` has no limit
   (autoDiscoverer, watch, Browse, tinygoAdapter.Scan). *)
DiscoveryEnds == <>(pref = "ble" \/ (find = "ret" /\ Quiet))
=============================================================================
