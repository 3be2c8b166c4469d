CONSTANTS
  d1 = d1
  d2 = d2
  Devices = {d1, d2}
  Worlds <- MCWorlds
  Codes = {0, 4, 5}
  Short = 4
  Prefs = {"auto", "ip", "ble", "list-ip", "list-ble"}
  Caps = {{}, {"ble"}, {"net"}}
  Resolver = "dnssd"
  MaxResolve = 1
  Systems = {"darwin", "linux"}
  MaxAttempts = 2
  MaxLost = 1
  MaxSegments = 2
SPECIFICATION BLESpec
INVARIANTS FoundIsRight DeliveredOnce
PROPERTIES DiscoveryEnds DialSettles
CHECK_DEADLOCK FALSE
