SPECIFICATION Safety
CONSTANTS
  Hosts = {"a", "b"}
  Routers = {"r", "s"}
  Restarting = {"b"}
  Interfaces <- MCInterfaces
  Ethernet <- MCEthernet
  IP <- MCIP
  Gateway <- MCGateway
  Routes <- MCRoutes
  Datagrams <- TwoToOne
  Steps <- MCSteps
  MaxTime = 0
  MaxFaults = 0
  Modulus = 8
  Modulus64 = 64
  ETHERNET_BROADCAST = broadcast
  NoAddress = none
  ADDRESS_CACHE_TIMEOUT_MS = 2
  ARP_REQUEST_TIMEOUT_MS = 2
CHECK_DEADLOCK FALSE
INVARIANT NothingDropped
