SPECIFICATION Spec
CONSTANTS
  Hosts = {"a", "b"}
  Routers = {"r", "s"}
  Restarting = {"b"}
  Interfaces <- MCInterfaces
  Ethernet <- MCEthernet
  IP <- MCIP
  Gateway <- MCGateway
  Routes <- MCRoutes
  Datagrams <- MCDatagrams
  Steps <- MCSteps
  MaxTime = 6
  MaxFaults = 1
  Modulus = 8
  Modulus64 = 64
  ETHERNET_BROADCAST = broadcast
  NoAddress = none
  ADDRESS_CACHE_TIMEOUT_MS = 4
  ARP_REQUEST_TIMEOUT_MS = 3
CHECK_DEADLOCK FALSE
INVARIANTS TypeOK WaitingIsUnknown OwnersOnly DeliveredOnce
PROPERTIES RequestsApart Settles
