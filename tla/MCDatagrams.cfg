SPECIFICATION Spec
CONSTANTS
  Clients <- MCClients
  Server = "s"
  Port = 80
  EthernetAddress <- MCEthernetAddress
  IP <- MCIP
  Segments <- MCSegments
  MaxFaults = 1
  ETHERNET_BROADCAST <- Broadcast
  NoAddress <- NoEthernetAddress
  ADDRESS_CACHE_TIMEOUT_MS = 30
  ARP_REQUEST_TIMEOUT_MS = 5
  Modulus = 1024
  Modulus64 = 4096
CHECK_DEADLOCK FALSE
INVARIANTS ReadIsWritten ReadsWhole SplitsAgree
