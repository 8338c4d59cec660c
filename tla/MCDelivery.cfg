SPECIFICATION Spec
CONSTANTS
  None = None
  Name = {"a.example", "a.example.", "b.example", "192.0.2.1", "fe80::1%eth0", "-bad-"}
  DNS = {"a.example", "a.example.", "b.example"}
  IP = {"192.0.2.1", "fe80::1%eth0"}
  Zoned = {"fe80::1%eth0"}
  Unrooted <- MCUnrooted
  File = {"config.json", "reality.key", "tls.crt", "tls.key", "other.crt", "other.key", "client-info.json", "client-anytls", "share-reality.txt", "share-hysteria2.txt", "share-anytls-v2rayn.txt", "share-anytls.txt"}
  GenerateOptions <- MCGenerateOptions
  DeliverOptions <- MCDeliverOptions
  Patches <- MCPatches
  Spoils <- MCSpoils
  Own <- MCOwn
  MaxGen = 2
  MaxEdit = 1
INVARIANTS
  TypeOK
  DeliveredWorks
  AcceptedStarts
PROPERTIES
  GeneratedAccepted
  RenewalKeepsClients
  RenewalRepeatsDelivery
CHECK_DEADLOCK FALSE
