SPECIFICATION Spec
CONSTANTS
  Machines <- MCMachines
  MaxUint64 = 1023
  KiB = 4
  MiB = 1
  NoLimit = 1000
  Bandwidths = {0, 2, 3}
  RTTs = {0, 4}
INVARIANTS
  SetsExactlyGeneric
  BDPExact
  ShowsEnforcedMemory
  ShowsAllowedCPUs
PROPERTIES
  Converges
