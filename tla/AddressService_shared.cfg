SPECIFICATION Spec
CONSTANTS
  Space = 16
  BlockSizes = {1, 2, 4, 8}
  NoAddr = NoAddr
  NoPool = NoPool
  NoNetwork = NoNetwork
  NoDevice = NoDevice
  Nodes = {n1, n2}
  Networks = {w1}
  Seeded = {}
  SubnetOf <- Half
  Homes <- Settled
  Threads = {t1}
  MaxFreed = 1
  Tunnelled = {n1}
INVARIANT DistinctAddresses
INVARIANT DatabaseAgrees
INVARIANT AddressOfNetwork
PROPERTY AddressKept
