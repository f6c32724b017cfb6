SPECIFICATION Spec
CONSTANTS
  Space = 16
  BlockSizes = {1, 2, 4, 8}
  NoAddr = NoAddr
  NoPool = NoPool
  NoNetwork = NoNetwork
  NoDevice = NoDevice
  Nodes = {n1, n2}
  Networks = {w1}
  Seeded = {w1}
  SubnetOf <- Half
  Homes <- Settled
  Threads = {t1}
  MaxFreed = 1
  Tunnelled = {}
INVARIANT AddressesUnique
