----------------------------- MODULE AddressPool -----------------------------
(***************************************************************************)
(* The arithmetic of an IPv4 pool of the IpAllocator: addresses are        *)
(* integers that wrap around at Space (uint32_t in the code).  A CIDR is   *)
(* an address and the size of its block, 2^(32 - prefix); strings and      *)
(* their parsing are left out.                                             *)
(***************************************************************************)
EXTENDS Integers

CONSTANTS
  Space,       \* number of addresses; 2^32 in the code
  BlockSizes,  \* block sizes of the prefix lengths 1 to 32
  NoAddr,      \* the empty string: no address
  NoPool       \* the network has no pool

Addr == 0..(Space - 1)
Pools == [base : Addr, start : Addr, end : Addr, allocated : SUBSET Addr]

ASSUME AddressAssumption ==
  /\ Space \in Nat \ {0}
  /\ BlockSizes \subseteq 1..(Space - 1)
  /\ \A size \in BlockSizes : Space % size = 0
  /\ NoAddr \notin Addr
  /\ NoPool \notin Pools

\* The CIDRs considered.  Left out: prefix 0, where broadcastAddr shifts by the
\* full width (undefined), and prefix 32 at address 0, where end_addr is the
\* largest address and the scan of allocate never ends.
Cidrs == {c \in [addr : Addr, size : BlockSizes] : c.size = 1 => c.addr # 0}

NetworkAddr(addr, size) == addr - (addr % size)

\* Mutant of BroadcastAddr: one too low.
BroadcastTooLow(addr, size) == NetworkAddr(addr, size) + size - 2

BroadcastAddr(addr, size) == NetworkAddr(addr, size) + size - 1

\* Mutant of NewPool: the gateway is neither skipped nor reserved.
NewPoolWithGateway(cidr, reserved) ==
  LET base == NetworkAddr(cidr.addr, cidr.size) IN
  [base |-> base,
   start |-> (base + 1) % Space,
   end |-> (BroadcastAddr(base, cidr.size) - 1) % Space,
   allocated |-> reserved]

\* IpAllocator::addPool: what it stores for a network.  Start skips the network
\* address and the gateway, end the broadcast address.
NewPool(cidr, reserved) ==
  LET base == NetworkAddr(cidr.addr, cidr.size) IN
  [base |-> base,
   start |-> (base + 2) % Space,
   end |-> (BroadcastAddr(base, cidr.size) - 1) % Space,
   allocated |-> {(base + 1) % Space} \union reserved]

\* What the scan of allocate may return, and the address it does return.
FreeAddresses(pool) == (pool.start .. pool.end) \ pool.allocated

IsNext(a, pool) ==
  /\ a \in FreeAddresses(pool)
  /\ \A b \in FreeAddresses(pool) : a <= b

Exhausted(pool) == FreeAddresses(pool) = {}

\* Mutant of Lend: the address is not marked.
LendUnmarked(pool, a) == pool

\* The address is marked allocated.
Lend(pool, a) == [pool EXCEPT !.allocated = @ \union {a}]

\* IpAllocator::free, which takes any address back.
Return(pool, a) == [pool EXCEPT !.allocated = @ \ {a}]

-----------------------------------------------------------------------------
(* Reference definition, for the properties *)

\* The hosts of a subnet: the addresses that agree with it on the prefix,
\* without the first two (network, gateway) and the last (broadcast).
SameSubnet(cidr) ==
  {a \in Addr : a \div cidr.size = cidr.addr \div cidr.size}
Hosts(cidr) ==
  {a \in SameSubnet(cidr) :
     /\ \E b, c \in SameSubnet(cidr) : b < c /\ c < a
     /\ \E b \in SameSubnet(cidr) : a < b}
=============================================================================
