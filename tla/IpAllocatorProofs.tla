-------------------------- MODULE IpAllocatorProofs --------------------------
(* Theorems about the IpAllocator, for every address space and every subnet,  *)
(* and their proofs.                                                          *)
EXTENDS IpAllocator, AddressPoolProofs

-----------------------------------------------------------------------------
(* What is lent *)

\* The inductive invariant: the pool still offers the hosts of its subnet, and
\* those marked allocated are exactly the ones that are lent.
IInv ==
  /\ TypeOK
  /\ pool = NoPool => lent = {}
  /\ pool # NoPool =>
       /\ pool \in Pools
       /\ subnet \in Subnets
       /\ pool.start .. pool.end = Hosts(subnet)
       /\ lent = pool.allocated \intersect Hosts(subnet)

\* The invariant holds throughout when every subnet has a host.
LEMMA Invariance ==
  ASSUME \A c \in Subnets : c.size >= 4
  PROVE  Spec => []IInv
  <1>1. Init => IInv
    BY DEF Init, IInv, TypeOK
  <1>2. ASSUME IInv, [Next]_vars
        PROVE  IInv'
    <2>1. ASSUME NEW cidr \in Subnets, AddPool(cidr)
          PROVE  IInv'
      <3>1. /\ NewPool(cidr, {}) \in Pools
            /\ NewPool(cidr, {}).start .. NewPool(cidr, {}).end = Hosts(cidr)
            /\ NewPool(cidr, {}).allocated \intersect Hosts(cidr) = {}
        BY NewPoolHosts, SubnetsAssumption
      <3> QED BY <2>1, <3>1, <1>2, AddressAssumption DEF AddPool, IInv, TypeOK
    <2>2. ASSUME NEW a \in Addr, Allocate(a)
          PROVE  IInv'
      <3>1. a \in pool.start .. pool.end
        BY <2>2 DEF Allocate, IsNext, FreeAddresses
      <3>2. pool \in Pools /\ subnet \in Subnets
        BY <1>2, <2>2 DEF IInv, Allocate
      <3>3. /\ Lend(pool, a) \in Pools
            /\ Lend(pool, a).start = pool.start
            /\ Lend(pool, a).end = pool.end
            /\ Lend(pool, a).allocated = pool.allocated \union {a}
        BY <3>2, LendType
      <3> QED BY <1>2, <2>2, <3>1, <3>2, <3>3, AddressAssumption
              DEF Allocate, IInv, TypeOK
    <2>3. ASSUME AllocateNothing
          PROVE  IInv'
      BY <1>2, <2>3 DEF AllocateNothing, IInv, TypeOK
    <2>4. ASSUME NEW a \in Addr, Free(a)
          PROVE  IInv'
      <3>1. pool \in Pools /\ subnet \in Subnets
        BY <1>2, <2>4 DEF IInv, Free
      <3>2. /\ Return(pool, a) \in Pools
            /\ Return(pool, a).start = pool.start
            /\ Return(pool, a).end = pool.end
            /\ Return(pool, a).allocated = pool.allocated \ {a}
        BY <3>1, ReturnType
      <3> QED BY <1>2, <2>4, <3>1, <3>2, AddressAssumption
              DEF Free, IInv, TypeOK
    <2>5. CASE UNCHANGED vars
      BY <1>2, <2>5 DEF vars, IInv, TypeOK
    <2> QED BY <1>2, <2>1, <2>2, <2>3, <2>4, <2>5 DEF Next
  <1> QED BY <1>1, <1>2, PTL DEF Spec

\* An address that is lent stays marked allocated until it is freed, so allocate
\* never lends it a second time.
THEOREM NeverLentTwice ==
  ASSUME \A c \in Subnets : c.size >= 4
  PROVE  Spec => []LentIsAllocated
  <1>1. IInv => LentIsAllocated
    BY DEF IInv, LentIsAllocated
  <1> QED BY <1>1, Invariance, PTL

\* In an address space of any size, a pool of four addresses or more lends hosts
\* of its subnet only: never the network, the gateway or the broadcast address.
THEOREM OnlyHostsLent ==
  ASSUME \A c \in Subnets : c.size >= 4
  PROVE  Spec => []LentWithinSubnet
  <1>1. IInv => LentWithinSubnet
    BY DEF IInv, LentWithinSubnet
  <1> QED BY <1>1, Invariance, PTL

-----------------------------------------------------------------------------
(* What allocate answers *)

\* What the scan may return is what is not lent.
LEMMA FreeIsUnlent ==
  ASSUME IInv, pool # NoPool
  PROVE  FreeAddresses(pool) = Hosts(subnet) \ lent
  BY DEF IInv, FreeAddresses

\* allocate answers with the lowest host that is not lent, and with nothing only
\* when every host is lent: nothing is lost by freeing, the gateway included.
THEOREM LowestHostFirst ==
  ASSUME \A c \in Subnets : c.size >= 4
  PROVE  Spec => AnswersFirstFit
  <1> DEFINE FirstFit ==
        /\ \A a \in lent' \ lent :
             /\ a \in Hosts(subnet)
             /\ \A h \in Hosts(subnet) \ lent : a <= h
        /\ answer' # answer /\ answer' = NoAddr => Hosts(subnet) \subseteq lent
  <1>1. ASSUME IInv, [Next]_vars
        PROVE  [FirstFit]_vars
    <2>1. ASSUME NEW cidr \in Subnets, AddPool(cidr)
          PROVE  FirstFit
      BY <2>1 DEF AddPool
    <2>2. ASSUME NEW a \in Addr, Allocate(a)
          PROVE  FirstFit
      <3>1. pool # NoPool /\ IsNext(a, pool) /\ lent' = lent \union {a} /\ answer' = a
        BY <2>2 DEF Allocate
      <3>2. a \in Hosts(subnet) \ lent /\ \A h \in Hosts(subnet) \ lent : a <= h
        BY <1>1, <3>1, FreeIsUnlent DEF IsNext
      <3>3. a # NoAddr
        BY AddressAssumption
      <3> QED BY <3>1, <3>2, <3>3
    <2>3. CASE AllocateNothing
      BY <1>1, <2>3, FreeIsUnlent DEF AllocateNothing, Exhausted
    <2>4. ASSUME NEW a \in Addr, Free(a)
          PROVE  FirstFit
      BY <2>4 DEF Free
    <2> QED BY <1>1, <2>1, <2>2, <2>3, <2>4 DEF Next
  <1>2. IInv /\ [Next]_vars => [FirstFit]_vars
    BY <1>1
  <1> QED BY <1>2, Invariance, PTL DEF Spec, AnswersFirstFit
=============================================================================
