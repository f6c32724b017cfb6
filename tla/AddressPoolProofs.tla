-------------------------- MODULE AddressPoolProofs --------------------------
(* Lemmas about the arithmetic of address pools, for every address space and  *)
(* every subnet, and their proofs.                                            *)
EXTENDS AddressPool, TLAPS

\* A CIDR is an address and a positive block size that divides the space.
LEMMA CidrType ==
  ASSUME NEW cidr \in Cidrs
  PROVE  /\ cidr.addr \in Addr
         /\ cidr.size \in Nat \ {0}
         /\ cidr.size < Space
         /\ Space % cidr.size = 0
  <1>1. cidr \in [addr : Addr, size : BlockSizes]
    BY DEF Cidrs
  <1>2. cidr.addr \in Addr /\ cidr.size \in BlockSizes
    BY <1>1
  <1>3. cidr.size \in 1..(Space - 1) /\ Space % cidr.size = 0
    BY <1>2, AddressAssumption
  <1> QED BY <1>2, <1>3, AddressAssumption

\* Multiples of a positive number are ordered as their quotients.
LEMMA Multiples ==
  ASSUME NEW k \in Nat \ {0}, NEW p \in Nat, NEW q \in Nat, k * p < k * q
  PROVE  k * p + k <= k * q
  <1>1. p < q
    OBVIOUS
  <1>2. PICK d \in Nat : q = p + 1 + d
    <2>1. q - p - 1 \in Nat
      BY <1>1
    <2>2. q = p + 1 + (q - p - 1)
      OBVIOUS
    <2> QED BY <2>1, <2>2
  <1>3. k * q = k * p + k + k * d
    BY <1>2
  <1>4. k * d \in Nat
    OBVIOUS
  <1> QED BY <1>3, <1>4

\* A number lies between two consecutive multiples only.
LEMMA Quotient ==
  ASSUME NEW k \in Nat \ {0}, NEW p \in Nat, NEW q \in Nat, NEW b \in Nat,
         k * p <= b, b < k * p + k, k * q <= b, b < k * q + k
  PROVE  p = q
  <1>1. k * p \in Nat /\ k * q \in Nat
    OBVIOUS
  <1>2. ~(k * p < k * q) /\ ~(k * q < k * p)
    BY <1>1, Multiples
  <1>3. k * p = k * q
    BY <1>1, <1>2
  <1> QED BY <1>3

\* The addresses from the network address up to the end of the block have the
\* same quotient, and the block lies within the space.
LEMMA Block ==
  ASSUME NEW a \in Addr, NEW k \in Nat \ {0}, Space % k = 0
  PROVE  /\ NetworkAddr(a, k) \in Addr
         /\ NetworkAddr(a, k) + k <= Space
         /\ \A b \in NetworkAddr(a, k) .. NetworkAddr(a, k) + k - 1 :
              b \div k = a \div k
  <1> DEFINE q == a \div k
             m == Space \div k
  <1>1. a \in Nat /\ a < Space /\ Space \in Nat
    BY AddressAssumption DEF Addr
  <1>2. /\ q \in Nat
        /\ a % k \in 0..(k - 1)
        /\ a = k * q + (a % k)
    BY <1>1
  <1>3. m \in Nat /\ Space = k * m
    BY <1>1
  <1>4. NetworkAddr(a, k) = k * q
    BY <1>1, <1>2 DEF NetworkAddr
  <1>5. k * q < k * m
    BY <1>1, <1>2, <1>3
  <1>6. k * q + k <= k * m
    BY <1>2, <1>3, <1>5, Multiples
  <1>7. ASSUME NEW b \in k * q .. k * q + k - 1
        PROVE  b \div k = q
    <2>1. b \in Nat /\ k * q <= b /\ b < k * q + k
      BY <1>2, <1>7
    <2>2. /\ b \div k \in Nat
          /\ k * (b \div k) <= b
          /\ b < k * (b \div k) + k
      BY <2>1
    <2> QED BY <1>2, <2>1, <2>2, Quotient
  <1> QED BY <1>1, <1>2, <1>3, <1>4, <1>6, <1>7 DEF Addr

\* Rounding down twice is rounding down once.
LEMMA NetworkAddrIdempotent ==
  ASSUME NEW a \in Addr, NEW k \in Nat \ {0}
  PROVE  NetworkAddr(NetworkAddr(a, k), k) = NetworkAddr(a, k)
  <1>1. a \in Nat
    BY AddressAssumption DEF Addr
  <1>2. NetworkAddr(a, k) = k * (a \div k)
    BY <1>1 DEF NetworkAddr
  <1>3. a \div k \in Nat
    BY <1>1
  <1>4. (k * (a \div k)) % k = 0
    BY <1>3
  <1> QED BY <1>2, <1>3, <1>4 DEF NetworkAddr

\* What addPool stores for a subnet of at least four addresses: nothing wraps.
LEMMA NewPoolValue ==
  ASSUME NEW cidr \in Cidrs, cidr.size >= 4
  PROVE  LET k == cidr.size
             base == NetworkAddr(cidr.addr, k)
         IN  /\ k \in Nat /\ base \in Nat /\ base + k <= Space
             /\ NewPool(cidr, {}) = [base |-> base, start |-> base + 2, end |-> base + k - 2,
                                     allocated |-> {base + 1}]
  <1> DEFINE k == cidr.size
             base == NetworkAddr(cidr.addr, k)
             p == NewPool(cidr, {})
  <1>1. /\ cidr.addr \in Addr /\ k \in Nat /\ k >= 4
        /\ Space % k = 0 /\ Space \in Nat
    BY CidrType, AddressAssumption
  <1>2. base \in Nat /\ base + k <= Space
    BY <1>1, Block DEF Addr
  <1>3. BroadcastAddr(base, k) = base + k - 1
    BY <1>1, NetworkAddrIdempotent DEF BroadcastAddr
  <1> HIDE DEF base, k
  <1>4. \A x \in Nat : x < Space => x % Space = x
    BY <1>1
  <1>5. /\ (base + 1) % Space = base + 1
        /\ (base + 2) % Space = base + 2
        /\ (base + k - 1 - 1) % Space = base + k - 2
        /\ (BroadcastAddr(base, k) - 1) % Space = base + k - 2
    BY <1>1, <1>2, <1>3, <1>4
  <1>6. p = [base |-> base, start |-> base + 2, end |-> base + k - 2,
             allocated |-> {base + 1}]
    <2>1. p = [base |-> base, start |-> (base + 2) % Space,
               end |-> (BroadcastAddr(base, k) - 1) % Space,
               allocated |-> {(base + 1) % Space} \union {}]
      BY DEF NewPool, base, k
    <2> HIDE DEF p
    <2>2. {base + 1} \union {} = {base + 1}
      OBVIOUS
    <2> QED BY <1>5, <2>1, <2>2
  <1> QED BY <1>1, <1>2, <1>6 DEF base, k

\* The addresses of the subnet of a CIDR are those of its block.
LEMMA SubnetIsBlock ==
  ASSUME NEW cidr \in Cidrs
  PROVE  SameSubnet(cidr) =
           NetworkAddr(cidr.addr, cidr.size) .. NetworkAddr(cidr.addr, cidr.size) + cidr.size - 1
  <1> DEFINE k == cidr.size
             base == NetworkAddr(cidr.addr, k)
  <1>1. /\ cidr.addr \in Addr /\ k \in Nat \ {0} /\ Space % k = 0 /\ Space \in Nat
    BY CidrType, AddressAssumption
  <1>2. /\ base \in Addr /\ base + k <= Space
        /\ \A b \in base .. base + k - 1 : b \div k = cidr.addr \div k
    BY <1>1, Block
  <1>3. base = k * (cidr.addr \div k)
    BY <1>1 DEF NetworkAddr, Addr
  <1>4. ASSUME NEW x \in Addr, x \div k = cidr.addr \div k
        PROVE  x \in base .. base + k - 1
    <2> HIDE DEF base, k
    <2>1. x \in Nat /\ base \in Nat
      BY <1>1, <1>2 DEF Addr
    <2>2. x % k \in 0 .. (k - 1) /\ x = k * (x \div k) + (x % k)
      BY <1>1, <2>1
    <2>3. x = base + (x % k)
      BY <1>3, <1>4, <2>2
    <2> QED BY <1>1, <2>1, <2>2, <2>3
  <1>5. base .. base + k - 1 \subseteq Addr
    <2> HIDE DEF base, k
    <2> QED BY <1>1, <1>2 DEF Addr
  <1> QED BY <1>2, <1>4, <1>5 DEF SameSubnet

\* The pool of a subnet of at least four addresses is well formed, and offers
\* the hosts of the subnet: the gateway it reserves is not among them.
LEMMA NewPoolHosts ==
  ASSUME NEW cidr \in Cidrs, cidr.size >= 4
  PROVE  /\ NewPool(cidr, {}) \in Pools
         /\ NewPool(cidr, {}).start .. NewPool(cidr, {}).end = Hosts(cidr)
         /\ NewPool(cidr, {}).allocated \intersect Hosts(cidr) = {}
  <1> DEFINE k == cidr.size
             base == NetworkAddr(cidr.addr, k)
             p == NewPool(cidr, {})
  <1>1. /\ k \in Nat /\ k >= 4 /\ base \in Nat /\ base + k <= Space /\ Space \in Nat
        /\ p = [base |-> base, start |-> base + 2, end |-> base + k - 2,
                allocated |-> {base + 1}]
    BY NewPoolValue, AddressAssumption
  <1>2. SameSubnet(cidr) = base .. base + k - 1
    BY SubnetIsBlock
  <1> HIDE DEF base, k, p
  <1>3. p \in Pools
    BY <1>1 DEF Pools, Addr
  <1>4. ASSUME NEW a \in base + 2 .. base + k - 2
        PROVE  a \in Hosts(cidr)
    <2>1. /\ base \in SameSubnet(cidr) /\ base + 1 \in SameSubnet(cidr)
          /\ a \in SameSubnet(cidr) /\ base + k - 1 \in SameSubnet(cidr)
      BY <1>1, <1>2, <1>4
    <2>2. base < base + 1 /\ base + 1 < a /\ a < base + k - 1
      BY <1>1, <1>4
    <2> QED BY <2>1, <2>2 DEF Hosts
  <1>5. ASSUME NEW a \in Hosts(cidr)
        PROVE  a \in base + 2 .. base + k - 2
    BY <1>1, <1>2, <1>5 DEF Hosts
  <1>6. Hosts(cidr) = base + 2 .. base + k - 2
    BY <1>4, <1>5
  <1> QED BY <1>1, <1>3, <1>6 DEF p

\* The pool of any subnet is well formed.
LEMMA NewPoolType ==
  ASSUME NEW cidr \in Cidrs
  PROVE  NewPool(cidr, {}) \in Pools
  <1>1. /\ cidr.addr \in Addr /\ cidr.size \in Nat \ {0}
        /\ Space % cidr.size = 0
    BY CidrType
  <1>2. NetworkAddr(cidr.addr, cidr.size) \in Addr
    BY <1>1, Block
  <1> DEFINE base == NetworkAddr(cidr.addr, cidr.size)
             last == BroadcastAddr(base, cidr.size)
  <1>3. last \in Int
    BY <1>1, <1>2, NetworkAddrIdempotent, AddressAssumption
       DEF BroadcastAddr, Addr
  <1>4. base \in Int
    BY <1>2, AddressAssumption DEF Addr
  <1>5. \A x \in Int : x % Space \in Addr
    BY AddressAssumption DEF Addr
  <1> HIDE DEF base, last
  <1>6. /\ (base + 1) % Space \in Addr
        /\ (base + 2) % Space \in Addr
        /\ (last - 1) % Space \in Addr
    BY <1>3, <1>4, <1>5
  <1>7. base \in Addr
    BY <1>2 DEF base
  <1>8. NewPool(cidr, {}) = [base |-> base, start |-> (base + 2) % Space,
                             end |-> (last - 1) % Space,
                             allocated |-> {(base + 1) % Space} \union {}]
    BY DEF NewPool, base, last
  <1>9. {(base + 1) % Space} \union {} \in SUBSET Addr
    BY <1>6
  <1> QED BY <1>6, <1>7, <1>8, <1>9 DEF Pools

\* Lending and returning an address change the allocated set only.
LEMMA LendType ==
  ASSUME NEW pool \in Pools, NEW a \in Addr
  PROVE  /\ Lend(pool, a) \in Pools
         /\ Lend(pool, a).start = pool.start
         /\ Lend(pool, a).end = pool.end
         /\ Lend(pool, a).allocated = pool.allocated \union {a}
  BY DEF Lend, Pools

\* The same of returning one.
LEMMA ReturnType ==
  ASSUME NEW pool \in Pools, NEW a
  PROVE  /\ Return(pool, a) \in Pools
         /\ Return(pool, a).start = pool.start
         /\ Return(pool, a).end = pool.end
         /\ Return(pool, a).allocated = pool.allocated \ {a}
  BY DEF Return, Pools

\* The address allocate picks was not allocated.
LEMMA NextIsFree ==
  ASSUME NEW pool \in Pools, NEW a, IsNext(a, pool)
  PROVE  a \in Addr /\ a \notin pool.allocated
  BY AddressAssumption DEF IsNext, FreeAddresses, Pools, Addr
=============================================================================
