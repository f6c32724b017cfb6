----------------------------- MODULE IpAllocator -----------------------------
(***************************************************************************)
(* The pool of one network in the IpAllocator.  Each call holds the mutex  *)
(* of the class for its whole duration, so it is one step.  Callers create *)
(* a pool after finding that there is none (getSubnet is empty).           *)
(***************************************************************************)
EXTENDS AddressPool

CONSTANT Subnets  \* the CIDRs a pool may be created with

ASSUME SubnetsAssumption == Subnets \subseteq Cidrs

VARIABLES
  pool,    \* pools_[network_id]
  subnet,  \* the CIDR it was created with
  answer,  \* result of the last call of allocate, NoAddr if empty
  lent     \* addresses returned by allocate and not freed since

vars == <<pool, subnet, answer, lent>>

TypeOK ==
  /\ pool \in Pools \union {NoPool}
  /\ subnet \in Subnets \union {NoAddr}
  /\ answer \in Addr \union {NoAddr}
  /\ lent \subseteq Addr

Init ==
  /\ pool = NoPool
  /\ subnet = NoAddr
  /\ answer = NoAddr
  /\ lent = {}

\* No caller passes reserved addresses.
AddPool(cidr) ==
  /\ pool = NoPool
  /\ pool' = NewPool(cidr, {})
  /\ subnet' = cidr
  /\ UNCHANGED <<answer, lent>>

Allocate(a) ==
  /\ pool # NoPool
  /\ IsNext(a, pool)
  /\ pool' = Lend(pool, a)
  /\ answer' = a
  /\ lent' = lent \union {a}
  /\ UNCHANGED subnet

AllocateNothing ==
  /\ pool # NoPool
  /\ Exhausted(pool)
  /\ answer' = NoAddr
  /\ UNCHANGED <<pool, subnet, lent>>

\* free succeeds for every address marked allocated, the gateway included.
Free(a) ==
  /\ pool # NoPool
  /\ a \in pool.allocated
  /\ pool' = Return(pool, a)
  /\ lent' = lent \ {a}
  /\ UNCHANGED <<subnet, answer>>

Next ==
  \/ \E cidr \in Subnets : AddPool(cidr)
  \/ \E a \in Addr : Allocate(a)
  \/ AllocateNothing
  \/ \E a \in Addr : Free(a)

Spec == Init /\ [][Next]_vars

-----------------------------------------------------------------------------
(* Properties *)

\* "Manages a pool of IPv4 addresses within a subnet": only hosts of the subnet
\* are lent, never its network, gateway or broadcast address, even after the
\* gateway was freed.
LentWithinSubnet == lent # {} => lent \subseteq Hosts(subnet)

\* allocate answers with the lowest host not lent, and with nothing only when
\* every host is lent.
AnswersFirstFit ==
  [][/\ \A a \in lent' \ lent :
          /\ a \in Hosts(subnet)
          /\ \A h \in Hosts(subnet) \ lent : a <= h
     /\ answer' # answer /\ answer' = NoAddr => Hosts(subnet) \subseteq lent
    ]_vars

\* No address is lent twice: what is lent stays marked allocated, whatever other
\* addresses are freed, so allocate passes over it.
LentIsAllocated == lent # {} => pool # NoPool /\ lent \subseteq pool.allocated
=============================================================================
