-------------------------- MODULE MCAddressService --------------------------
(* Instances of AddressService for TLC. *)
EXTENDS AddressService

\* Each network takes the lower half of the addresses.
Half == [w \in Networks |-> [addr |-> 0, size |-> Space \div 2]]

\* Every node stays in one network.
Settled == [n \in Nodes |-> {CHOOSE w \in Networks : TRUE}]
=============================================================================
