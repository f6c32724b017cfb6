---------------------------- MODULE MCIpAllocator ----------------------------
(* Instances of IpAllocator for TLC: all subnets of a small address space. *)
EXTENDS IpAllocator

\* Subnets with at least one host.
Proper == {c \in Cidrs : c.size >= 4}
=============================================================================
