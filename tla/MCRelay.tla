------------------------------ MODULE MCRelay ------------------------------
(* Instances of Relay: a tick is five seconds, so that heartbeats and        *)
(* cleanups come every two ticks, punching fails after one and entries      *)
(* expire after six.                                                        *)
EXTENDS Relay, TLC

CONSTANTS a, b, home1, home2, none

MCNodes == {a, b}
MCNetworks == {home1, home2}
MCSymmetry == Permutations(MCNodes) \union Permutations(MCNetworks)
=============================================================================
