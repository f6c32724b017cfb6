---------------------------- MODULE MCNatSessions ----------------------------
(* Instance of NatSessions for TLC. *)
EXTENDS NatSessions, TLC

\* Connections and nodes are interchangeable in the safety properties.
Symmetry == Permutations(Sessions) \union Permutations(Nodes)
=============================================================================
