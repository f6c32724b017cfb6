------------------------------ MODULE Presence ------------------------------
(***************************************************************************)
(* What the control server promises about the presence of a node: a node   *)
(* is online exactly while one session holds its place; a session takes    *)
(* the place of its node once and never again; the node is in grace after  *)
(* it lost its session, and is forgotten, holder and all, at any time.     *)
(***************************************************************************)
CONSTANTS
  Nodes,
  Sessions,
  NoSession

VARIABLES
  state,   \* presence of each node
  holder,  \* the session holding the place of each node
  spent    \* sessions that have taken a place

vars == <<state, holder, spent>>

Init ==
  /\ state = [n \in Nodes |-> "absent"]
  /\ holder = [n \in Nodes |-> NoSession]
  /\ spent = {}

\* A fresh session takes the place of n, from whichever session had it.
Arrive(n, s) ==
  /\ s \notin spent
  /\ state' = [state EXCEPT ![n] = "online"]
  /\ holder' = [holder EXCEPT ![n] = s]
  /\ spent' = spent \union {s}

\* The holder goes and the node may still come back.
Leave(n) ==
  /\ state[n] = "online"
  /\ state' = [state EXCEPT ![n] = "grace"]
  /\ holder' = [holder EXCEPT ![n] = NoSession]
  /\ UNCHANGED spent

\* Some known nodes are forgotten together.
Forget(gone) ==
  /\ gone # {}
  /\ \A n \in gone : state[n] # "absent"
  /\ state' = [n \in Nodes |-> IF n \in gone THEN "absent" ELSE state[n]]
  /\ holder' = [n \in Nodes |-> IF n \in gone THEN NoSession ELSE holder[n]]
  /\ UNCHANGED spent

Next ==
  \/ \E n \in Nodes, s \in Sessions : Arrive(n, s)
  \/ \E n \in Nodes : Leave(n)
  \/ \E gone \in SUBSET Nodes : Forget(gone)

Spec == Init /\ [][Next]_vars
=============================================================================
