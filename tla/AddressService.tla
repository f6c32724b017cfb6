--------------------------- MODULE AddressService ---------------------------
(***************************************************************************)
(* Virtual addresses across the control server: the IpAllocator pools, the *)
(* NodeRegistry entries, the devices and network_devices tables, and the   *)
(* address a client gave to its TUN device.                                *)
(*                                                                         *)
(* Node authentication runs on the io thread, one at a time; a REST        *)
(* request runs on a thread of its own, and each statement or call of the  *)
(* allocator is a step between which the other threads run.  Statements    *)
(* that commute with everything a concurrent thread does are joined with   *)
(* their neighbour.  The database is assumed not to fail, and              *)
(* admin.enabled to be set.                                                *)
(*                                                                         *)
(* join_network is reached from authentication only: the route of the REST *)
(* join passes "/<id>" to stoll, which throws.  Its pool exists by then.   *)
(***************************************************************************)
EXTENDS AddressPool, FiniteSets

CONSTANTS
  Nodes,      \* node_id values
  Networks,   \* network names
  NoNetwork,  \* network of a node that is not registered
  NoDevice,   \* the devices table has no row for the node
  SubnetOf,   \* the CIDR the pool of a network is created with
  Seeded,     \* networks with a configured pool, created at start
  Homes,      \* the networks each node may authenticate with
  Threads,    \* concurrent REST requests
  Tunnelled,  \* nodes whose client runs with a TUN device
  MaxFreed    \* bound on the addresses freed by removals since a start

ASSUME ServiceAssumption ==
  /\ NoNetwork \notin Networks
  /\ NoDevice \notin Addr \union {NoAddr}
  /\ SubnetOf \in [Networks -> Cidrs]
  /\ Homes \in [Nodes -> SUBSET Networks]
  /\ Tunnelled \subseteq Nodes

VARIABLES
  pools,    \* IpAllocator::pools_
  regNet,   \* NodeRegistry: network_id of the entry, NoNetwork if none
  regVip,   \* NodeRegistry: virtual_ip of the entry
  device,   \* devices.virtual_ip, NoDevice if there is no row
  members,  \* rows of network_devices
  known,    \* networks with a row in the networks table
  auth,     \* the authentication in progress on the io thread
  leaving,  \* the REST request each thread is serving
  tun,      \* the address of the TUN device of each client
  freed     \* history: addresses a removal has handed back to a network

regVars == <<regNet, regVip>>
dbVars == <<device, members, known>>
vars == <<pools, regVars, dbVars, auth, leaving, tun, freed>>

MaybeAddr == Addr \union {NoAddr}

NoAuth == [pc |-> "idle"]
AuthStates ==
  {NoAuth} \union [pc : {"persist", "join", "lease", "register"},
                   node : Nodes, net : Networks, vip : MaybeAddr]

NoRequest == [pc |-> "idle"]
Requests ==
  {NoRequest} \union [pc : {"remove", "free", "clear"},
                      node : Nodes, net : Networks, vip : MaybeAddr]

TypeOK ==
  /\ pools \in [Networks -> Pools \union {NoPool}]
  /\ regNet \in [Nodes -> Networks \union {NoNetwork}]
  /\ regVip \in [Nodes -> MaybeAddr]
  /\ device \in [Nodes -> MaybeAddr \union {NoDevice}]
  /\ members \subseteq Networks \X Nodes
  /\ known \subseteq Networks
  /\ auth \in AuthStates
  /\ leaving \in [Threads -> Requests]
  /\ tun \in [Nodes -> MaybeAddr]
  /\ freed \subseteq Networks \X MaybeAddr

\* main: the configured pools, none of the addresses in the database reserved.
SeededPools == [w \in Networks |-> IF w \in Seeded
                                   THEN NewPool(SubnetOf[w], {}) ELSE NoPool]

Init ==
  /\ pools = SeededPools
  /\ regNet = [n \in Nodes |-> NoNetwork]
  /\ regVip = [n \in Nodes |-> NoAddr]
  /\ device = [n \in Nodes |-> NoDevice]
  /\ members = {}
  /\ known = {}
  /\ auth = NoAuth
  /\ leaving = [t \in Threads |-> NoRequest]
  /\ tun = [n \in Nodes |-> NoAddr]
  /\ freed = {}

-----------------------------------------------------------------------------
(* Authentication of a node, on the io thread *)

\* allocate: a is the next free address of the pool, or none is left.
Answer(a, pool) == IsNext(a, pool) \/ (a = NoAddr /\ Exhausted(pool))

Taken(pool, a) == IF a = NoAddr THEN pool ELSE Lend(pool, a)

\* Mutant of Assign: the pool is created again for every authentication.
AssignFromNewPool(n, w, a) ==
  LET pool == NewPool(SubnetOf[w], {}) IN
  /\ auth = NoAuth
  /\ w \in Homes[n]
  /\ \/ /\ a = regVip[n] /\ a # NoAddr
        /\ pools' = [pools EXCEPT ![w] = pool]
     \/ /\ regVip[n] = NoAddr
        /\ Answer(a, pool)
        /\ pools' = [pools EXCEPT ![w] = Taken(pool, a)]
  /\ auth' = [pc |-> "persist", node |-> n, net |-> w, vip |-> a]
  /\ UNCHANGED <<regVars, dbVars, leaving, tun, freed>>

\* Mutant of Assign: the address of the registry entry is not looked up.
AssignAnother(n, w, a) ==
  LET pool == IF pools[w] = NoPool THEN NewPool(SubnetOf[w], {}) ELSE pools[w]
  IN /\ auth = NoAuth
     /\ w \in Homes[n]
     /\ Answer(a, pool)
     /\ pools' = [pools EXCEPT ![w] = Taken(pool, a)]
     /\ auth' = [pc |-> "persist", node |-> n, net |-> w, vip |-> a]
     /\ UNCHANGED <<regVars, dbVars, leaving, tun, freed>>

\* assign_virtual_ip: create the pool of the network if there is none, then
\* keep the address of the registry entry or allocate one.
Assign(n, w, a) ==
  LET pool == IF pools[w] = NoPool THEN NewPool(SubnetOf[w], {}) ELSE pools[w]
  IN /\ auth = NoAuth
     /\ w \in Homes[n]
     /\ \/ /\ a = regVip[n] /\ a # NoAddr
           /\ pools' = [pools EXCEPT ![w] = pool]
        \/ /\ regVip[n] = NoAddr
           /\ Answer(a, pool)
           /\ pools' = [pools EXCEPT ![w] = Taken(pool, a)]
     /\ auth' = [pc |-> "persist", node |-> n, net |-> w, vip |-> a]
     /\ UNCHANGED <<regVars, dbVars, leaving, tun, freed>>

\* Mutant of Persist: a device that has a row keeps its address.
PersistOnce ==
  /\ auth.pc = "persist"
  /\ device' = IF device[auth.node] = NoDevice
               THEN [device EXCEPT ![auth.node] = auth.vip] ELSE device
  /\ known' = known \union {auth.net}
  /\ auth' = [auth EXCEPT !.pc = "join"]
  /\ UNCHANGED <<pools, regVars, members, leaving, tun, freed>>

\* ensure_node_auth_persisted: the device and its address, and the network.
Persist ==
  /\ auth.pc = "persist"
  /\ device' = [device EXCEPT ![auth.node] = auth.vip]
  /\ known' = known \union {auth.net}
  /\ auth' = [auth EXCEPT !.pc = "join"]
  /\ UNCHANGED <<pools, regVars, members, leaving, tun, freed>>

\* join_network: an unknown device or a member returns early, and only a device
\* that is read without an address goes on to allocate one.
Join ==
  /\ auth.pc = "join"
  /\ IF device[auth.node] = NoDevice \/ <<auth.net, auth.node>> \in members
     THEN /\ auth' = [auth EXCEPT !.pc = "register"]
          /\ UNCHANGED members
     ELSE /\ members' = members \union {<<auth.net, auth.node>>}
          /\ auth' = [auth EXCEPT !.pc = IF device[auth.node] = NoAddr
                                         THEN "lease" ELSE "register"]
  /\ UNCHANGED <<pools, regVars, device, known, leaving, tun, freed>>

\* The address join_network allocates is stored with the device only.
JoinLease(a) ==
  /\ auth.pc = "lease"
  /\ Answer(a, pools[auth.net])
  /\ pools' = [pools EXCEPT ![auth.net] = Taken(@, a)]
  /\ device' = IF a = NoAddr \/ device[auth.node] = NoDevice THEN device
               ELSE [device EXCEPT ![auth.node] = a]
  /\ auth' = [auth EXCEPT !.pc = "register"]
  /\ UNCHANGED <<regVars, members, known, leaving, tun, freed>>

\* on_virtual_ip_assigned: a client opens its TUN device with the address it is
\* told, unless the device is already up or coming up.
TunAfter(n, vip) ==
  IF n \in Tunnelled /\ tun[n] = NoAddr THEN [tun EXCEPT ![n] = vip] ELSE tun

\* registerNode, then virtual_ip_assigned, which the client may not get.
Register(delivered) ==
  LET n == auth.node IN
  /\ auth.pc = "register"
  /\ regNet' = [regNet EXCEPT ![n] = auth.net]
  /\ regVip' = [regVip EXCEPT ![n] = auth.vip]
  /\ tun' = IF delivered THEN TunAfter(n, auth.vip) ELSE tun
  /\ auth' = NoAuth
  /\ UNCHANGED <<pools, dbVars, leaving, freed>>

\* The HeartbeatMonitor removes the node from the registry.
Expire(n) ==
  /\ auth = NoAuth
  /\ regNet[n] # NoNetwork
  /\ regNet' = [regNet EXCEPT ![n] = NoNetwork]
  /\ regVip' = [regVip EXCEPT ![n] = NoAddr]
  /\ UNCHANGED <<pools, dbVars, auth, leaving, tun, freed>>

-----------------------------------------------------------------------------
(* REST requests *)

\* leave_network reads the device.
LeaveRead(t, n, w) ==
  /\ leaving[t] = NoRequest
  /\ Cardinality(freed) < MaxFreed
  /\ device[n] # NoDevice
  /\ leaving' = [leaving EXCEPT ![t] = [pc |-> "remove", node |-> n, net |-> w,
                                        vip |-> device[n]]]
  /\ UNCHANGED <<pools, regVars, dbVars, auth, tun, freed>>

\* It removes the membership; a device read without an address is done with.
LeaveRemove(t) ==
  LET q == leaving[t] IN
  /\ q.pc = "remove"
  /\ members' = members \ {<<q.net, q.node>>}
  /\ leaving' = [leaving EXCEPT ![t] = IF q.vip = NoAddr THEN NoRequest
                                       ELSE [q EXCEPT !.pc = "free"]]
  /\ UNCHANGED <<pools, regVars, device, known, auth, tun, freed>>

\* It frees the address it read in the pool of the network, if both exist.
LeaveFree(t) ==
  LET q == leaving[t] IN
  /\ q.pc = "free"
  /\ pools' = IF q.net \in known /\ pools[q.net] # NoPool
              THEN [pools EXCEPT ![q.net] = Return(@, q.vip)] ELSE pools
  /\ leaving' = [leaving EXCEPT ![t] = [q EXCEPT !.pc = "clear"]]
  /\ freed' = freed \union {<<q.net, q.vip>>}
  /\ UNCHANGED <<regVars, dbVars, auth, tun>>

\* It clears the address of the device.
LeaveClear(t) ==
  LET n == leaving[t].node IN
  /\ leaving[t].pc = "clear"
  /\ device' = IF device[n] = NoDevice THEN device
               ELSE [device EXCEPT ![n] = NoAddr]
  /\ leaving' = [leaving EXCEPT ![t] = NoRequest]
  /\ UNCHANGED <<pools, regVars, members, known, auth, tun, freed>>

\* DELETE of a device: its row goes and its memberships with it.
DeleteDevice(n) ==
  /\ device[n] # NoDevice
  /\ device' = [device EXCEPT ![n] = NoDevice]
  /\ members' = {m \in members : m[2] # n}
  /\ UNCHANGED <<pools, regVars, known, auth, leaving, tun, freed>>

-----------------------------------------------------------------------------
(* Restarts *)

\* The server stops at any point and starts again: the database is all it keeps.
ServerRestart ==
  /\ pools' = SeededPools
  /\ regNet' = [n \in Nodes |-> NoNetwork]
  /\ regVip' = [n \in Nodes |-> NoAddr]
  /\ auth' = NoAuth
  /\ leaving' = [t \in Threads |-> NoRequest]
  /\ freed' = {}
  /\ UNCHANGED <<dbVars, tun>>

\* The client process ends and takes its TUN device with it.
ClientRestart(n) ==
  /\ tun[n] # NoAddr
  /\ tun' = [tun EXCEPT ![n] = NoAddr]
  /\ UNCHANGED <<pools, regVars, dbVars, auth, leaving, freed>>

Next ==
  \/ \E n \in Nodes, w \in Networks, a \in MaybeAddr : Assign(n, w, a)
  \/ Persist
  \/ Join
  \/ \E a \in MaybeAddr : JoinLease(a)
  \/ \E delivered \in BOOLEAN : Register(delivered)
  \/ \E n \in Nodes : Expire(n)
  \/ \E t \in Threads, n \in Nodes, w \in Networks : LeaveRead(t, n, w)
  \/ \E t \in Threads : LeaveRemove(t)
  \/ \E t \in Threads : LeaveFree(t)
  \/ \E t \in Threads : LeaveClear(t)
  \/ \E n \in Nodes : DeleteDevice(n)
  \/ ServerRestart
  \/ \E n \in Nodes : ClientRestart(n)

Spec == Init /\ [][Next]_vars

-----------------------------------------------------------------------------
(* Properties *)

Clash(n, m) ==
  /\ n # m
  /\ regNet[n] = regNet[m] /\ regNet[n] # NoNetwork
  /\ regVip[n] = regVip[m] /\ regVip[n] # NoAddr

\* "Allocate the next available IP": no two registered nodes of a network have
\* the same virtual address.
AddressesUnique == \A n, m \in Nodes : ~Clash(n, m)

\* Nothing but a removal can make two registered nodes of a network share an
\* address, and then only the address it handed back since the server started:
\* not expiry, re-authentication, a deleted device, a full pool or a restart.
DistinctAddresses ==
  \A n, m \in Nodes : Clash(n, m) => <<regNet[n], regVip[n]>> \in freed

\* The address a node is registered with is a host of the subnet of its network
\* and not the gateway, whatever addresses concurrent removals have freed.
AddressOfNetwork ==
  \A n \in Nodes :
    regNet[n] # NoNetwork /\ regVip[n] # NoAddr
      => regVip[n] \in Hosts(SubnetOf[regNet[n]])

\* Between authentications, until a removal frees an address, the devices table
\* shows the address the registry hands out, for every registered node whose
\* device was not deleted.
DatabaseAgrees ==
  auth = NoAuth /\ freed = {} =>
    \A n \in Nodes :
      regNet[n] # NoNetwork /\ device[n] # NoDevice => device[n] = regVip[n]

\* A node keeps its address for as long as it is registered: neither a second
\* authentication nor the removal of its device gives it another.
AddressKept ==
  [][\A n \in Nodes :
       regVip[n] # NoAddr /\ regNet'[n] # NoNetwork => regVip'[n] = regVip[n]
    ]_vars

\* "Virtual IP assignment already applied": the TUN device of a client has the
\* address the server routes to it.
TunHasAssignedAddress ==
  \A n \in Nodes : tun[n] # NoAddr /\ regVip[n] # NoAddr => tun[n] = regVip[n]
=============================================================================
