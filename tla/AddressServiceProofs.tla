------------------------ MODULE AddressServiceProofs ------------------------
(* Theorems about virtual addresses, for every set of nodes, networks and     *)
(* subnets, and their proofs.                                                 *)
EXTENDS AddressService, AddressPoolProofs

-----------------------------------------------------------------------------
(* Typing *)

Running == [pc : {"persist", "join", "lease", "register"},
            node : Nodes, net : Networks, vip : MaybeAddr]
Serving == [pc : {"remove", "free", "clear"},
            node : Nodes, net : Networks, vip : MaybeAddr]

\* An authentication that has a program counter other than idle is in progress,
\* and moving on changes the program counter only.
LEMMA AuthFacts ==
  ASSUME TypeOK
  PROVE  /\ auth # NoAuth <=> auth \in Running
         /\ auth.pc # "idle" => auth \in Running
         /\ auth \in Running =>
              /\ auth # NoAuth
              /\ auth.node \in Nodes /\ auth.net \in Networks
              /\ auth.vip \in MaybeAddr
              /\ \A p \in {"persist", "join", "lease", "register"} :
                   /\ [auth EXCEPT !.pc = p] \in Running
                   /\ [auth EXCEPT !.pc = p] # NoAuth
                   /\ [auth EXCEPT !.pc = p].pc = p
                   /\ [auth EXCEPT !.pc = p].node = auth.node
                   /\ [auth EXCEPT !.pc = p].net = auth.net
                   /\ [auth EXCEPT !.pc = p].vip = auth.vip
  <1>1. auth \in {NoAuth} \union Running
    BY DEF TypeOK, AuthStates, Running
  <1>2. \A r \in Running : r.pc # "idle"
    BY DEF Running
  <1>3. NoAuth.pc = "idle"
    BY DEF NoAuth
  <1>4. \A r \in Running : r # NoAuth
    BY <1>2, <1>3
  <1>5. ASSUME auth \in Running, NEW p \in {"persist", "join", "lease", "register"}
        PROVE  /\ [auth EXCEPT !.pc = p] \in Running
               /\ [auth EXCEPT !.pc = p].pc = p
               /\ [auth EXCEPT !.pc = p].node = auth.node
               /\ [auth EXCEPT !.pc = p].net = auth.net
               /\ [auth EXCEPT !.pc = p].vip = auth.vip
    BY <1>5 DEF Running
  <1>6. auth \in Running =>
          auth.node \in Nodes /\ auth.net \in Networks /\ auth.vip \in MaybeAddr
    BY DEF Running
  <1> QED BY <1>1, <1>2, <1>3, <1>4, <1>5, <1>6

\* The pools a server starts with are well formed.
LEMMA SeededType == SeededPools \in [Networks -> Pools \union {NoPool}]
  BY ServiceAssumption, NewPoolType DEF SeededPools

\* What allocate answers is an address or none, and taking it keeps the pool
\* well formed.
LEMMA AnswerType ==
  ASSUME NEW pool \in Pools, NEW a, Answer(a, pool)
  PROVE  /\ a \in MaybeAddr
         /\ Taken(pool, a) \in Pools
         /\ pool.allocated \subseteq Taken(pool, a).allocated
         /\ a # NoAddr => /\ a \in Taken(pool, a).allocated
                          /\ a \notin pool.allocated
         /\ a = NoAddr => Exhausted(pool) /\ Taken(pool, a) = pool
  <1>1. CASE IsNext(a, pool)
    <2>1. a \in Addr /\ a \notin pool.allocated /\ a # NoAddr
      BY <1>1, NextIsFree, AddressAssumption
    <2>2. Taken(pool, a) = Lend(pool, a)
      BY <2>1 DEF Taken
    <2>3. /\ Lend(pool, a) \in Pools
          /\ Lend(pool, a).allocated = pool.allocated \union {a}
      BY <2>1, LendType
    <2> QED BY <2>1, <2>2, <2>3 DEF MaybeAddr
  <1>2. CASE a = NoAddr /\ Exhausted(pool)
    BY <1>2 DEF Taken, MaybeAddr
  <1> QED BY <1>1, <1>2 DEF Answer

\* The pool an authentication uses: the one of its network, or a new one.
PoolOf(w) == IF pools[w] = NoPool THEN NewPool(SubnetOf[w], {}) ELSE pools[w]

\* It is well formed.
LEMMA PoolOfType ==
  ASSUME TypeOK, NEW w \in Networks
  PROVE  PoolOf(w) \in Pools
  BY ServiceAssumption, NewPoolType DEF PoolOf, TypeOK

\* The outcome of Assign, in one network's pool and in the procedure.
LEMMA AssignEffect ==
  ASSUME TypeOK, NEW n \in Nodes, NEW w \in Networks, NEW a \in MaybeAddr,
         Assign(n, w, a)
  PROVE  /\ auth = NoAuth /\ w \in Homes[n]
         /\ auth' \in Running /\ auth' # NoAuth
         /\ auth'.pc = "persist" /\ auth'.node = n
         /\ auth'.net = w /\ auth'.vip = a
         /\ pools' \in [Networks -> Pools \union {NoPool}]
         /\ \A v \in Networks : v # w => pools'[v] = pools[v]
         /\ pools'[w] \in Pools
         /\ pools[w] # NoPool => pools[w].allocated \subseteq pools'[w].allocated
         /\ \/ a = regVip[n] /\ a # NoAddr /\ pools'[w] = PoolOf(w)
            \/ /\ regVip[n] = NoAddr
               /\ a # NoAddr => /\ a \in pools'[w].allocated
                                /\ pools[w] # NoPool => a \notin pools[w].allocated
               /\ a = NoAddr => Exhausted(pools'[w])
  <1>1. PoolOf(w) \in Pools
    BY PoolOfType
  <1>2. /\ auth = NoAuth /\ w \in Homes[n]
        /\ auth' = [pc |-> "persist", node |-> n, net |-> w, vip |-> a]
        /\ \/ a = regVip[n] /\ a # NoAddr /\ pools' = [pools EXCEPT ![w] = PoolOf(w)]
           \/ /\ regVip[n] = NoAddr
              /\ Answer(a, PoolOf(w))
              /\ pools' = [pools EXCEPT ![w] = Taken(PoolOf(w), a)]
    BY DEF Assign, PoolOf
  <1>3. auth' \in Running /\ auth' # NoAuth
    BY <1>2 DEF Running, NoAuth
  <1>4. pools[w] # NoPool => PoolOf(w) = pools[w]
    BY DEF PoolOf
  <1>5. CASE a = regVip[n] /\ a # NoAddr /\ pools' = [pools EXCEPT ![w] = PoolOf(w)]
    BY <1>1, <1>2, <1>3, <1>4, <1>5 DEF TypeOK
  <1>6. CASE /\ regVip[n] = NoAddr
             /\ Answer(a, PoolOf(w))
             /\ pools' = [pools EXCEPT ![w] = Taken(PoolOf(w), a)]
    <2>1. /\ Taken(PoolOf(w), a) \in Pools
          /\ PoolOf(w).allocated \subseteq Taken(PoolOf(w), a).allocated
          /\ a # NoAddr => /\ a \in Taken(PoolOf(w), a).allocated
                           /\ a \notin PoolOf(w).allocated
          /\ a = NoAddr => Exhausted(PoolOf(w)) /\ Taken(PoolOf(w), a) = PoolOf(w)
      BY <1>1, <1>6, AnswerType
    <2>2. /\ pools' \in [Networks -> Pools \union {NoPool}]
          /\ \A v \in Networks : v # w => pools'[v] = pools[v]
          /\ pools'[w] = Taken(PoolOf(w), a)
      BY <1>6, <2>1 DEF TypeOK
    <2> QED BY <1>2, <1>3, <1>4, <1>6, <2>1, <2>2
  <1> QED BY <1>2, <1>5, <1>6

\* The outcome of JoinLease, in one network's pool and for one device.
LEMMA JoinLeaseEffect ==
  ASSUME TypeOK, auth # NoAuth => pools[auth.net] # NoPool,
         NEW a \in MaybeAddr, JoinLease(a)
  PROVE  /\ auth \in Running /\ auth.pc = "lease"
         /\ auth' = [auth EXCEPT !.pc = "register"]
         /\ pools' \in [Networks -> Pools \union {NoPool}]
         /\ \A v \in Networks :
              pools[v] # NoPool => /\ pools'[v] # NoPool
                                   /\ pools[v].allocated \subseteq pools'[v].allocated
         /\ device' \in [Nodes -> MaybeAddr \union {NoDevice}]
         /\ \A m \in Nodes : m # auth.node => device'[m] = device[m]
         /\ Exhausted(pools[auth.net]) => UNCHANGED <<pools, device>>
  <1>1. auth \in Running /\ auth.node \in Nodes /\ auth.net \in Networks
    BY AuthFacts DEF JoinLease
  <1>2. pools[auth.net] \in Pools
    BY <1>1, AuthFacts DEF TypeOK
  <1>3. /\ Answer(a, pools[auth.net])
        /\ pools' = [pools EXCEPT ![auth.net] = Taken(pools[auth.net], a)]
        /\ device' = IF a = NoAddr \/ device[auth.node] = NoDevice THEN device
                     ELSE [device EXCEPT ![auth.node] = a]
        /\ auth.pc = "lease"
        /\ auth' = [auth EXCEPT !.pc = "register"]
    BY DEF JoinLease
  <1>4. /\ Taken(pools[auth.net], a) \in Pools
        /\ pools[auth.net].allocated \subseteq Taken(pools[auth.net], a).allocated
        /\ a = NoAddr => Taken(pools[auth.net], a) = pools[auth.net]
    BY <1>2, <1>3, AnswerType
  <1>5. ASSUME Exhausted(pools[auth.net]) PROVE a = NoAddr
    BY <1>3, <1>5 DEF Answer, Exhausted, IsNext
  <1>6. Exhausted(pools[auth.net]) => UNCHANGED <<pools, device>>
    BY <1>1, <1>3, <1>4, <1>5 DEF TypeOK
  <1> QED BY <1>1, <1>2, <1>3, <1>4, <1>6, AddressAssumption DEF TypeOK

\* The part of the invariants that holds in every configuration: the state is
\* well formed, and an authentication in progress has a pool and carries the
\* address its node is registered with.
Base ==
  /\ TypeOK
  /\ auth # NoAuth => pools[auth.net] # NoPool
  /\ auth # NoAuth /\ regVip[auth.node] # NoAddr => auth.vip = regVip[auth.node]

\* It holds initially.
LEMMA BaseInit == Init => Base
  BY SeededType DEF Init, Base, TypeOK, AuthStates, Requests, MaybeAddr

\* A thread that serves a request knows its node, network and address.
LEMMA ServingFacts ==
  ASSUME TypeOK, NEW t \in Threads, leaving[t].pc # "idle"
  PROVE  /\ leaving[t] \in Serving
         /\ leaving[t].node \in Nodes /\ leaving[t].net \in Networks
         /\ leaving[t].vip \in MaybeAddr
         /\ \A p \in {"remove", "free", "clear"} :
              [leaving[t] EXCEPT !.pc = p] \in Serving
  <1>1. leaving[t] \in {NoRequest} \union Serving
    BY DEF TypeOK, Requests, Serving
  <1>2. leaving[t] # NoRequest
    BY DEF NoRequest
  <1> QED BY <1>1, <1>2 DEF Serving

\* Every step keeps it.
LEMMA BaseStep ==
  ASSUME Base, [Next]_vars
  PROVE  Base'
  <1> USE DEF regVars, dbVars
  <1>0. TypeOK
    BY DEF Base
  <1>a. \A q \in Running : q \in AuthStates
    BY DEF Running, AuthStates
  <1>s. \A q \in Serving : q \in Requests
    BY DEF Serving, Requests
  <1>n. NoRequest \in Requests /\ NoAuth \in AuthStates
    BY DEF Requests, AuthStates
  <1>1. ASSUME NEW n \in Nodes, NEW w \in Networks, NEW a \in MaybeAddr,
               Assign(n, w, a)
        PROVE  Base'
    <2>1. /\ auth' \in AuthStates /\ auth'.node = n /\ auth'.net = w
          /\ auth'.vip = a
          /\ regVip[n] # NoAddr => a = regVip[n]
          /\ pools' \in [Networks -> Pools \union {NoPool}]
          /\ pools'[w] # NoPool
      BY <1>0, <1>1, <1>a, AssignEffect, AddressAssumption
    <2>2. UNCHANGED <<regNet, regVip, device, members, known, leaving, tun, freed>>
      BY <1>1 DEF Assign
    <2> QED BY <1>0, <2>1, <2>2 DEF Base, TypeOK
  <1>2. ASSUME Persist PROVE Base'
    <2>1. auth \in Running /\ auth.node \in Nodes /\ auth.net \in Networks
          /\ auth.vip \in MaybeAddr /\ auth # NoAuth
      BY <1>0, <1>2, AuthFacts DEF Persist
    <2>2. auth' \in AuthStates /\ auth'.node = auth.node
          /\ auth'.net = auth.net /\ auth'.vip = auth.vip
      BY <1>0, <1>2, <1>a, <2>1, AuthFacts DEF Persist
    <2>3. /\ device' = [device EXCEPT ![auth.node] = auth.vip]
          /\ known' = known \union {auth.net}
          /\ UNCHANGED <<pools, regNet, regVip, members, leaving, tun, freed>>
      BY <1>2 DEF Persist
    <2> QED BY <1>0, <2>1, <2>2, <2>3 DEF Base, TypeOK
  <1>3. ASSUME Join PROVE Base'
    <2>1. auth \in Running /\ auth.node \in Nodes /\ auth.net \in Networks
          /\ auth # NoAuth
      BY <1>0, <1>3, AuthFacts DEF Join
    <2>2. auth' \in AuthStates /\ auth'.node = auth.node
          /\ auth'.net = auth.net /\ auth'.vip = auth.vip
      BY <1>0, <1>3, <1>a, <2>1, AuthFacts DEF Join
    <2>3. /\ members' \subseteq members \union {<<auth.net, auth.node>>}
          /\ UNCHANGED <<pools, regNet, regVip, device, known, leaving, tun, freed>>
      BY <1>3 DEF Join
    <2>4. members' \subseteq Networks \X Nodes
      BY <1>0, <2>1, <2>3 DEF TypeOK
    <2> QED BY <1>0, <2>1, <2>2, <2>3, <2>4 DEF Base, TypeOK
  <1>4. ASSUME NEW a \in MaybeAddr, JoinLease(a) PROVE Base'
    <2>1. /\ auth \in Running /\ auth # NoAuth /\ auth.net \in Networks
          /\ pools' \in [Networks -> Pools \union {NoPool}]
          /\ pools'[auth.net] # NoPool
          /\ device' \in [Nodes -> MaybeAddr \union {NoDevice}]
          /\ auth' = [auth EXCEPT !.pc = "register"]
      BY <1>0, <1>4, JoinLeaseEffect, AuthFacts DEF Base
    <2>2. auth' \in AuthStates /\ auth'.node = auth.node
          /\ auth'.net = auth.net /\ auth'.vip = auth.vip
      BY <1>0, <1>a, <2>1, AuthFacts
    <2>3. UNCHANGED <<regNet, regVip, members, known, leaving, tun, freed>>
      BY <1>4 DEF JoinLease
    <2> QED BY <1>0, <2>1, <2>2, <2>3 DEF Base, TypeOK
  <1>5. ASSUME NEW delivered \in BOOLEAN, Register(delivered) PROVE Base'
    <2>1. auth \in Running /\ auth.node \in Nodes /\ auth.net \in Networks
          /\ auth.vip \in MaybeAddr
      BY <1>0, <1>5, AuthFacts DEF Register
    <2> QED BY <1>0, <1>5, <1>n, <2>1 DEF Register, TunAfter, Base, TypeOK
  <1>6. ASSUME NEW n \in Nodes, Expire(n) PROVE Base'
    BY <1>0, <1>6 DEF Expire, Base, TypeOK, MaybeAddr
  <1>7. ASSUME NEW t \in Threads, NEW n \in Nodes, NEW w \in Networks,
               LeaveRead(t, n, w)
        PROVE  Base'
    <2>1. [pc |-> "remove", node |-> n, net |-> w, vip |-> device[n]] \in Serving
      BY <1>0, <1>7 DEF LeaveRead, TypeOK, Serving
    <2>2. leaving' \in [Threads -> Requests]
      BY <1>0, <1>7, <1>s, <2>1 DEF LeaveRead, TypeOK
    <2> QED BY <1>0, <1>7, <2>2 DEF LeaveRead, Base, TypeOK
  <1>8. ASSUME NEW t \in Threads, LeaveRemove(t) PROVE Base'
    <2>1. leaving' \in [Threads -> Requests]
      BY <1>0, <1>8, <1>s, <1>n, ServingFacts DEF LeaveRemove, TypeOK
    <2>2. members' \subseteq Networks \X Nodes
      BY <1>0, <1>8 DEF LeaveRemove, TypeOK
    <2> QED BY <1>0, <1>8, <2>1, <2>2 DEF LeaveRemove, Base, TypeOK
  <1>9. ASSUME NEW t \in Threads, LeaveFree(t) PROVE Base'
    <2>1. leaving' \in [Threads -> Requests]
      BY <1>0, <1>9, <1>s, ServingFacts DEF LeaveFree, TypeOK
    <2>2. /\ pools' \in [Networks -> Pools \union {NoPool}]
          /\ \A v \in Networks : pools[v] # NoPool => pools'[v] # NoPool
      <3>1. CASE leaving[t].net \in known /\ pools[leaving[t].net] # NoPool
        <4>1. leaving[t].net \in Networks
          BY <1>0, <1>9, ServingFacts DEF LeaveFree
        <4>2. Return(pools[leaving[t].net], leaving[t].vip) \in Pools
          BY <1>0, <3>1, <4>1, ReturnType DEF TypeOK
        <4> QED BY <1>0, <1>9, <3>1, <4>1, <4>2, AddressAssumption
                DEF LeaveFree, TypeOK
      <3>2. CASE ~(leaving[t].net \in known /\ pools[leaving[t].net] # NoPool)
        BY <1>0, <1>9, <3>2 DEF LeaveFree, TypeOK
      <3> QED BY <3>1, <3>2
    <2>3. UNCHANGED <<regNet, regVip, device, members, known, auth, tun>>
      BY <1>9 DEF LeaveFree
    <2>4. auth # NoAuth => auth.net \in Networks
      BY <1>0, AuthFacts
    <2>5. freed' \subseteq Networks \X MaybeAddr
      <3>1. freed' = freed \union {<<leaving[t].net, leaving[t].vip>>}
        BY <1>9 DEF LeaveFree
      <3>2. leaving[t].net \in Networks /\ leaving[t].vip \in MaybeAddr
        <4>1. leaving[t].pc # "idle"
          BY <1>9 DEF LeaveFree
        <4> QED BY <1>0, <4>1, ServingFacts
      <3> QED BY <1>0, <3>1, <3>2 DEF TypeOK
    <2> QED BY <1>0, <2>1, <2>2, <2>3, <2>4, <2>5 DEF Base, TypeOK
  <1>10. ASSUME NEW t \in Threads, LeaveClear(t) PROVE Base'
    <2>1. leaving[t].node \in Nodes
      BY <1>0, <1>10, ServingFacts DEF LeaveClear
    <2> QED BY <1>0, <1>10, <1>n, <2>1 DEF LeaveClear, Base, TypeOK, MaybeAddr
  <1>11. ASSUME NEW n \in Nodes, DeleteDevice(n) PROVE Base'
    BY <1>0, <1>11 DEF DeleteDevice, Base, TypeOK
  <1>12. ASSUME ServerRestart PROVE Base'
    BY <1>0, <1>12, <1>n, SeededType DEF ServerRestart, Base, TypeOK, MaybeAddr
  <1>13. ASSUME NEW n \in Nodes, ClientRestart(n) PROVE Base'
    BY <1>0, <1>13 DEF ClientRestart, Base, TypeOK, MaybeAddr
  <1>14. CASE UNCHANGED vars
    BY <1>0, <1>14 DEF vars, Base, TypeOK
  <1> QED BY <1>1, <1>2, <1>3, <1>4, <1>5, <1>6, <1>7, <1>8, <1>9, <1>10,
             <1>11, <1>12, <1>13, <1>14 DEF Next

\* Every variable keeps its type.
THEOREM TypeCorrect == Spec => []TypeOK
  <1>1. Base => TypeOK
    BY DEF Base
  <1> QED BY <1>1, BaseInit, BaseStep, PTL DEF Spec

-----------------------------------------------------------------------------
(* A registered node keeps its address *)

\* Whatever else runs between the steps of an authentication, it registers the
\* node with the address the node already had.
THEOREM RegisteredNodeKeepsAddress == Spec => AddressKept
  <1> DEFINE Kept == \A n \in Nodes :
               regVip[n] # NoAddr /\ regNet'[n] # NoNetwork
                 => regVip'[n] = regVip[n]
  <1>1. ASSUME Base, [Next]_vars
        PROVE  Kept
    <2>1. CASE UNCHANGED <<regNet, regVip>>
      BY <2>1
    <2>2. ASSUME NEW delivered \in BOOLEAN, Register(delivered)
          PROVE  Kept
      <3>1. auth.node \in Nodes /\ auth # NoAuth
        BY <1>1, <2>2, AuthFacts DEF Base, Register
      <3>2. regVip' = [regVip EXCEPT ![auth.node] = auth.vip]
        BY <2>2 DEF Register
      <3> QED BY <1>1, <3>1, <3>2 DEF Base, TypeOK
    <2>3. ASSUME NEW n \in Nodes, Expire(n)
          PROVE  Kept
      BY <1>1, <2>3 DEF Expire, Base, TypeOK
    <2>4. ASSUME ServerRestart
          PROVE  Kept
      BY <2>4 DEF ServerRestart
    <2> QED BY <1>1, <2>1, <2>2, <2>3, <2>4
            DEF Next, vars, regVars, dbVars, Assign, Persist, Join, JoinLease,
                LeaveRead, LeaveRemove, LeaveFree, LeaveClear, DeleteDevice,
                ClientRestart
  <1>2. Base /\ [Next]_vars => [Kept]_vars
    BY <1>1
  <1> QED BY <1>2, BaseInit, BaseStep, PTL DEF Spec, AddressKept

-----------------------------------------------------------------------------
(* Addresses are distinct while nodes stay in their network *)

\* Nodes stay in one network each.
Settled == \A n \in Nodes : \A v, w \in Homes[n] : v = w

\* An address in use is marked allocated in the pool of a network, unless a
\* removal handed it back.
HeldIn(a, w) ==
  \/ pools[w] # NoPool /\ a \in pools[w].allocated
  \/ <<w, a>> \in freed

\* Both registered nodes and the one being authenticated hold addresses of their
\* own, all marked allocated, but for addresses that were handed back.
Held ==
  /\ Base
  /\ \A n \in Nodes : regVip[n] # NoAddr => regNet[n] # NoNetwork
  /\ \A n \in Nodes : regNet[n] # NoNetwork => regNet[n] \in Homes[n]
  /\ \A n \in Nodes : regVip[n] # NoAddr => HeldIn(regVip[n], regNet[n])
  /\ auth # NoAuth => auth.net \in Homes[auth.node]
  /\ auth # NoAuth /\ auth.vip # NoAddr =>
       /\ HeldIn(auth.vip, auth.net)
       /\ \A m \in Nodes : /\ m # auth.node /\ regNet[m] = auth.net
                            /\ regVip[m] = auth.vip
                            => <<auth.net, auth.vip>> \in freed
  /\ DistinctAddresses

\* A step that leaves the registry and the authentication alone, and takes no
\* address out of a pool but one that becomes freed, keeps the invariant.
LEMMA HeldQuiet ==
  ASSUME Held, Base', UNCHANGED <<regNet, regVip>>, freed \subseteq freed',
         \A v \in Networks : pools[v] # NoPool =>
            /\ pools'[v] # NoPool
            /\ \A a \in pools[v].allocated :
                 a \in pools'[v].allocated \/ <<v, a>> \in freed',
         \/ UNCHANGED auth
         \/ /\ auth # NoAuth /\ auth.node \in Nodes /\ auth.net \in Networks
            /\ auth'.node = auth.node /\ auth'.net = auth.net
            /\ auth'.vip = auth.vip
  PROVE  Held'
  <1>1. TypeOK
    BY DEF Held, Base
  <1>2. \A n \in Nodes : regVip[n] # NoAddr => HeldIn(regVip[n], regNet[n])'
    BY <1>1 DEF Held, HeldIn, TypeOK
  <1>3. auth # NoAuth => auth.net \in Networks
    BY <1>1, AuthFacts
  <1>4. auth' # NoAuth /\ auth'.vip # NoAddr => HeldIn(auth.vip, auth.net)'
    BY <1>3 DEF Held, HeldIn
  <1> QED BY <1>1, <1>2, <1>3, <1>4 DEF Held, HeldIn, DistinctAddresses, Clash

\* Every step keeps the invariant.
LEMMA HeldStep ==
  ASSUME Settled, Held, [Next]_vars
  PROVE  Held'
  <1> USE DEF regVars, dbVars
  <1>0. TypeOK /\ Base
    BY DEF Held, Base
  <1>b. Base'
    BY <1>0, BaseStep
  <1>1. ASSUME NEW n \in Nodes, NEW w \in Networks, NEW a \in MaybeAddr,
               Assign(n, w, a)
        PROVE  Held'
    <2>1. /\ w \in Homes[n] /\ auth' # NoAuth
          /\ auth'.node = n /\ auth'.net = w /\ auth'.vip = a
          /\ \A v \in Networks : v # w => pools'[v] = pools[v]
          /\ pools'[w] \in Pools
          /\ pools[w] # NoPool => pools[w].allocated \subseteq pools'[w].allocated
          /\ \/ a = regVip[n] /\ a # NoAddr
             \/ /\ regVip[n] = NoAddr
                /\ a # NoAddr => /\ a \in pools'[w].allocated
                                 /\ pools[w] # NoPool => a \notin pools[w].allocated
      BY <1>0, <1>1, AssignEffect
    <2>2. UNCHANGED <<regNet, regVip, freed>>
      BY <1>1 DEF Assign
    <2>3. pools'[w] # NoPool
      BY <2>1, AddressAssumption
    <2>4. \A m \in Nodes : regVip[m] # NoAddr => HeldIn(regVip[m], regNet[m])'
      BY <1>0, <2>1, <2>2, <2>3 DEF Held, HeldIn, TypeOK
    <2>5. ASSUME a # NoAddr
          PROVE  /\ HeldIn(a, w)'
                 /\ \A m \in Nodes : m # n /\ regNet[m] = w /\ regVip[m] = a
                                       => <<w, a>> \in freed
      <3>1. CASE a = regVip[n]
        <4>1. regNet[n] = w
          BY <2>1, <2>5, <3>1 DEF Held, Settled
        <4>2. HeldIn(a, w)'
          BY <2>2, <2>4, <2>5, <3>1, <4>1 DEF HeldIn
        <4> QED BY <1>0, <2>5, <3>1, <4>1, <4>2, ServiceAssumption
                DEF Held, DistinctAddresses, Clash, TypeOK
      <3>2. CASE regVip[n] = NoAddr
        <4>1. /\ a \in pools'[w].allocated
              /\ pools[w] # NoPool => a \notin pools[w].allocated
          BY <2>1, <2>5, <3>2
        <4>2. HeldIn(a, w)'
          BY <2>3, <4>1 DEF HeldIn
        <4>3. ASSUME NEW m \in Nodes, regNet[m] = w, regVip[m] = a
              PROVE  <<w, a>> \in freed
          <5>1. HeldIn(a, w)
            BY <2>5, <4>3 DEF Held
          <5> QED BY <4>1, <5>1 DEF HeldIn
        <4> QED BY <4>2, <4>3
      <3> QED BY <2>1, <3>1, <3>2
    <2> QED BY <1>b, <2>1, <2>2, <2>4, <2>5 DEF Held, HeldIn, DistinctAddresses, Clash
  <1>2. ASSUME Persist \/ Join PROVE Held'
    <2>1. /\ auth # NoAuth /\ auth.node \in Nodes /\ auth.net \in Networks
          /\ auth'.node = auth.node /\ auth'.net = auth.net
          /\ auth'.vip = auth.vip
      BY <1>0, <1>2, AuthFacts DEF Persist, Join
    <2>2. UNCHANGED <<regNet, regVip, freed, pools>>
      BY <1>2 DEF Persist, Join
    <2> QED BY <1>b, <2>1, <2>2, HeldQuiet
  <1>4. ASSUME NEW a \in MaybeAddr, JoinLease(a) PROVE Held'
    <2>1. /\ auth \in Running
          /\ auth' = [auth EXCEPT !.pc = "register"]
          /\ \A v \in Networks : pools[v] # NoPool =>
               /\ pools'[v] # NoPool
               /\ pools[v].allocated \subseteq pools'[v].allocated
      BY <1>0, <1>4, JoinLeaseEffect DEF Base
    <2>2. /\ auth # NoAuth /\ auth.node \in Nodes /\ auth.net \in Networks
          /\ auth'.node = auth.node /\ auth'.net = auth.net
          /\ auth'.vip = auth.vip
      BY <1>0, <2>1, AuthFacts
    <2>3. UNCHANGED <<regNet, regVip, freed>>
      BY <1>4 DEF JoinLease
    <2> QED BY <1>b, <2>1, <2>2, <2>3, HeldQuiet
  <1>5. ASSUME NEW delivered \in BOOLEAN, Register(delivered) PROVE Held'
    <2>1. /\ auth # NoAuth /\ auth.node \in Nodes /\ auth.net \in Networks
          /\ auth.vip \in MaybeAddr
      BY <1>0, <1>5, AuthFacts DEF Register
    <2>2. /\ regNet' = [regNet EXCEPT ![auth.node] = auth.net]
          /\ regVip' = [regVip EXCEPT ![auth.node] = auth.vip]
          /\ auth' = NoAuth
          /\ UNCHANGED <<freed, pools>>
      BY <1>5 DEF Register
    <2>3. \A n \in Nodes : /\ regNet'[n] = IF n = auth.node THEN auth.net
                                           ELSE regNet[n]
                           /\ regVip'[n] = IF n = auth.node THEN auth.vip
                                           ELSE regVip[n]
      BY <1>0, <2>2 DEF TypeOK
    <2>4. DistinctAddresses'
      <3> SUFFICES ASSUME NEW n \in Nodes, NEW m \in Nodes, Clash(n, m)'
                   PROVE  <<regNet'[n], regVip'[n]>> \in freed
        BY <2>2 DEF DistinctAddresses
      <3>1. CASE n # auth.node /\ m # auth.node
        <4>1. Clash(n, m) /\ regNet'[n] = regNet[n] /\ regVip'[n] = regVip[n]
          BY <2>3, <3>1 DEF Clash
        <4> QED BY <4>1 DEF Held, DistinctAddresses
      <3>2. CASE n = auth.node \/ m = auth.node
        <4>1. PICK k \in {n, m} : k # auth.node
          BY <3>2 DEF Clash
        <4>2. /\ auth.vip # NoAddr /\ regNet[k] = auth.net
              /\ regVip[k] = auth.vip
              /\ regNet'[n] = auth.net /\ regVip'[n] = auth.vip
          BY <2>3, <3>2, <4>1 DEF Clash
        <4> QED BY <2>1, <4>1, <4>2 DEF Held
      <3> QED BY <3>1, <3>2
    <2>5. \A n \in Nodes : regVip'[n] # NoAddr => HeldIn(regVip[n], regNet[n])'
      BY <2>1, <2>2, <2>3 DEF Held, HeldIn
    <2>6. auth.net # NoNetwork
      BY <2>1, ServiceAssumption
    <2> QED BY <1>b, <2>1, <2>2, <2>3, <2>4, <2>5, <2>6 DEF Held, HeldIn
  <1>6. ASSUME NEW n \in Nodes, Expire(n) PROVE Held'
    <2>1. /\ \A m \in Nodes : /\ regNet'[m] = IF m = n THEN NoNetwork ELSE regNet[m]
                              /\ regVip'[m] = IF m = n THEN NoAddr ELSE regVip[m]
          /\ auth = NoAuth
          /\ UNCHANGED <<freed, pools, auth>>
      BY <1>0, <1>6 DEF Expire, TypeOK
    <2> QED BY <1>b, <2>1 DEF Held, HeldIn, DistinctAddresses, Clash
  <1>7. ASSUME NEW t \in Threads, NEW n \in Nodes, NEW w \in Networks,
               LeaveRead(t, n, w)
        PROVE  Held'
    BY <1>b, <1>7, HeldQuiet DEF LeaveRead
  <1>8. ASSUME NEW t \in Threads, LeaveRemove(t) \/ LeaveClear(t)
        PROVE  Held'
    BY <1>b, <1>8, HeldQuiet DEF LeaveRemove, LeaveClear
  <1>9. ASSUME NEW t \in Threads, LeaveFree(t)
        PROVE  Held'
    <2>1. UNCHANGED <<regNet, regVip, auth>> /\ freed \subseteq freed'
      BY <1>9 DEF LeaveFree
    <2>2. ASSUME NEW v \in Networks, pools[v] # NoPool
          PROVE  /\ pools'[v] # NoPool
                 /\ \A a \in pools[v].allocated :
                      a \in pools'[v].allocated \/ <<v, a>> \in freed'
      <3> DEFINE q == leaving[t]
      <3>1. q.net \in Networks /\ pools[v] \in Pools
        BY <1>0, <1>9, <2>2, ServingFacts DEF LeaveFree, TypeOK
      <3>2. /\ Return(pools[v], q.vip) \in Pools
            /\ Return(pools[v], q.vip).allocated = pools[v].allocated \ {q.vip}
        BY <3>1, ReturnType
      <3>3. \/ pools'[v] = pools[v]
            \/ v = q.net /\ pools'[v] = Return(pools[v], q.vip)
        BY <1>0, <1>9 DEF LeaveFree, TypeOK
      <3>4. <<q.net, q.vip>> \in freed'
        BY <1>9 DEF LeaveFree
      <3> HIDE DEF q
      <3> QED BY <2>2, <3>2, <3>3, <3>4, AddressAssumption
    <2> QED BY <1>b, <2>1, <2>2, HeldQuiet
  <1>11. ASSUME NEW n \in Nodes, DeleteDevice(n) \/ ClientRestart(n)
         PROVE  Held'
    BY <1>b, <1>11, HeldQuiet DEF DeleteDevice, ClientRestart
  <1>12. ASSUME ServerRestart PROVE Held'
    BY <1>b, <1>12 DEF ServerRestart, Held, DistinctAddresses, Clash
  <1>14. CASE UNCHANGED vars
    BY <1>b, <1>14, HeldQuiet DEF vars
  <1> QED BY <1>1, <1>2, <1>4, <1>5, <1>6, <1>7, <1>8, <1>9, <1>11,
             <1>12, <1>14 DEF Next

\* While nodes stay in their networks, two registered nodes of a network share an
\* address only if a removal handed it back: not after expiry, a second
\* authentication, a deleted device or a restart of the server.
THEOREM AddressesDistinct ==
  ASSUME Settled
  PROVE  Spec => []DistinctAddresses
  <1>1. Init => Held
    BY BaseInit DEF Init, Held, DistinctAddresses, Clash
  <1>2. Held /\ [Next]_vars => Held'
    BY HeldStep
  <1>3. Held => DistinctAddresses
    BY DEF Held
  <1> QED BY <1>1, <1>2, <1>3, PTL DEF Spec

-----------------------------------------------------------------------------
(* Addresses belong to the network *)

\* Every network has a subnet with at least one host.
Roomy == \A w \in Networks : SubnetOf[w].size >= 4

\* What the scan of allocate may offer for a network are hosts of its subnet.
Offers(pool, w) == pool.start .. pool.end \subseteq Hosts(SubnetOf[w])

\* Pools offer hosts, and so registered nodes and the one being authenticated
\* have an address of the one network they authenticate with.
Placed ==
  /\ Base
  /\ \A w \in Networks : pools[w] # NoPool => Offers(pools[w], w)
  /\ \A n \in Nodes : regVip[n] # NoAddr =>
       /\ regNet[n] \in Homes[n]
       /\ regVip[n] \in Hosts(SubnetOf[regNet[n]])
  /\ auth # NoAuth => auth.net \in Homes[auth.node]
  /\ auth # NoAuth /\ auth.vip # NoAddr =>
       auth.vip \in Hosts(SubnetOf[auth.net])

\* A new pool offers hosts.
LEMMA NewPoolOffers ==
  ASSUME Roomy, NEW w \in Networks
  PROVE  Offers(NewPool(SubnetOf[w], {}), w)
  <1>1. SubnetOf[w] \in Cidrs /\ SubnetOf[w].size >= 4
    BY ServiceAssumption DEF Roomy
  <1> QED BY <1>1, NewPoolHosts DEF Offers

\* Allocating leaves what a pool offers as it was, and answers one of that.
LEMMA AnswerOffered ==
  ASSUME NEW pool \in Pools, NEW w, NEW a, Answer(a, pool), Offers(pool, w)
  PROVE  /\ Offers(Taken(pool, a), w)
         /\ a # NoAddr => a \in Hosts(SubnetOf[w])
  <1>1. CASE IsNext(a, pool)
    <2>1. a \in Addr /\ a # NoAddr
      BY <1>1, NextIsFree, AddressAssumption
    <2>2. a \in pool.start .. pool.end
      BY <1>1 DEF IsNext, FreeAddresses
    <2> QED BY <2>1, <2>2, LendType DEF Taken, Offers
  <1>2. CASE a = NoAddr
    BY <1>2 DEF Taken
  <1> QED BY <1>1, <1>2 DEF Answer

\* A step that keeps the registry, the authentication and what each pool offers
\* keeps the invariant.
LEMMA PlacedQuiet ==
  ASSUME Placed, Base', UNCHANGED <<regNet, regVip>>,
         \A w \in Networks : pools'[w] # NoPool => Offers(pools'[w], w),
         \/ UNCHANGED auth
         \/ /\ auth # NoAuth /\ auth'.node = auth.node
            /\ auth'.net = auth.net /\ auth'.vip = auth.vip
  PROVE  Placed'
  BY DEF Placed, Offers

\* Every step keeps it.
LEMMA PlacedStep ==
  ASSUME Settled, Roomy, Placed, [Next]_vars
  PROVE  Placed'
  <1> USE DEF regVars, dbVars
  <1>0. TypeOK /\ Base
    BY DEF Placed, Base
  <1>b. Base'
    BY <1>0, BaseStep
  <1>o. \A w \in Networks : pools[w] # NoPool => Offers(pools[w], w)
    BY DEF Placed
  <1>1. ASSUME NEW n \in Nodes, NEW w \in Networks, NEW a \in MaybeAddr,
               Assign(n, w, a)
        PROVE  Placed'
    <2>1. PoolOf(w) \in Pools /\ Offers(PoolOf(w), w)
      BY <1>0, <1>o, PoolOfType, NewPoolOffers DEF PoolOf
    <2>2. /\ w \in Homes[n] /\ auth' # NoAuth
          /\ auth'.node = n /\ auth'.net = w /\ auth'.vip = a
          /\ \A v \in Networks : v # w => pools'[v] = pools[v]
      BY <1>0, <1>1, AssignEffect
    <2>3. /\ \/ a = regVip[n] /\ a # NoAddr /\ pools'[w] = PoolOf(w)
             \/ Answer(a, PoolOf(w)) /\ pools'[w] = Taken(PoolOf(w), a)
          /\ UNCHANGED <<regNet, regVip>>
      BY <1>0, <1>1 DEF Assign, PoolOf, TypeOK
    <2>4. Offers(pools'[w], w) /\ (a # NoAddr => a \in Hosts(SubnetOf[w]))
      <3>1. CASE a = regVip[n] /\ a # NoAddr /\ pools'[w] = PoolOf(w)
        <4>1. regNet[n] = w
          BY <2>2, <3>1 DEF Placed, Settled
        <4> QED BY <2>1, <3>1, <4>1 DEF Placed
      <3>2. CASE Answer(a, PoolOf(w)) /\ pools'[w] = Taken(PoolOf(w), a)
        BY <2>1, <3>2, AnswerOffered
      <3> QED BY <2>3, <3>1, <3>2
    <2>5. \A v \in Networks : pools'[v] # NoPool => Offers(pools'[v], v)
      BY <1>o, <2>2, <2>4
    <2> QED BY <1>b, <2>2, <2>3, <2>4, <2>5 DEF Placed, Offers
  <1>2. ASSUME Persist \/ Join PROVE Placed'
    <2>1. /\ auth # NoAuth /\ auth'.node = auth.node
          /\ auth'.net = auth.net /\ auth'.vip = auth.vip
      BY <1>0, <1>2, AuthFacts DEF Persist, Join
    <2>2. UNCHANGED <<regNet, regVip, pools>>
      BY <1>2 DEF Persist, Join
    <2> QED BY <1>b, <1>o, <2>1, <2>2, PlacedQuiet
  <1>3. ASSUME NEW a \in MaybeAddr, JoinLease(a) PROVE Placed'
    <2>1. /\ auth \in Running /\ auth # NoAuth /\ auth.net \in Networks
          /\ auth'.node = auth.node
          /\ auth'.net = auth.net /\ auth'.vip = auth.vip
      BY <1>0, <1>3, AuthFacts DEF JoinLease
    <2>2. pools[auth.net] # NoPool /\ pools[auth.net] \in Pools
      BY <1>0, <2>1 DEF Base, TypeOK
    <2>3. /\ Answer(a, pools[auth.net])
          /\ pools' = [pools EXCEPT ![auth.net] = Taken(pools[auth.net], a)]
          /\ UNCHANGED <<regNet, regVip>>
      BY <1>3 DEF JoinLease
    <2>4. Offers(Taken(pools[auth.net], a), auth.net)
      BY <1>o, <2>1, <2>2, <2>3, AnswerOffered
    <2>5. \A v \in Networks : pools'[v] # NoPool => Offers(pools'[v], v)
      BY <1>0, <1>o, <2>3, <2>4 DEF TypeOK
    <2> QED BY <1>b, <2>1, <2>3, <2>5, PlacedQuiet
  <1>4. ASSUME NEW delivered \in BOOLEAN, Register(delivered) PROVE Placed'
    <2>1. auth # NoAuth /\ auth.node \in Nodes
      BY <1>0, <1>4, AuthFacts DEF Register
    <2>2. \A n \in Nodes : /\ regNet'[n] = IF n = auth.node THEN auth.net
                                           ELSE regNet[n]
                           /\ regVip'[n] = IF n = auth.node THEN auth.vip
                                           ELSE regVip[n]
      BY <1>0, <1>4 DEF Register, TypeOK
    <2>3. auth' = NoAuth /\ UNCHANGED pools
      BY <1>4 DEF Register
    <2> QED BY <1>b, <1>o, <2>1, <2>2, <2>3 DEF Placed, Offers
  <1>5. ASSUME NEW n \in Nodes, Expire(n) PROVE Placed'
    <2>1. /\ \A m \in Nodes : /\ m # n => regNet'[m] = regNet[m]
                              /\ regVip'[m] = IF m = n THEN NoAddr ELSE regVip[m]
          /\ UNCHANGED <<pools, auth>>
      BY <1>0, <1>5 DEF Expire, TypeOK
    <2> QED BY <1>b, <2>1 DEF Placed, Offers
  <1>6. ASSUME NEW t \in Threads, LeaveFree(t) PROVE Placed'
    <2>1. UNCHANGED <<regNet, regVip, auth>>
      BY <1>6 DEF LeaveFree
    <2>2. ASSUME NEW w \in Networks, pools'[w] # NoPool
          PROVE  Offers(pools'[w], w)
      <3>1. \/ pools'[w] = pools[w]
            \/ pools[w] # NoPool /\ pools'[w] = Return(pools[w], leaving[t].vip)
        BY <1>0, <1>6 DEF LeaveFree, TypeOK
      <3> QED BY <1>0, <1>o, <2>2, <3>1, ReturnType DEF Offers, TypeOK
    <2> QED BY <1>b, <2>1, <2>2, PlacedQuiet
  <1>7. ASSUME ServerRestart PROVE Placed'
    <2>1. \A w \in Networks : pools'[w] # NoPool => Offers(pools'[w], w)
      BY <1>7, NewPoolOffers DEF ServerRestart, SeededPools
    <2>2. auth' = NoAuth /\ \A n \in Nodes : regVip'[n] = NoAddr
      BY <1>7 DEF ServerRestart
    <2> QED BY <1>b, <2>1, <2>2 DEF Placed, Offers
  <1>8. CASE UNCHANGED <<regNet, regVip, pools, auth>>
    BY <1>b, <1>o, <1>8, PlacedQuiet
  <1> QED BY <1>1, <1>2, <1>3, <1>4, <1>5, <1>6, <1>7, <1>8
          DEF Next, vars, LeaveRead, LeaveRemove, LeaveClear, DeleteDevice,
              ClientRestart

\* While nodes stay in their networks, the address of a registered node is a host
\* of the subnet of its network, however many removals run at the same time.
THEOREM AddressesPlaced ==
  ASSUME Settled, Roomy
  PROVE  Spec => []AddressOfNetwork
  <1>1. Init => Placed
    BY BaseInit, NewPoolOffers DEF Init, Placed, SeededPools, Offers
  <1>2. Placed /\ [Next]_vars => Placed'
    BY PlacedStep
  <1>3. Placed => AddressOfNetwork
    BY DEF Placed, AddressOfNetwork
  <1> QED BY <1>1, <1>2, <1>3, PTL DEF Spec

-----------------------------------------------------------------------------
(* The devices table agrees with the registry *)

\* The authentication in progress has written the devices table.
Written(n) == auth # NoAuth /\ auth.node = n /\ auth.pc # "persist"

\* Until a removal frees an address: the table shows the address of every
\* registered node but the one being authenticated, whose row already shows the
\* address it will be registered with; and join_network looks for an address
\* only when authentication found none, so it finds none either.
Recorded ==
  /\ Base
  /\ \A t \in Threads : leaving[t].pc = "clear" => freed # {}
  /\ freed = {} =>
       /\ \A n \in Nodes :
            regNet[n] # NoNetwork /\ device[n] # NoDevice /\ ~Written(n)
              => device[n] = regVip[n]
       /\ auth # NoAuth /\ auth.pc # "persist"
            => device[auth.node] \in {NoDevice, auth.vip}
       /\ auth.pc = "lease" => auth.vip = NoAddr
       /\ auth # NoAuth /\ auth.vip = NoAddr => Exhausted(pools[auth.net])

\* A step that keeps the registry, the devices, the addresses in the pools and
\* the authentication keeps the invariant.
LEMMA RecordedQuiet ==
  ASSUME Recorded, Base', UNCHANGED <<regNet, regVip, device, pools, auth, freed>>,
         \A t \in Threads : leaving'[t].pc = "clear" => leaving[t].pc = "clear"
  PROVE  Recorded'
  BY DEF Recorded, Written

\* Every step keeps it.
LEMMA RecordedStep ==
  ASSUME Recorded, [Next]_vars
  PROVE  Recorded'
  <1> USE DEF regVars, dbVars
  <1>0. TypeOK /\ Base
    BY DEF Recorded, Base
  <1>b. Base'
    BY <1>0, BaseStep
  <1>c. \A t \in Threads : leaving[t].pc = "clear" => freed # {}
    BY DEF Recorded
  <1>1. ASSUME NEW n \in Nodes, NEW w \in Networks, NEW a \in MaybeAddr,
               Assign(n, w, a)
        PROVE  Recorded'
    <2>1. /\ auth = NoAuth /\ auth' # NoAuth /\ auth'.pc = "persist"
          /\ auth'.net = w /\ auth'.vip = a
          /\ a = NoAddr => Exhausted(pools'[w])
      BY <1>0, <1>1, AssignEffect
    <2>2. UNCHANGED <<regNet, regVip, device, leaving, freed>>
      BY <1>1 DEF Assign
    <2>3. \A m \in Nodes : ~Written(m)
      BY <2>1 DEF Written
    <2> QED BY <1>b, <1>c, <2>1, <2>2, <2>3 DEF Recorded, Written
  <1>2. ASSUME Persist PROVE Recorded'
    <2>1. /\ auth \in Running /\ auth # NoAuth /\ auth.node \in Nodes
          /\ auth.vip \in MaybeAddr /\ auth.pc = "persist"
          /\ auth' # NoAuth /\ auth'.pc = "join" /\ auth'.node = auth.node
          /\ auth'.net = auth.net /\ auth'.vip = auth.vip
      BY <1>0, <1>2, AuthFacts DEF Persist
    <2>2. /\ \A m \in Nodes : device'[m] = IF m = auth.node THEN auth.vip
                                           ELSE device[m]
          /\ UNCHANGED <<regNet, regVip, pools, leaving, freed>>
      BY <1>0, <1>2 DEF Persist, TypeOK
    <2>3. \A m \in Nodes : Written(m)' <=> m = auth.node
      BY <2>1 DEF Written
    <2>4. \A m \in Nodes : ~Written(m)
      BY <2>1 DEF Written
    <2> QED BY <1>b, <1>c, <2>1, <2>2, <2>3, <2>4 DEF Recorded
  <1>3. ASSUME Join PROVE Recorded'
    <2>1. /\ auth \in Running /\ auth # NoAuth /\ auth.node \in Nodes
          /\ auth.vip \in MaybeAddr /\ auth.pc = "join"
          /\ auth'.node = auth.node /\ auth'.net = auth.net
          /\ auth'.vip = auth.vip /\ auth' # NoAuth
          /\ \/ auth'.pc = "register"
             \/ auth'.pc = "lease" /\ device[auth.node] = NoAddr
      BY <1>0, <1>3, AuthFacts DEF Join
    <2>2. UNCHANGED <<regNet, regVip, device, pools, leaving, freed>>
      BY <1>3 DEF Join
    <2>3. \A m \in Nodes : Written(m)' <=> Written(m)
      BY <2>1 DEF Written
    <2>4. freed = {} /\ auth'.pc = "lease" => auth.vip = NoAddr
      BY <2>1, ServiceAssumption DEF Recorded, MaybeAddr
    <2> QED BY <1>b, <1>c, <2>1, <2>2, <2>3, <2>4 DEF Recorded
  <1>4. ASSUME NEW a \in MaybeAddr, JoinLease(a) PROVE Recorded'
    <2>1. /\ auth \in Running /\ auth # NoAuth /\ auth.pc = "lease"
          /\ auth'.node = auth.node /\ auth'.net = auth.net
          /\ auth'.vip = auth.vip /\ auth' # NoAuth
          /\ auth'.pc = "register"
      BY <1>0, <1>4, JoinLeaseEffect, AuthFacts DEF Base
    <2>2. Exhausted(pools[auth.net]) => UNCHANGED <<pools, device>>
      BY <1>0, <1>4, JoinLeaseEffect DEF Base
    <2>3. UNCHANGED <<regNet, regVip, leaving, freed>>
      BY <1>4 DEF JoinLease
    <2>4. freed = {} => UNCHANGED <<pools, device>>
      BY <2>1, <2>2 DEF Recorded
    <2>5. \A m \in Nodes : Written(m)' <=> Written(m)
      BY <2>1 DEF Written
    <2> QED BY <1>b, <1>c, <2>1, <2>3, <2>4, <2>5 DEF Recorded
  <1>5. ASSUME NEW delivered \in BOOLEAN, Register(delivered) PROVE Recorded'
    <2>1. /\ auth \in Running /\ auth # NoAuth /\ auth.node \in Nodes
          /\ auth.pc = "register"
      BY <1>0, <1>5, AuthFacts DEF Register
    <2>2. /\ \A m \in Nodes : /\ m # auth.node => regNet'[m] = regNet[m]
                              /\ regVip'[m] = IF m = auth.node THEN auth.vip
                                              ELSE regVip[m]
          /\ auth' = NoAuth
          /\ UNCHANGED <<pools, device, leaving, freed>>
      BY <1>0, <1>5 DEF Register, TypeOK
    <2>3. auth'.pc = "idle"
      BY <2>2 DEF NoAuth
    <2>4. \A m \in Nodes : Written(m) <=> m = auth.node
      BY <2>1 DEF Written
    <2> QED BY <1>b, <1>c, <2>1, <2>2, <2>3, <2>4 DEF Recorded
  <1>6. ASSUME NEW n \in Nodes, Expire(n) PROVE Recorded'
    <2>1. /\ \A m \in Nodes : /\ regNet'[m] = IF m = n THEN NoNetwork ELSE regNet[m]
                              /\ m # n => regVip'[m] = regVip[m]
          /\ UNCHANGED <<pools, device, auth, leaving, freed>>
      BY <1>0, <1>6 DEF Expire, TypeOK
    <2> QED BY <1>b, <1>c, <2>1 DEF Recorded, Written
  <1>7. ASSUME NEW t \in Threads, NEW n \in Nodes, NEW w \in Networks,
               LeaveRead(t, n, w)
        PROVE  Recorded'
    <2>1. \A r \in Threads : leaving'[r].pc = "clear" => leaving[r].pc = "clear"
      BY <1>0, <1>7 DEF LeaveRead, TypeOK
    <2> QED BY <1>b, <1>7, <2>1, RecordedQuiet DEF LeaveRead
  <1>8. ASSUME NEW t \in Threads, LeaveRemove(t) PROVE Recorded'
    <2>1. /\ NoRequest.pc # "clear"
          /\ [leaving[t] EXCEPT !.pc = "free"].pc # "clear"
      BY <1>0, <1>8, ServingFacts DEF LeaveRemove, NoRequest, Serving
    <2>2. \A r \in Threads : leaving'[r].pc = "clear" => leaving[r].pc = "clear"
      BY <1>0, <1>8, <2>1 DEF LeaveRemove, TypeOK
    <2> QED BY <1>b, <1>8, <2>2, RecordedQuiet DEF LeaveRemove
  <1>9. ASSUME NEW t \in Threads, LeaveFree(t) PROVE Recorded'
    <2>1. freed' # {}
      BY <1>9 DEF LeaveFree
    <2> QED BY <1>b, <2>1 DEF Recorded
  <1>10. ASSUME NEW t \in Threads, LeaveClear(t) PROVE Recorded'
    <2>1. freed # {} /\ UNCHANGED freed
      BY <1>10 DEF LeaveClear, Recorded
    <2> QED BY <1>b, <2>1 DEF Recorded
  <1>11. ASSUME NEW n \in Nodes, DeleteDevice(n) PROVE Recorded'
    <2>1. /\ \A m \in Nodes : device'[m] = IF m = n THEN NoDevice ELSE device[m]
          /\ UNCHANGED <<regNet, regVip, pools, auth, leaving, freed>>
      BY <1>0, <1>11 DEF DeleteDevice, TypeOK
    <2>2. auth # NoAuth => auth.node \in Nodes
      BY <1>0, AuthFacts
    <2> QED BY <1>b, <1>c, <2>1, <2>2 DEF Recorded, Written
  <1>12. ASSUME ServerRestart PROVE Recorded'
    <2>1. /\ \A t \in Threads : leaving'[t].pc # "clear"
          /\ \A m \in Nodes : regNet'[m] = NoNetwork
          /\ auth' = NoAuth /\ auth'.pc # "lease"
      BY <1>12 DEF ServerRestart, NoAuth, NoRequest
    <2> QED BY <1>b, <2>1 DEF Recorded
  <1>13. ASSUME NEW n \in Nodes, ClientRestart(n) PROVE Recorded'
    BY <1>b, <1>13, RecordedQuiet DEF ClientRestart
  <1>14. CASE UNCHANGED vars
    BY <1>b, <1>14, RecordedQuiet DEF vars
  <1> QED BY <1>1, <1>2, <1>3, <1>4, <1>5, <1>6, <1>7, <1>8, <1>9, <1>10,
             <1>11, <1>12, <1>13, <1>14 DEF Next

\* Until a removal frees an address, the devices table shows between
\* authentications what the registry hands out: neither the second allocation of
\* join_network, nor expiry, a restart or a full pool separates the two.
THEOREM DatabaseShowsRegistry == Spec => []DatabaseAgrees
  <1>1. Init => Recorded
    BY BaseInit DEF Init, Recorded, NoAuth, NoRequest
  <1>2. Recorded /\ [Next]_vars => Recorded'
    BY RecordedStep
  <1>3. Recorded => DatabaseAgrees
    BY DEF Recorded, Written, DatabaseAgrees
  <1> QED BY <1>1, <1>2, <1>3, PTL DEF Spec
=============================================================================
