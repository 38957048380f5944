--------------------------- MODULE HaLeaseProofs ----------------------------
(***************************************************************************)
(* At most one node's gateway admits writes, for any number of nodes, any  *)
(* duration of the lease and any promotion rules, as long as the lease is  *)
(* authoritative and all nodes read the same clock.                        *)
(***************************************************************************)
EXTENDS HaLease, TLAPS

(* What the proof carries from step to step: types, and that every copy of the
   lease a node holds is behind the lease. *)
IInv == TypeOK /\ MemoriesBehind

(* Once a lease has expired it stays so as the clock goes on. *)
LEMMA ExpiredStays ==
  ASSUME NEW r \in Leases, NEW s \in Nat, NEW t \in Nat, s <= t, is_expired(r, s)
  PROVE  is_expired(r, t)
BY RulesAssumption, LeaseAssumption DEF Leases, is_expired, saturating_add

(* A lease renewed earlier expires no later. *)
LEMMA EarlierExpires ==
  ASSUME NEW r \in Leases, NEW l \in Leases, NEW t \in Nat,
         r.renewed <= l.renewed, is_expired(l, t)
  PROVE  is_expired(r, t)
BY RulesAssumption, LeaseAssumption DEF Leases, is_expired, saturating_add

(* The invariant is enough: two admitting gateways hold copies of one lease. *)
LEMMA InvImpliesOneWriter == IInv => AtMostOneWriter
<1> SUFFICES ASSUME IInv, NEW m \in Nodes, NEW n \in Nodes, is_writer(m), is_writer(n)
             PROVE  m = n
  BY DEF AtMostOneWriter
<1>1. PICK a \in shared[m].lease_record : enforce_write_fence(clock, m, shared[m].generation, a)
  BY DEF is_writer
<1>2. PICK b \in shared[n].lease_record : enforce_write_fence(clock, n, shared[n].generation, b)
  BY DEF is_writer
<1>3. Behind(a) /\ Behind(b)
  BY DEF IInv, MemoriesBehind
<1>4. PICK l \in lease : /\ a.generation <= l.generation
                         /\ a.generation = l.generation => a.holder = l.holder
                         /\ a.generation < l.generation => is_expired(a, clock)
  BY <1>3 DEF Behind
<1>5. PICK k \in lease : /\ b.generation <= k.generation
                         /\ b.generation = k.generation => b.holder = k.holder
                         /\ b.generation < k.generation => is_expired(b, clock)
  BY <1>3 DEF Behind
<1>6. l = k
  BY DEF IInv, TypeOK, Option
<1>7. a \in Leases /\ b \in Leases /\ l \in Leases
  BY DEF IInv, TypeOK, Option
<1>8. a.generation = l.generation /\ b.generation = l.generation
  BY <1>1, <1>2, <1>4, <1>5, <1>6, <1>7, LeaseAssumption DEF enforce_write_fence, Leases
<1> QED
  BY <1>1, <1>2, <1>4, <1>5, <1>6, <1>8 DEF enforce_write_fence

(* The cluster starts with no lease and no memories of one. *)
LEMMA InitInv == Init => IInv
BY RulesAssumption, LeaseAssumption
   DEF Init, IInv, TypeOK, MemoriesBehind, Behind, Option, FreshState, Leases

(* Nothing remembered changes, the lease and the clock stay: still behind. *)
LEMMA SameMemories ==
  ASSUME MemoriesBehind, UNCHANGED <<clock, lease>>,
         \A n \in Nodes : seen'[n] \cup shared'[n].lease_record
                            \subseteq seen[n] \cup shared[n].lease_record \cup lease,
         TypeOK
  PROVE  MemoriesBehind'
<1> SUFFICES ASSUME NEW n \in Nodes, NEW r \in seen'[n] \cup shared'[n].lease_record
             PROVE  Behind(r)'
  BY DEF MemoriesBehind
<1>1. CASE r \in seen[n] \cup shared[n].lease_record
  BY <1>1 DEF MemoriesBehind, Behind
<1>2. CASE r \in lease
  <2>1. r \in Leases
    BY <1>2 DEF TypeOK, Option
  <2>2. r.generation \in Nat /\ r.renewed \in Nat
    BY <2>1, LeaseAssumption DEF Leases
  <2> QED
    BY <1>2, <2>2 DEF Behind
<1> QED
  BY <1>1, <1>2

(* A tick that begins reads the freshness file and the clock only. *)
LEMMA TickBeginStep ==
  ASSUME IInv, NEW n \in Nodes, NEW f \in {{}} \cup {{x} : x \in Stamps}, TickBegin(n, f)
  PROVE  IInv'
<1>1. TypeOK'
  BY DEF IInv, TypeOK, TickBegin
<1>2. MemoriesBehind'
  BY SameMemories DEF IInv, TickBegin
<1> QED
  BY <1>1, <1>2 DEF IInv

(* The lease a tick has read, or none, becomes what the node has seen. *)
LEMMA TickDecideStep ==
  ASSUME IInv, NEW n \in Nodes, NEW lz \in {lease, {}}, TickDecide(n, lz)
  PROVE  IInv'
<1> DEFINE d == reconcile(role[n], generation[n], now[n], n, lz, freshness[n])
           g == GenerationAfter(n, d, lz)
           writer == d \in {"PromoteToWriter", "KeepWriter"}
<1>1. Option(lz, Leases) /\ lz \subseteq lease
  BY DEF IInv, TypeOK, Option
<1>2. g \in 0..MaxGeneration
  <2>1. CASE d = "PromoteToWriter"
    <3>1. role[n] # "Writer" /\ lz # {}
      BY <2>1 DEF reconcile
    <3>2. (CHOOSE l \in lz : TRUE) \in Leases
      BY <1>1, <3>1 DEF Option
    <3> QED
      BY <2>1, <3>2 DEF GenerationAfter, Leases
  <2>2. CASE d # "PromoteToWriter"
    BY <2>2 DEF GenerationAfter, IInv, TypeOK
  <2> QED
    BY <2>1, <2>2
<1>3. /\ pc' = [pc EXCEPT ![n] = "publish"]
      /\ seen' = [seen EXCEPT ![n] = lz]
      /\ role' = [role EXCEPT ![n] = IF writer THEN "Writer" ELSE "Replica"]
      /\ generation' = [generation EXCEPT ![n] = g]
      /\ roleFile' = [roleFile EXCEPT ![n] = IF writer THEN g ELSE -1]
      /\ shared' = [shared EXCEPT ![n].role = IF writer THEN "Writer" ELSE "Replica",
                                  ![n].generation = IF writer THEN g ELSE @]
      /\ UNCHANGED <<clock, lease, now, freshness, admitted>>
  BY DEF TickDecide
<1> HIDE DEF d, g, writer
<1>4. TypeOK'
  <2>1. /\ seen' \in [Nodes -> SUBSET Leases]
        /\ roleFile' \in [Nodes -> -1..MaxGeneration]
        /\ generation' \in [Nodes -> 0..MaxGeneration]
        /\ role' \in [Nodes -> {"Replica", "Writer"}]
        /\ pc' \in [Nodes -> {"idle", "read", "publish"}]
    BY <1>1, <1>2, <1>3, LeaseAssumption DEF IInv, TypeOK, Option
  <2>2. shared' \in [Nodes -> [role : {"Replica", "Writer"}, generation : 0..MaxGeneration,
                              lease_record : SUBSET Leases]]
    <3>1. PICK v, w : v = (IF writer THEN "Writer" ELSE "Replica")
                      /\ w = (IF writer THEN g ELSE shared[n].generation)
      OBVIOUS
    <3>2. v \in {"Replica", "Writer"} /\ w \in 0..MaxGeneration
      BY <1>2, <3>1 DEF IInv, TypeOK
    <3>3. shared' = [shared EXCEPT ![n] = [shared[n] EXCEPT !.role = v, !.generation = w]]
      BY <1>3, <3>1, Zenon DEF IInv, TypeOK
    <3>4. shared[n] \in [role : {"Replica", "Writer"}, generation : 0..MaxGeneration,
                        lease_record : SUBSET Leases]
      BY DEF IInv, TypeOK
    <3>5. [shared[n] EXCEPT !.role = v, !.generation = w]
            \in [role : {"Replica", "Writer"}, generation : 0..MaxGeneration,
                lease_record : SUBSET Leases]
      BY <3>2, <3>4, Zenon
    <3> QED
      BY <3>3, <3>5 DEF IInv, TypeOK
  <2>3. \A k \in Nodes : shared'[k].lease_record = shared[k].lease_record
    BY <1>3 DEF IInv, TypeOK
  <2>4. \A k \in Nodes : seen'[k] = IF k = n THEN lz ELSE seen[k]
    BY <1>3 DEF IInv, TypeOK
  <2>5. \A k \in Nodes : Option(seen'[k], Leases) /\ Option(shared'[k].lease_record, Leases)
    BY <1>1, <2>3, <2>4 DEF IInv, TypeOK
  <2> QED
    BY <1>3, <2>1, <2>2, <2>5 DEF IInv, TypeOK
<1>5. \A k \in Nodes : seen'[k] \cup shared'[k].lease_record
                          \subseteq seen[k] \cup shared[k].lease_record \cup lease
  BY <1>1, <1>3 DEF IInv, TypeOK
<1>6. MemoriesBehind'
  BY <1>3, <1>5, SameMemories, Zenon DEF IInv
<1> QED
  BY <1>4, <1>6 DEF IInv

(* What a node has seen reaches its gateway. *)
LEMMA TickPublishStep ==
  ASSUME IInv, NEW n \in Nodes, TickPublish(n)
  PROVE  IInv'
<1>1. TypeOK'
  <2>1. shared' \in [Nodes -> [role : {"Replica", "Writer"}, generation : 0..MaxGeneration,
                              lease_record : SUBSET Leases]]
    BY DEF IInv, TypeOK, TickPublish
  <2>2. \A k \in Nodes : shared'[k].lease_record = IF k = n THEN seen[n]
                                                   ELSE shared[k].lease_record
    BY DEF IInv, TypeOK, TickPublish
  <2>3. \A k \in Nodes : Option(seen'[k], Leases) /\ Option(shared'[k].lease_record, Leases)
    BY <2>2 DEF IInv, TypeOK, TickPublish
  <2> QED
    BY <2>1, <2>3 DEF IInv, TypeOK, TickPublish
<1>2. \A k \in Nodes : seen'[k] \cup shared'[k].lease_record
                          \subseteq seen[k] \cup shared[k].lease_record \cup lease
  BY DEF IInv, TypeOK, TickPublish
<1>3. MemoriesBehind'
  BY <1>2, SameMemories DEF IInv, TickPublish
<1> QED
  BY <1>1, <1>3 DEF IInv

(* A restarted node remembers nothing. *)
LEMMA RestartStep ==
  ASSUME IInv, NEW n \in Nodes, Restart(n)
  PROVE  IInv'
<1>1. TypeOK'
  <2>1. /\ pc' \in [Nodes -> {"idle", "read", "publish"}]
        /\ now' \in [Nodes -> Nat]
        /\ freshness' \in [Nodes -> SUBSET Stamps]
        /\ role' \in [Nodes -> {"Replica", "Writer"}]
        /\ generation' \in [Nodes -> 0..MaxGeneration]
    BY LeaseAssumption DEF IInv, TypeOK, Restart
  <2>2. /\ seen' \in [Nodes -> SUBSET Leases]
        /\ \A k \in Nodes : Option(seen'[k], Leases)
    BY DEF IInv, TypeOK, Restart, Option
  <2>3. FreshState \in [role : {"Replica", "Writer"}, generation : 0..MaxGeneration,
                       lease_record : SUBSET Leases]
        /\ FreshState.lease_record = {}
    BY LeaseAssumption DEF FreshState
  <2>4. shared' = [shared EXCEPT ![n] = FreshState]
    BY DEF Restart
  <2>5. /\ shared' \in [Nodes -> [role : {"Replica", "Writer"}, generation : 0..MaxGeneration,
                                 lease_record : SUBSET Leases]]
        /\ \A k \in Nodes : Option(shared'[k].lease_record, Leases)
    BY <2>3, <2>4 DEF IInv, TypeOK, Option
  <2>6. UNCHANGED <<clock, lease, roleFile>> /\ admitted' \in [Nodes -> BOOLEAN]
    BY DEF IInv, TypeOK, Restart
  <2> QED
    BY <2>1, <2>2, <2>5, <2>6 DEF IInv, TypeOK
<1>2. \A k \in Nodes : seen'[k] \cup shared'[k].lease_record
                          \subseteq seen[k] \cup shared[k].lease_record \cup lease
  BY DEF IInv, TypeOK, Restart, FreshState
<1>3. MemoriesBehind'
  BY <1>2, SameMemories DEF IInv, Restart
<1> QED
  BY <1>1, <1>3 DEF IInv

(* The gateway remembers no lease of its own. *)
LEMMA GatewayStep ==
  ASSUME IInv, NEW n \in Nodes, Admit(n) \/ Apply(n)
  PROVE  IInv'
<1>1. TypeOK'
  BY Zenon DEF IInv, TypeOK, Admit, Apply, runtime
<1>2. MemoriesBehind'
  BY SameMemories DEF IInv, Admit, Apply, runtime
<1> QED
  BY <1>1, <1>2 DEF IInv

(* As time passes, expired leases stay expired. *)
LEMMA ClockTicksStep ==
  ASSUME IInv, ClockTicks
  PROVE  IInv'
<1>1. TypeOK'
  BY DEF IInv, TypeOK, ClockTicks, runtime
<1>2. MemoriesBehind'
  <2> SUFFICES ASSUME NEW n \in Nodes, NEW r \in seen'[n] \cup shared'[n].lease_record
               PROVE  Behind(r)'
    BY DEF MemoriesBehind
  <2>1. r \in seen[n] \cup shared[n].lease_record /\ lease' = lease
    BY DEF ClockTicks, runtime
  <2>2. r \in Leases
    BY <2>1 DEF IInv, TypeOK, Option
  <2>3. is_expired(r, clock) => is_expired(r, clock')
    BY <2>2, ExpiredStays DEF IInv, TypeOK, ClockTicks
  <2>4. Behind(r)
    BY <2>1 DEF IInv, MemoriesBehind
  <2> QED
    BY <2>1, <2>3, <2>4 DEF Behind
<1> QED
  BY <1>1, <1>2 DEF IInv

(* A grant needs an expired lease, and with it every copy has expired. *)
LEMMA LeaseGrantedStep ==
  ASSUME IInv, LeaseGranted
  PROVE  IInv'
<1>1. PICK h \in Nodes, t \in Recent :
        \/ /\ lease = {}
           /\ lease' = {[holder |-> h, generation |-> 0, renewed |-> t, ttl |-> Ttl]}
        \/ \E l \in lease :
             /\ is_expired(l, clock)
             /\ l.generation + 1 <= MaxGeneration
             /\ lease' = {[holder |-> h, generation |-> l.generation + 1,
                           renewed |-> t, ttl |-> Ttl]}
  BY DEF LeaseGranted
<1>2. t \in Nat
  BY LeaseAssumption DEF Recent, IInv, TypeOK
<1>3. Option(lease', Leases)
  BY <1>1, <1>2, LeaseAssumption DEF IInv, TypeOK, Option, Leases
<1>4. TypeOK'
  BY <1>3 DEF IInv, TypeOK, LeaseGranted, runtime
<1>5. MemoriesBehind'
  <2> SUFFICES ASSUME NEW n \in Nodes, NEW r \in seen'[n] \cup shared'[n].lease_record
               PROVE  Behind(r)'
    BY DEF MemoriesBehind
  <2>1. r \in seen[n] \cup shared[n].lease_record /\ clock' = clock
    BY DEF LeaseGranted, runtime
  <2>2. r \in Leases
    BY <2>1 DEF IInv, TypeOK, Option
  <2>3. PICK k \in lease :
          /\ r.generation <= k.generation
          /\ r.generation = k.generation => r.holder = k.holder /\ r.renewed <= k.renewed
          /\ r.generation < k.generation => is_expired(r, clock)
    BY <2>1 DEF IInv, MemoriesBehind, Behind
  <2>4. k \in Leases /\ \A l \in lease : l = k
    BY <2>3 DEF IInv, TypeOK, Option
  <2>5. /\ is_expired(k, clock)
        /\ lease' = {[holder |-> h, generation |-> k.generation + 1, renewed |-> t, ttl |-> Ttl]}
    BY <1>1, <2>4
  <2>6. is_expired(r, clock)
    <3>1. CASE r.generation = k.generation
      BY <2>2, <2>3, <2>4, <2>5, <3>1, EarlierExpires DEF IInv, TypeOK
    <3>2. CASE r.generation # k.generation
      BY <2>2, <2>3, <2>4, <3>2, LeaseAssumption DEF Leases
    <3> QED
      BY <3>1, <3>2
  <2>7. r.generation < k.generation + 1
    BY <2>2, <2>3, <2>4, LeaseAssumption DEF Leases
  <2>8. r.generation \in Nat /\ k.generation \in Nat
    BY <2>2, <2>4 DEF Leases
  <2> QED
    BY <2>1, <2>5, <2>6, <2>7, <2>8 DEF Behind
<1> QED
  BY <1>4, <1>5 DEF IInv

(* A renewal keeps holder and generation. *)
LEMMA LeaseRenewedStep ==
  ASSUME IInv, LeaseRenewed
  PROVE  IInv'
<1>1. PICK l \in lease, t \in Recent : t >= l.renewed /\ lease' = {[l EXCEPT !.renewed = t]}
  BY DEF LeaseRenewed
<1>2. t \in Nat
  BY LeaseAssumption DEF Recent, IInv, TypeOK
<1>3. l \in Leases /\ \A k \in lease : k = l
  BY DEF IInv, TypeOK, Option
<1>4. TypeOK'
  <2>1. [l EXCEPT !.renewed = t] \in Leases
    BY <1>2, <1>3 DEF Leases
  <2>2. Option(lease', Leases)
    BY <1>1, <2>1 DEF Option
  <2>3. UNCHANGED <<clock, pc, now, runtime, roleFile, shared, admitted>>
    BY DEF LeaseRenewed
  <2> QED
    BY <2>2, <2>3 DEF IInv, TypeOK, runtime
<1>5. MemoriesBehind'
  <2> SUFFICES ASSUME NEW n \in Nodes, NEW r \in seen'[n] \cup shared'[n].lease_record
               PROVE  Behind(r)'
    BY DEF MemoriesBehind
  <2>1. r \in seen[n] \cup shared[n].lease_record /\ clock' = clock
    BY DEF LeaseRenewed, runtime
  <2>2. r \in Leases
    BY <2>1 DEF IInv, TypeOK, Option
  <2>3. /\ r.generation <= l.generation
        /\ r.generation = l.generation => r.holder = l.holder /\ r.renewed <= l.renewed
        /\ r.generation < l.generation => is_expired(r, clock)
    BY <1>3, <2>1 DEF IInv, MemoriesBehind, Behind
  <2>4. r.renewed \in Nat /\ l.renewed \in Nat
    BY <1>3, <2>2 DEF Leases
  <2>5. PICK k \in lease' : k.generation = l.generation /\ k.holder = l.holder /\ k.renewed = t
    BY <1>1, <1>3 DEF Leases
  <2> QED
    BY <1>1, <1>2, <2>1, <2>3, <2>4, <2>5 DEF Behind
<1> QED
  BY <1>4, <1>5 DEF IInv

(* Every step of the cluster keeps the invariant. *)
LEMMA NextInv == IInv /\ [Next]_vars => IInv'
<1> SUFFICES ASSUME IInv, [Next]_vars PROVE IInv'
  OBVIOUS
<1>1. ASSUME NEW n \in Nodes, NodeStep(n) PROVE IInv'
  BY <1>1, TickBeginStep, TickDecideStep, TickPublishStep, RestartStep, GatewayStep DEF NodeStep
<1>2. CASE UNCHANGED vars
  <2>1. TypeOK'
    BY <1>2 DEF IInv, TypeOK, vars, runtime
  <2>2. MemoriesBehind'
    BY <1>2, SameMemories DEF IInv, vars, runtime
  <2> QED
    BY <2>1, <2>2 DEF IInv
<1> QED
  BY <1>1, <1>2, ClockTicksStep, LeaseGrantedStep, LeaseRenewedStep DEF Next

(* The cluster keeps its types. *)
THEOREM ClusterTyped == Spec => []TypeOK
<1>1. IInv => TypeOK
  BY DEF IInv
<1> QED
  BY <1>1, InitInv, NextInv, PTL DEF Spec

(* Every copy of the lease, in a controller or a gateway, is behind the lease. *)
THEOREM CopiesBehind == Spec => []MemoriesBehind
<1>1. IInv => MemoriesBehind
  BY DEF IInv
<1> QED
  BY <1>1, InitInv, NextInv, PTL DEF Spec

(* At most one node's gateway admits writes, at every moment. *)
THEOREM SingleWriter == Spec => []AtMostOneWriter
BY InvImpliesOneWriter, InitInv, NextInv, PTL DEF Spec
=============================================================================
