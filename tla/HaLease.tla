------------------------------ MODULE HaLease ------------------------------
(***************************************************************************)
(* A cluster of HA nodes around one lease.  Each node runs the control     *)
(* loop of src/main.rs, here without failing actions (HaNode has those)    *)
(* and with the actions of a tick in one step, and answers writes in its   *)
(* gateway: the fence is checked on arrival, the write is applied later.   *)
(* The lease is the one src/ha.rs asks for: "authoritative", under a       *)
(* "monotonic generation".  All nodes read the same clock.                 *)
(***************************************************************************)
EXTENDS HaRules, Sequences

CONSTANTS
  Nodes,
  Stamps,          \* records the freshness files may hold
  Ttl,             \* lease duration
  MaxDelay,        \* bound: age of the time a lease write carries
  MaxTime,         \* bound: last second of the model
  MaxGeneration    \* bound: last lease generation of the model

ASSUME LeaseAssumption ==
  /\ {Ttl, MaxDelay, MaxTime, MaxGeneration} \subseteq Nat
  /\ Stamps \subseteq [source_generation : Nat, synced_at : Nat]

VARIABLES
  clock,
  lease,       \* the lease record of the control plane (external)
  pc,          \* per node: "idle", "read" or "publish"
  now,         \* per node: now_secs of the tick
  freshness, role, generation, seen,   \* per node: HaRuntime
  roleFile,    \* per node: generation in role_state.txt, -1 if not a writer's
  shared,      \* per node: HaSharedState
  admitted     \* per node: a write has passed the fence and is not applied yet

runtime == <<freshness, role, generation, seen>>
vars == <<clock, lease, pc, now, runtime, roleFile, shared, admitted>>

-----------------------------------------------------------------------------
Leases == [holder : Nodes, generation : 0..MaxGeneration, renewed : Nat, ttl : {Ttl}]

(* An optional member of S. *)
Option(x, S) == x \subseteq S /\ \A a, b \in x : a = b

FreshState == [role |-> "Replica", generation |-> 0, lease_record |-> {}]

(* HaSharedState::is_writer *)
is_writer(n) ==
  /\ shared[n].role = "Writer"
  /\ \E l \in shared[n].lease_record :
       enforce_write_fence(clock, n, shared[n].generation, l)

-----------------------------------------------------------------------------
(* The control loop of a node *)

(* The freshness file, with content f, and the clock are read. *)
TickBegin(n, f) ==
  /\ pc[n] = "idle"
  /\ pc' = [pc EXCEPT ![n] = "read"]
  /\ freshness' = [freshness EXCEPT ![n] = f]
  /\ now' = [now EXCEPT ![n] = clock]
  /\ UNCHANGED <<clock, lease, role, generation, seen, roleFile, shared, admitted>>

(* Mutant: the node counts its own generation one ahead. *)
GenerationAfterNext(n, decision, lz) ==
  IF decision = "PromoteToWriter" THEN (CHOOSE l \in lz : TRUE).generation + 1 ELSE generation[n]
GenerationAfter(n, decision, lz) ==
  IF decision = "PromoteToWriter" THEN (CHOOSE l \in lz : TRUE).generation ELSE generation[n]

(* The lease is read (lz is empty if that fails), the tick decided, and its
   actions run: role file, then the role and on promotion the generation of the
   shared state. *)
TickDecide(n, lz) ==
  LET decision == reconcile(role[n], generation[n], now[n], n, lz, freshness[n])
      g == GenerationAfter(n, decision, lz)
      writer == decision \in {"PromoteToWriter", "KeepWriter"} IN
  /\ pc[n] = "read"
  /\ pc' = [pc EXCEPT ![n] = "publish"]
  /\ seen' = [seen EXCEPT ![n] = lz]
  /\ role' = [role EXCEPT ![n] = IF writer THEN "Writer" ELSE "Replica"]
  /\ generation' = [generation EXCEPT ![n] = g]
  /\ roleFile' = [roleFile EXCEPT ![n] = IF writer THEN g ELSE -1]
  /\ shared' = [shared EXCEPT ![n].role = IF writer THEN "Writer" ELSE "Replica",
                              ![n].generation = IF writer THEN g ELSE @]
  /\ UNCHANGED <<clock, lease, now, freshness, admitted>>

(* Mutant: the lease counts from the second in which it was seen. *)
TickPublishSeen(n) ==
  /\ pc[n] = "publish"
  /\ pc' = [pc EXCEPT ![n] = "idle"]
  /\ shared' = [shared EXCEPT ![n].lease_record = {[l EXCEPT !.renewed = clock] : l \in seen[n]}]
  /\ now' = [now EXCEPT ![n] = 0]
  /\ freshness' = [freshness EXCEPT ![n] = {}]
  /\ UNCHANGED <<clock, lease, role, generation, seen, roleFile, admitted>>

(* The lease of the tick reaches the gateway. *)
TickPublish(n) ==
  /\ pc[n] = "publish"
  /\ pc' = [pc EXCEPT ![n] = "idle"]
  /\ shared' = [shared EXCEPT ![n].lease_record = seen[n]]
  /\ now' = [now EXCEPT ![n] = 0]
  /\ freshness' = [freshness EXCEPT ![n] = {}]
  /\ UNCHANGED <<clock, lease, role, generation, seen, roleFile, admitted>>

(* The process dies and is started again; the role file stays. *)
Restart(n) ==
  /\ pc' = [pc EXCEPT ![n] = "idle"]
  /\ now' = [now EXCEPT ![n] = 0]
  /\ freshness' = [freshness EXCEPT ![n] = {}]
  /\ role' = [role EXCEPT ![n] = "Replica"]
  /\ generation' = [generation EXCEPT ![n] = 0]
  /\ seen' = [seen EXCEPT ![n] = {}]
  /\ shared' = [shared EXCEPT ![n] = FreshState]
  /\ admitted' = [admitted EXCEPT ![n] = FALSE]
  /\ UNCHANGED <<clock, lease, roleFile>>

-----------------------------------------------------------------------------
(* The gateway of a node *)

(* check_write_access *)
Admit(n) ==
  /\ ~admitted[n]
  /\ is_writer(n)
  /\ admitted' = [admitted EXCEPT ![n] = TRUE]
  /\ UNCHANGED <<clock, lease, pc, now, runtime, roleFile, shared>>

(* The write waits for a blocking thread and for the lock of its database, and
   is then committed. *)
Apply(n) ==
  /\ admitted[n]
  /\ admitted' = [admitted EXCEPT ![n] = FALSE]
  /\ UNCHANGED <<clock, lease, pc, now, runtime, roleFile, shared>>

-----------------------------------------------------------------------------
(* The environment *)

ClockTicks ==
  /\ clock < MaxTime
  /\ clock' = clock + 1
  /\ UNCHANGED <<lease, pc, now, runtime, roleFile, shared, admitted>>

(* Times a write to the lease may carry: read a while before it lands. *)
Recent == {t \in (clock - MaxDelay)..clock : t >= 0}

(* A missing or expired lease is granted to a node. *)
LeaseGranted ==
  /\ \E h \in Nodes, t \in Recent :
       \/ /\ lease = {}
          /\ lease' = {[holder |-> h, generation |-> 0, renewed |-> t, ttl |-> Ttl]}
       \/ \E l \in lease :
            /\ is_expired(l, clock)
            /\ l.generation + 1 <= MaxGeneration
            /\ lease' = {[holder |-> h, generation |-> l.generation + 1,
                          renewed |-> t, ttl |-> Ttl]}
  /\ UNCHANGED <<clock, pc, now, runtime, roleFile, shared, admitted>>

(* Its holder renews it. *)
LeaseRenewed ==
  /\ \E l \in lease, t \in Recent :
       /\ t >= l.renewed
       /\ lease' = {[l EXCEPT !.renewed = t]}
  /\ UNCHANGED <<clock, pc, now, runtime, roleFile, shared, admitted>>

-----------------------------------------------------------------------------
Init ==
  /\ clock = 1
  /\ lease = {}
  /\ pc = [n \in Nodes |-> "idle"]
  /\ now = [n \in Nodes |-> 0]
  /\ freshness = [n \in Nodes |-> {}]
  /\ role = [n \in Nodes |-> "Replica"]
  /\ generation = [n \in Nodes |-> 0]
  /\ seen = [n \in Nodes |-> {}]
  /\ roleFile = [n \in Nodes |-> -1]
  /\ shared = [n \in Nodes |-> FreshState]
  /\ admitted = [n \in Nodes |-> FALSE]

NodeStep(n) ==
  \/ \E f \in {{}} \cup {{x} : x \in Stamps} : TickBegin(n, f)
  \/ \E lz \in {lease, {}} : TickDecide(n, lz)
  \/ TickPublish(n)
  \/ Restart(n)
  \/ Admit(n)
  \/ Apply(n)

Next == (\E n \in Nodes : NodeStep(n)) \/ ClockTicks \/ LeaseGranted \/ LeaseRenewed

Spec == Init /\ [][Next]_vars

-----------------------------------------------------------------------------
(* Properties *)

(* Type invariant: per node, the loop's locals, HaRuntime and HaSharedState; a lease
   or a copy of it is one record or none. *)
TypeOK ==
  /\ clock \in Nat
  /\ Option(lease, Leases)
  /\ pc \in [Nodes -> {"idle", "read", "publish"}]
  /\ now \in [Nodes -> Nat]
  /\ freshness \in [Nodes -> SUBSET Stamps]
  /\ role \in [Nodes -> {"Replica", "Writer"}]
  /\ generation \in [Nodes -> 0..MaxGeneration]
  /\ seen \in [Nodes -> SUBSET Leases]
  /\ roleFile \in [Nodes -> -1..MaxGeneration]
  /\ shared \in [Nodes -> [role : {"Replica", "Writer"}, generation : 0..MaxGeneration,
                           lease_record : SUBSET Leases]]
  /\ \A n \in Nodes : Option(seen[n], Leases) /\ Option(shared[n].lease_record, Leases)
  /\ admitted \in [Nodes -> BOOLEAN]

(* No two nodes' gateways admit writes at the same time (docs/ha-guide.md:
   "only one writer is active at any time"), although each judges by the lease
   it has read some time ago. *)
AtMostOneWriter == \A m, n \in Nodes : is_writer(m) /\ is_writer(n) => m = n

(* What a node remembers of the lease is behind the lease itself: an older
   generation only once that has expired, the same generation with the same
   holder and no later renewal. *)
Behind(r) ==
  \E l \in lease :
    /\ r.generation <= l.generation
    /\ r.generation = l.generation => r.holder = l.holder /\ r.renewed <= l.renewed
    /\ r.generation < l.generation => is_expired(r, clock)

MemoriesBehind == \A n \in Nodes : \A r \in seen[n] \cup shared[n].lease_record : Behind(r)
=============================================================================
