----------------------------- MODULE HaSidecar ------------------------------
(***************************************************************************)
(* A cluster of HA nodes whose lease is kept by the sidecar scripts of     *)
(* examples/k8s/k3s-ha-stack.yaml: lease-updater.sh claims an expired      *)
(* Kubernetes Lease with the resourceVersion it has read, and renews it    *)
(* with a patch while the role file says "writer"; replica-sync.sh runs    *)
(* default-replica-sync.sh and stamps the freshness file.  The scripts run *)
(* in containers of their own, beside a main container that may be slow    *)
(* or down.  A tick of the main container is one step here (HaNode and     *)
(* HaLease split it), and with no failing actions its runtime and the      *)
(* state it shares with the gateway agree.                                 *)
(***************************************************************************)
EXTENDS HaRules

CONSTANTS
  Nodes,
  Ttl,             \* LEASE_DURATION_SECONDS
  MaxTime,         \* bound: last second of the model
  MaxGeneration,   \* bound: last lease generation of the model
  MaxVersion       \* bound: writes to the lease

VARIABLES
  clock,
  lease,     \* the Kubernetes Lease, an optional record (external)
  version,   \* its resourceVersion, 0 while it does not exist (external)
  state,     \* per node: HaSharedState of the main container
  roleFile,  \* per node: generation in role_state.txt, -1 if not a writer's
  job,       \* per node: the write lease-updater.sh is about to send
  ledger,    \* per node: the freshness file
  sync       \* per node: "idle" or "synced", where replica-sync.sh is

mains == <<state, roleFile>>
scripts == <<lease, version, job, ledger, sync>>
vars == <<clock, mains, scripts>>

-----------------------------------------------------------------------------
(* The main container *)

FreshState == [role |-> "Replica", generation |-> 0, lease_record |-> {}]

(* One round of the loop of run_ha_mode. *)
Tick(n) ==
  LET decision == reconcile(state[n].role, state[n].generation, clock, n, lease, ledger[n])
      writer == decision \in {"PromoteToWriter", "KeepWriter"}
      g == IF decision = "PromoteToWriter"
           THEN (CHOOSE l \in lease : TRUE).generation ELSE state[n].generation IN
  /\ state' = [state EXCEPT ![n] = [role |-> IF writer THEN "Writer" ELSE "Replica",
                                    generation |-> g, lease_record |-> lease]]
  /\ roleFile' = [roleFile EXCEPT ![n] = IF writer THEN g ELSE -1]
  /\ UNCHANGED <<clock, scripts>>

(* The container is restarted; the role file stays on its volume. *)
Restart(n) ==
  /\ state[n] # FreshState
  /\ state' = [state EXCEPT ![n] = FreshState]
  /\ UNCHANGED <<clock, roleFile, scripts>>

is_writer(n) ==
  /\ state[n].role = "Writer"
  /\ \E l \in state[n].lease_record :
       enforce_write_fence(clock, n, state[n].generation, l)

-----------------------------------------------------------------------------
(* lease-updater.sh *)

Record(n, g, t) == [holder |-> n, generation |-> g, renewed |-> t, ttl |-> Ttl]

ClaimRead(n) ==
  /\ job[n] = {} /\ roleFile[n] = -1
  /\ \A l \in lease : clock > l.renewed + l.ttl
  /\ \A l \in lease : l.generation < MaxGeneration
  /\ job' = [job EXCEPT ![n] =
       {[kind |-> "claim", version |-> version, at |-> clock,
         generation |-> IF lease = {} THEN 0
                        ELSE (CHOOSE l \in lease : TRUE).generation + 1]}]
  /\ UNCHANGED <<clock, mains, lease, version, ledger, sync>>

(* The API server accepts a create of a missing lease, and a replace of the
   version the claimant has read. *)
ClaimAccepted(j) == version = j.version

(* The creator of the lease attests its own freshness. *)
ClaimWrite(n) ==
  /\ \E j \in job[n] :
       /\ j.kind = "claim" /\ ClaimAccepted(j)
       /\ lease' = {Record(n, j.generation, j.at)}
       /\ version' = version + 1
       /\ ledger' = IF j.version = 0
                    THEN [ledger EXCEPT ![n] = {[source_generation |-> 0, synced_at |-> j.at]}]
                    ELSE ledger
  /\ version < MaxVersion
  /\ job' = [job EXCEPT ![n] = {}]
  /\ UNCHANGED <<clock, mains, sync>>

ClaimLost(n) ==
  /\ \E j \in job[n] : j.kind = "claim" /\ ~ClaimAccepted(j)
  /\ job' = [job EXCEPT ![n] = {}]
  /\ UNCHANGED <<clock, mains, lease, version, ledger, sync>>

(* The generation of the role file, or that of the lease if it is higher. *)
RenewRead(n) ==
  /\ job[n] = {} /\ roleFile[n] # -1
  /\ job' = [job EXCEPT ![n] =
       {[kind |-> "renew", version |-> version, at |-> clock,
         generation |-> IF \E l \in lease : l.generation > roleFile[n]
                        THEN (CHOOSE l \in lease : TRUE).generation
                        ELSE roleFile[n]]}]
  /\ UNCHANGED <<clock, mains, lease, version, ledger, sync>>

(* kubectl patch carries no resourceVersion. *)
RenewWrite(n) ==
  /\ \E j \in job[n] :
       /\ j.kind = "renew"
       /\ lease' = {Record(n, j.generation, j.at)}
  /\ version < MaxVersion
  /\ version' = version + 1
  /\ job' = [job EXCEPT ![n] = {}]
  /\ UNCHANGED <<clock, mains, ledger, sync>>

-----------------------------------------------------------------------------
(* replica-sync.sh and default-replica-sync.sh *)

(* The command exits with 0: after a sync from the holder of the lease, or at
   once if there is no holder or the node itself is. *)
SyncRuns(n) ==
  /\ sync[n] = "idle" /\ roleFile[n] = -1
  /\ sync' = [sync EXCEPT ![n] = "synced"]
  /\ UNCHANGED <<clock, mains, lease, version, job, ledger>>

(* After exit code 0 the lease is read again and the file is stamped. *)
SyncStamp(n) ==
  /\ sync[n] = "synced"
  /\ sync' = [sync EXCEPT ![n] = "idle"]
  /\ ledger' = [ledger EXCEPT ![n] =
       IF lease = {} THEN @
       ELSE {[source_generation |-> (CHOOSE l \in lease : TRUE).generation,
              synced_at |-> clock]}]
  /\ UNCHANGED <<clock, mains, lease, version, job>>

-----------------------------------------------------------------------------
Init ==
  /\ clock = 1
  /\ lease = {} /\ version = 0
  /\ state = [n \in Nodes |-> FreshState]
  /\ roleFile = [n \in Nodes |-> -1]
  /\ job = [n \in Nodes |-> {}]
  /\ ledger = [n \in Nodes |-> {}]
  /\ sync = [n \in Nodes |-> "idle"]

ClockTicks == clock < MaxTime /\ clock' = clock + 1 /\ UNCHANGED <<mains, scripts>>

NodeStep(n) ==
  \/ Tick(n) \/ Restart(n)
  \/ ClaimRead(n) \/ ClaimWrite(n) \/ ClaimLost(n) \/ RenewRead(n) \/ RenewWrite(n)
  \/ SyncRuns(n) \/ SyncStamp(n)

Next == (\E n \in Nodes : NodeStep(n)) \/ ClockTicks

Spec == Init /\ [][Next]_vars

-----------------------------------------------------------------------------
(* Properties *)

(* examples/k8s/k3s-ha-stack.yaml: "a lost or even a mistaken claim never risks
   correctness"; docs/ha-guide.md: "only one writer is active at any time".  No
   two gateways admit writes at the same time. *)
AtMostOneWriter == \A m, n \in Nodes : is_writer(m) /\ is_writer(n) => m = n
=============================================================================
