------------------------------- MODULE HaNode -------------------------------
(***************************************************************************)
(* One node in HA mode: the control loop of run_ha_mode (src/main.rs) over *)
(* HaController and HaRuntime (src/ha.rs), the executor that turns a plan  *)
(* into a role file, a readiness flag and the state it shares with the     *)
(* gateway, and the gateway's write check against that shared state.       *)
(* Around it: the lease of the control plane, the freshness file, the      *)
(* clock, failing reads and writes, and crashes.                           *)
(***************************************************************************)
EXTENDS HaRules, Sequences

CONSTANTS
  Node,            \* this node
  Others,          \* the other candidates for the lease
  Ttl,             \* lease duration
  MaxTime,         \* bound: last second of the model
  MaxGeneration,   \* bound: last lease generation of the model
  FenceModes,      \* values --ha-startup-fence-mode=require-writer may have
  StopOnError,     \* not --ha-continue-on-error
  FaultKinds,      \* what may fail: "read", "action", "ledger", "crash"
  MaxFaults        \* bound: failures

ASSUME NodeAssumption ==
  /\ {Ttl, MaxTime, MaxGeneration, MaxFaults} \subseteq Nat
  /\ Node \notin Others
  /\ FenceModes \subseteq BOOLEAN
  /\ StopOnError \in BOOLEAN
  /\ FaultKinds \subseteq {"read", "action", "ledger", "crash"}

VARIABLES
  clock,      \* unix_now_secs
  lease,      \* the lease record of the control plane (external)
  ledger,     \* the freshness file, written by the replica sync (external)
  pc,         \* "down", or where the control loop is
  fenced,     \* the startup fence has been passed
  now,        \* now_secs of this tick
  unread,     \* this tick could not read the lease
  failed,     \* this tick had a failing action
  role, generation, seen, freshness,   \* HaRuntime
  plan,       \* actions of this tick still to run
  roleFile,   \* role_state.txt: "none", "replica", "writer" or "torn"
  ready,      \* readiness_state
  heartbeat,  \* last_tick_secs, 0 before the first tick
  shared,     \* HaSharedState: role, generation, lease_record
  promoted,   \* history: generations this process was promoted for
  clean,      \* history: no action of this process has failed
  faults      \* failures so far

env == <<clock, lease, ledger>>
runtime == <<role, generation, seen, freshness>>
outputs == <<roleFile, ready, heartbeat, shared>>
tick == <<pc, fenced, now, unread, failed, plan>>
history == <<promoted, clean>>
vars == <<env, runtime, outputs, tick, history, faults>>

-----------------------------------------------------------------------------
Leases == [holder : {Node} \cup Others, generation : 0..MaxGeneration,
           renewed : 1..MaxTime, ttl : {Ttl}]
Ledgers == [source_generation : 0..MaxGeneration, synced_at : 1..MaxTime]
Option(S) == {{}} \cup {{x} : x \in S}

Fails(kind) == kind \in FaultKinds /\ faults < MaxFaults /\ faults' = faults + 1

(* HaSharedState::is_writer, asked by check_write_access on every call. *)
is_writer(t) ==
  /\ shared.role = "Writer"
  /\ \E l \in shared.lease_record : enforce_write_fence(t, Node, shared.generation, l)

-----------------------------------------------------------------------------
(* The control loop *)

FreshState == [role |-> "Replica", generation |-> 0, lease_record |-> {}]

(* The process ends and its memory is gone; the role file stays. *)
Die ==
  /\ pc' = "down"
  /\ fenced' = FALSE
  /\ role' = "Replica" /\ generation' = 0 /\ seen' = {} /\ freshness' = {}
  /\ now' = 0 /\ unread' = FALSE /\ failed' = FALSE /\ plan' = <<>>
  /\ ready' = FALSE /\ heartbeat' = 0 /\ shared' = FreshState
  /\ promoted' = {} /\ clean' = TRUE
  /\ UNCHANGED <<env, roleFile>>

(* HaController::new, HaSharedState::new and initialize_not_ready, which may
   fail and end the process again. *)
Start ==
  /\ pc = "down"
  /\ pc' = "idle"
  /\ \E required \in FenceModes : fenced' = ~required
  /\ UNCHANGED <<env, runtime, outputs, now, unread, failed, plan, history, faults>>

(* The freshness file is read, then the clock. *)
TickBegin ==
  /\ pc = "idle"
  /\ freshness' = ledger
  /\ now' = clock
  /\ failed' = FALSE
  /\ pc' = "read"
  /\ UNCHANGED <<env, role, generation, seen, outputs, fenced, unread, plan, history, faults>>

(* A malformed freshness file ends the loop. *)
TickAborts == pc = "idle" /\ Fails("ledger") /\ Die

(* HaRuntime::plan_actions: the runtime changes its role before any action
   has run. *)
Reconcile(l) ==
  LET decision == reconcile(role, generation, now, Node, l, freshness) IN
  /\ seen' = l
  /\ role' = IF decision \in {"PromoteToWriter", "KeepWriter"} THEN "Writer" ELSE "Replica"
  /\ generation' = IF decision = "PromoteToWriter"
                   THEN (CHOOSE x \in l : TRUE).generation ELSE generation
  /\ promoted' = IF decision = "PromoteToWriter"
                 THEN promoted \cup {(CHOOSE x \in l : TRUE).generation} ELSE promoted
  /\ plan' = plan_actions(decision, l)
  /\ pc' = "act"
  /\ UNCHANGED <<env, freshness, outputs, fenced, now, failed, clean>>

ReadLease == pc = "read" /\ Reconcile(lease) /\ unread' = FALSE /\ faults' = faults

(* The lease cannot be read or parsed: the tick runs with no lease. *)
ReadFails == pc = "read" /\ Fails("read") /\ Reconcile({}) /\ unread' = TRUE

(* execute_controller_plan after a failing action. *)
GiveUp ==
  /\ failed' = TRUE
  /\ clean' = FALSE
  /\ plan' = IF StopOnError THEN <<>> ELSE Tail(plan)
  /\ pc' = "act"

(* Mutant: only disable_writer withdraws the role file. *)
RoleFileAfterDisable(action) ==
  CASE action = "DisableWriter" -> "replica"
    [] action = "EnableWriter" -> "writer"
    [] OTHER -> roleFile

(* FileActionExecutor: the role file, then the audit log. *)
RoleFileAfter(action) ==
  CASE action \in {"EnsureReplica", "DisableWriter"} -> "replica"
    [] action = "EnableWriter" -> "writer"
    [] OTHER -> roleFile

WriteRoleFile ==
  /\ pc = "act" /\ plan # <<>>
  /\ roleFile' = RoleFileAfter(Head(plan))
  /\ pc' = "share"
  /\ UNCHANGED <<env, runtime, ready, heartbeat, shared, fenced, now, unread, failed, plan, history, faults>>

(* The role file or the audit log cannot be written.  std::fs::write empties the
   file first, so that a failing write may leave it torn: empty, or with a part of
   the word that says neither role. *)
WriteRoleFileFails ==
  /\ pc = "act" /\ plan # <<>>
  /\ Fails("action")
  /\ roleFile' \in {roleFile, RoleFileAfter(Head(plan))}
       \cup IF Head(plan) \in {"EnsureReplica", "DisableWriter", "EnableWriter"} THEN {"torn"} ELSE {}
  /\ GiveUp
  /\ UNCHANGED <<env, runtime, ready, heartbeat, shared, fenced, now, unread, promoted>>

Serves(action) == action \in {"EnableWriter", "KeepWriter"}

(* Mutant: the generation is not handed to the gateway. *)
SharedAfterRoleOnly(action) ==
  [shared EXCEPT !.role = IF Serves(action) THEN "Writer" ELSE "Replica"]
(* Only enable_writer hands over the generation. *)
SharedAfter(action) ==
  [shared EXCEPT !.role = IF Serves(action) THEN "Writer" ELSE "Replica",
                 !.generation = IF action = "EnableWriter" THEN generation ELSE @]

(* ReadinessAwareExecutor: the readiness flag and file, then the shared state. *)
Share ==
  /\ pc = "share"
  /\ ready' = Serves(Head(plan))
  /\ shared' = SharedAfter(Head(plan))
  /\ plan' = Tail(plan)
  /\ pc' = "act"
  /\ UNCHANGED <<env, runtime, roleFile, heartbeat, fenced, now, unread, failed, history, faults>>

(* The readiness file cannot be written: the flag is set already. *)
ShareFails ==
  /\ pc = "share"
  /\ Fails("action")
  /\ ready' = Serves(Head(plan))
  /\ GiveUp
  /\ UNCHANGED <<env, runtime, roleFile, heartbeat, shared, fenced, now, unread, promoted>>

(* Mutant: a lease that cannot be read leaves the last one in force. *)
PublishStale ==
  /\ pc = "act" /\ plan = <<>> /\ fenced
  /\ shared' = [shared EXCEPT !.lease_record = IF unread THEN @ ELSE seen]
  /\ heartbeat' = now
  /\ pc' = "idle"
  /\ UNCHANGED <<env, runtime, roleFile, ready, fenced, now, unread, failed, plan, history, faults>>

(* Mutant: the gateway takes the generation of the lease for its own. *)
PublishGeneration ==
  /\ pc = "act" /\ plan = <<>> /\ fenced
  /\ shared' = [shared EXCEPT !.lease_record = seen,
                  !.generation = IF seen = {} THEN @ ELSE (CHOOSE x \in seen : TRUE).generation]
  /\ heartbeat' = now
  /\ pc' = "idle"
  /\ UNCHANGED <<env, runtime, roleFile, ready, fenced, now, unread, failed, plan, history, faults>>

(* The end of the loop body: the lease reaches the gateway after the role. *)
Publish ==
  /\ pc = "act" /\ plan = <<>> /\ fenced
  /\ shared' = [shared EXCEPT !.lease_record = IF unread THEN {} ELSE seen]
  /\ heartbeat' = now
  /\ pc' = "idle"
  /\ UNCHANGED <<env, runtime, roleFile, ready, fenced, now, unread, failed, plan, history, faults>>

(* The startup fence: the first tick decides whether the process goes on. *)
PassFence ==
  /\ pc = "act" /\ plan = <<>> /\ ~fenced
  /\ role = "Writer" /\ ~failed /\ ~unread
  /\ fenced' = TRUE
  /\ pc' = "idle"
  /\ UNCHANGED <<env, runtime, outputs, now, unread, failed, plan, history, faults>>

MissFence ==
  /\ pc = "act" /\ plan = <<>> /\ ~fenced
  /\ ~(role = "Writer" /\ ~failed /\ ~unread)
  /\ Die /\ faults' = faults

(* Ctrl-c or a crash, wherever the loop is. *)
Crash == pc # "down" /\ Fails("crash") /\ Die

-----------------------------------------------------------------------------
(* The environment *)

ClockTicks ==
  /\ clock < MaxTime
  /\ clock' = clock + 1
  /\ UNCHANGED <<lease, ledger, runtime, outputs, tick, history, faults>>

(* An authoritative lease: its holder renews it, and once it has expired a
   candidate takes it over under the next generation. *)
LeaseChanges ==
  /\ \/ /\ lease = {}
        /\ \E h \in {Node} \cup Others :
             lease' = {[holder |-> h, generation |-> 0, renewed |-> clock, ttl |-> Ttl]}
     \/ \E l \in lease : lease' = {[l EXCEPT !.renewed = clock]}
     \/ \E l \in lease, h \in {Node} \cup Others :
          /\ clock > l.renewed + l.ttl
          /\ l.generation < MaxGeneration
          /\ lease' = {[holder |-> h, generation |-> l.generation + 1,
                        renewed |-> clock, ttl |-> Ttl]}
  /\ UNCHANGED <<clock, ledger, runtime, outputs, tick, history, faults>>

(* A sync writes the file; a reader may also find it empty for a moment. *)
LedgerChanges ==
  /\ \/ ledger' = {}
     \/ \E g \in 0..MaxGeneration :
          ledger' = {[source_generation |-> g, synced_at |-> clock]}
  /\ UNCHANGED <<clock, lease, runtime, outputs, tick, history, faults>>

Init ==
  /\ clock = 1 /\ lease = {} /\ ledger = {}
  /\ pc = "down" /\ fenced = FALSE /\ now = 0 /\ unread = FALSE /\ failed = FALSE
  /\ role = "Replica" /\ generation = 0 /\ seen = {} /\ freshness = {}
  /\ plan = <<>>
  /\ roleFile = "none" /\ ready = FALSE /\ heartbeat = 0 /\ shared = FreshState
  /\ promoted = {} /\ clean = TRUE /\ faults = 0

Loop ==
  \/ Start \/ TickBegin \/ ReadLease \/ WriteRoleFile \/ Share
  \/ Publish \/ PassFence \/ MissFence
Failure == TickAborts \/ ReadFails \/ WriteRoleFileFails \/ ShareFails \/ Crash
Surroundings == ClockTicks \/ LeaseChanges \/ LedgerChanges

Next == Loop \/ Failure \/ Surroundings

Spec == Init /\ [][Next]_vars

(* The loop sleeps for one tick interval and goes on, and the container is
   restarted when its process ends.  Nothing is assumed of the lease, of the
   syncs or of the clock. *)
FairSpec == Spec /\ WF_vars(Loop)

-----------------------------------------------------------------------------
(* Properties *)

(* Type invariant: the loop's locals, HaRuntime, HaSharedState and the files hold
   values of their types, within the bounds. *)
TypeOK ==
  /\ clock \in 1..MaxTime
  /\ lease \in Option(Leases)
  /\ ledger \in Option(Ledgers)
  /\ pc \in {"down", "idle", "read", "act", "share"}
  /\ {fenced, unread, failed, ready, clean} \subseteq BOOLEAN
  /\ now \in 0..MaxTime
  /\ role \in {"Replica", "Writer"}
  /\ generation \in 0..MaxGeneration
  /\ seen \in Option(Leases)
  /\ freshness \in Option(Ledgers)
  /\ plan \in Seq({"EnsureReplica", "RecordPromotionDenied", "EnableWriter",
                   "KeepWriter", "DisableWriter"})
  /\ roleFile \in {"none", "replica", "writer", "torn"}
  /\ heartbeat \in 0..MaxTime
  /\ shared \in [role : {"Replica", "Writer"}, generation : 0..MaxGeneration,
                 lease_record : Option(Leases)]
  /\ promoted \subseteq 0..MaxGeneration
  /\ faults \in 0..MaxFaults

(* The gateway admits writes (HaSharedState::is_writer) only under a lease
   generation this process was promoted for by validate_promotion, whatever
   actions failed on the way: role, generation and lease reach the shared state
   in separate steps, and some of them not at all. *)
AdmitsOnlyPromoted == is_writer(clock) => shared.generation \in promoted

(* A tick that could not read its lease (tick_with_reader's fallback) leaves a
   node whose gateway refuses writes, even when every action of the demotion
   failed. *)
UnreadLeaseFences == pc = "idle" /\ unread => role = "Replica" /\ ~is_writer(clock)

(* Between ticks, as long as no action of the process has failed, the gateway admits writes
   exactly when the controller is the writer and its lease has not run out
   meanwhile. *)
GateFollowsController ==
  pc = "idle" /\ heartbeat # 0 /\ clean =>
    (is_writer(clock) <=> role = "Writer" /\ \E l \in seen : ~is_expired(l, clock))

Holds == \E l \in lease : l.holder = Node /\ ~is_expired(l, clock)
Promotable == \E l \in lease : validate_promotion(clock, Node, l, ledger)

(* A node that holds the lease and is fresh, and stays so, comes to serve
   writes and goes on serving them, unless an action has failed on the way. *)
PromotionHappens == <>[](Promotable /\ clean) => <>[](is_writer(clock) /\ ready)

(* A node that has lost the lease, and does not get it back, comes to withdraw
   everything that says it is the writer: flag, role file and shared role. *)
DemotionHappens ==
  <>[]~Holds => <>[](~ready /\ roleFile # "writer" /\ shared.role = "Replica")

(* docs/ha-guide.md says of /ready: 200 OK, "Node is active writer", and that on
   promotion /ready turns to 200 and the RPC write fence permits writes.  While
   the lease is held, a ready node must come to serve writes or cease to be
   ready. *)
ReadyComesToServe == (ready /\ []Holds) ~> (is_writer(clock) \/ ~ready)
=============================================================================
