---------------------------- MODULE HaNodeProofs ----------------------------
(***************************************************************************)
(* A gateway admits writes only under a generation its process was         *)
(* promoted for (AdmitsOnlyPromoted), and none after a tick that could not *)
(* read the lease (UnreadLeaseFences), and between ticks it admits them    *)
(* exactly when the controller is the writer (GateFollowsController): for  *)
(* every duration of the lease, every clock, any number of failing reads   *)
(* and actions and of crashes, with and without a startup fence and        *)
(* --ha-continue-on-error.                                                 *)
(***************************************************************************)
EXTENDS HaNode, TLAPS

LeaseRec == [holder : {Node} \cup Others, generation : Nat, renewed : Nat, ttl : {Ttl}]
Single(x) == x \subseteq LeaseRec /\ \A a, b \in x : a = b
Actions == {"EnsureReplica", "RecordPromotionDenied", "EnableWriter", "KeepWriter", "DisableWriter"}
SharedRec == [role : {"Replica", "Writer"}, generation : Nat, lease_record : SUBSET LeaseRec]
record == shared.lease_record

Typed ==
  /\ clock \in Nat
  /\ Single(lease) /\ Single(seen) /\ Single(record)
  /\ shared \in SharedRec
  /\ generation \in Nat
  /\ plan \in Seq(Actions)
  /\ \A l \in lease : l.renewed <= clock

(* a is a copy of the lease b, or of an earlier one, which has expired. *)
Behind(a, b) ==
  \/ a.generation < b.generation /\ is_expired(a, clock)
  \/ a.generation = b.generation /\ a.renewed <= b.renewed

(* The gateway's copy is behind the controller's, and both are behind the lease. *)
CopyInv ==
  /\ \A a \in seen \cup record, b \in lease : Behind(a, b)
  /\ \A a \in record, b \in seen : Behind(a, b)
  /\ seen \cup record # {} => lease # {}

(* A tick that hands the role to the gateway was promoted for the lease it saw. *)
TickInv ==
  /\ role = "Writer" => generation \in promoted
  /\ pc = "share" => plan # <<>>
  /\ pc \in {"act", "share"} /\ (\E i \in 1..Len(plan) : Serves(plan[i])) =>
       role = "Writer" /\ \E l \in seen : l.generation = generation
  /\ pc = "down" => ~unread
  /\ unread /\ pc \in {"idle", "act", "share"} => role = "Replica"
  /\ unread /\ pc = "idle" => record = {}

(* A gateway that has the role but not the generation, because enabling it
   failed, has the first generation, 0; no lease of that generation is valid. *)
Unhanded == shared.role = "Writer" /\ shared.generation \notin promoted
GateInv ==
  /\ shared.generation \notin promoted => shared.generation = 0
  /\ Unhanded =>
       /\ lease # {} /\ \A l \in lease : l.generation > 0
       /\ \A l \in seen \cup record : is_expired(l, clock) \/ l.generation > 0

IInv == Typed /\ CopyInv /\ TickInv /\ GateInv

(* The invariant is enough for both properties. *)
LEMMA InvImpliesProperties == IInv => AdmitsOnlyPromoted /\ UnreadLeaseFences
<1> SUFFICES ASSUME IInv PROVE AdmitsOnlyPromoted /\ UnreadLeaseFences
  OBVIOUS
<1>1. AdmitsOnlyPromoted
  <2> SUFFICES ASSUME is_writer(clock), shared.generation \notin promoted PROVE FALSE
    BY DEF AdmitsOnlyPromoted
  <2>1. PICK l \in record : ~is_expired(l, clock) /\ l.generation = shared.generation
    BY DEF is_writer, enforce_write_fence, record
  <2>2. Unhanded /\ shared.generation = 0
    BY DEF is_writer, Unhanded, IInv, GateInv
  <2> QED
    BY <2>1, <2>2 DEF IInv, GateInv
<1>2. UnreadLeaseFences
  BY DEF IInv, TickInv, UnreadLeaseFences, is_writer, record
<1> QED
  BY <1>1, <1>2

(* A process that starts has nothing to hand over. *)
LEMMA InitInv == Init => IInv
<1> SUFFICES ASSUME Init PROVE IInv
  OBVIOUS
<1>1. shared = FreshState /\ record = {} /\ FreshState \in SharedRec
  BY DEF Init, record, FreshState, SharedRec
<1>2. Typed
  BY <1>1 DEF Init, Typed, Single
<1> QED
  BY <1>1, <1>2 DEF Init, IInv, CopyInv, TickInv, GateInv, Unhanded, FreshState

(* A lease that has expired stays so. *)
LEMMA ExpiryStays ==
  ASSUME NEW l, NEW t \in Nat, NEW u \in Nat, t <= u, is_expired(l, t), l \in LeaseRec
  PROVE  is_expired(l, u)
BY RulesAssumption, NodeAssumption DEF is_expired, saturating_add, LeaseRec

(* The lease and the clock change: a new generation is granted only once the
   copies of the old one have expired. *)
LEMMA SurroundingsStep == IInv /\ Surroundings => IInv'
<1> SUFFICES ASSUME IInv, Surroundings PROVE IInv'
  OBVIOUS
<1>1. UNCHANGED <<runtime, outputs, tick, history>>
  BY DEF Surroundings, ClockTicks, LeaseChanges, LedgerChanges
<1>2. UNCHANGED <<role, generation, seen, shared, pc, unread, plan, promoted>> /\ record' = record
  BY <1>1 DEF runtime, outputs, tick, history, record
<1>3. TickInv'
  BY <1>2 DEF IInv, TickInv, Serves
<1>4. CASE ClockTicks
  <2>1. clock \in Nat /\ clock' = clock + 1 /\ lease' = lease
    BY <1>4 DEF ClockTicks, IInv, Typed
  <2>2. \A l \in LeaseRec : is_expired(l, clock) => is_expired(l, clock')
    BY <2>1, ExpiryStays
  <2>3. lease \subseteq LeaseRec /\ seen \subseteq LeaseRec /\ record \subseteq LeaseRec
    BY DEF IInv, Typed, Single
  <2>4. Typed'
    BY <1>2, <2>1, <2>3 DEF IInv, Typed, Single, LeaseRec
  <2>5. CopyInv'
    BY <1>2, <2>1, <2>2, <2>3 DEF IInv, CopyInv, Behind
  <2>6. GateInv'
    BY <1>2, <2>1, <2>2, <2>3 DEF IInv, GateInv, Unhanded
  <2> QED
    BY <1>3, <2>4, <2>5, <2>6 DEF IInv
<1>5. CASE LedgerChanges
  BY <1>2, <1>3, <1>5 DEF LedgerChanges, IInv, Typed, CopyInv, Behind, GateInv, Unhanded
<1>6. CASE LeaseChanges
  <2>0. clock' = clock /\ clock \in Nat /\ Ttl \in Nat /\ lease \subseteq LeaseRec /\ \A a, b \in lease : a = b
    BY <1>6, NodeAssumption DEF LeaseChanges, IInv, Typed, Single
  <2>1. CASE lease = {}
    <3>1. PICK h \in {Node} \cup Others : lease' = {[holder |-> h, generation |-> 0, renewed |-> clock, ttl |-> Ttl]}
      BY <1>6, <2>1 DEF LeaseChanges
    <3>2. seen = {} /\ record = {} /\ ~Unhanded
      BY <2>1 DEF IInv, CopyInv, GateInv
    <3>3. Typed'
      BY <1>2, <2>0, <3>1 DEF IInv, Typed, Single, LeaseRec
    <3>4. CopyInv' /\ GateInv'
      BY <1>2, <3>1, <3>2 DEF IInv, CopyInv, GateInv, Unhanded
    <3> QED
      BY <1>3, <3>3, <3>4 DEF IInv
  <2>2. CASE lease # {}
    <3>1. PICK l \in lease : TRUE
      BY <2>2
    <3>2. lease = {l} /\ l \in LeaseRec /\ l.renewed <= clock
      BY <2>0, <3>1 DEF IInv, Typed
    <3>3. PICK m \in LeaseRec :
            /\ lease' = {m} /\ m.renewed = clock
            /\ \/ m.generation = l.generation
               \/ m.generation = l.generation + 1 /\ clock > l.renewed + l.ttl
      <4>1. CASE lease' = {[l EXCEPT !.renewed = clock]}
        <5>1. [l EXCEPT !.renewed = clock] \in LeaseRec
          BY <2>0, <3>2 DEF LeaseRec
        <5> QED
          BY <3>2, <4>1, <5>1 DEF LeaseRec
      <4>2. ASSUME NEW h \in {Node} \cup Others, clock > l.renewed + l.ttl,
                   lease' = {[holder |-> h, generation |-> l.generation + 1, renewed |-> clock, ttl |-> Ttl]}
            PROVE  \E m \in LeaseRec : /\ lease' = {m} /\ m.renewed = clock
                                       /\ m.generation = l.generation + 1 /\ clock > l.renewed + l.ttl
        <5> DEFINE m == [holder |-> h, generation |-> l.generation + 1, renewed |-> clock, ttl |-> Ttl]
        <5>1. m \in LeaseRec /\ m.renewed = clock /\ m.generation = l.generation + 1
          BY <2>0, <3>2 DEF LeaseRec
        <5> QED
          BY <4>2, <5>1
      <4>3. \/ lease' = {[l EXCEPT !.renewed = clock]}
            \/ \E h \in {Node} \cup Others :
                 /\ clock > l.renewed + l.ttl
                 /\ lease' = {[holder |-> h, generation |-> l.generation + 1, renewed |-> clock, ttl |-> Ttl]}
        BY <1>6, <2>2, <3>2 DEF LeaseChanges
      <4> QED
        BY <4>1, <4>2, <4>3
    <3>4. Typed'
      BY <1>2, <2>0, <3>3 DEF IInv, Typed, Single, LeaseRec
    <3>5. ASSUME NEW a \in seen \cup record
          PROVE  Behind(a, m)
      <4>1. Behind(a, l) /\ a \in LeaseRec
        BY <3>1 DEF IInv, CopyInv, Typed, Single
      <4>2. CASE m.generation = l.generation
        BY <3>2, <3>3, <4>1, <4>2 DEF Behind, LeaseRec
      <4>3. CASE m.generation = l.generation + 1 /\ clock > l.renewed + l.ttl
        <5>1. is_expired(a, clock)
          BY <2>0, <3>2, <4>1, <4>3, RulesAssumption DEF Behind, is_expired, saturating_add, LeaseRec
        <5> QED
          BY <3>2, <4>1, <4>3, <5>1 DEF Behind, LeaseRec
      <4> QED
        BY <3>3, <4>2, <4>3
    <3>6. CopyInv'
      BY <1>2, <2>0, <3>3, <3>5 DEF IInv, CopyInv, Behind
    <3>7. GateInv'
      BY <1>2, <2>0, <3>2, <3>3 DEF IInv, GateInv, Unhanded, LeaseRec
    <3> QED
      BY <1>3, <3>4, <3>6, <3>7 DEF IInv
  <2> QED
    BY <2>1, <2>2
<1> QED
  BY <1>4, <1>5, <1>6 DEF Surroundings

(* The process ends, or starts. *)
LEMMA ProcessSteps ==
  ASSUME IInv, Start \/ Die
  PROVE  IInv'
<1>1. CASE Start
  <2>1. /\ UNCHANGED <<clock, lease, role, generation, seen, shared, plan, unread, promoted>> /\ record' = record
        /\ pc = "down" /\ pc' = "idle"
    BY <1>1 DEF Start, env, runtime, outputs, history, record
  <2> QED
    BY <2>1 DEF IInv, Typed, Single, CopyInv, Behind, TickInv, GateInv, Unhanded
<1>2. CASE Die
  <2>1. /\ UNCHANGED <<clock, lease>> /\ pc' = "down" /\ role' = "Replica" /\ generation' = 0 /\ seen' = {}
        /\ unread' = FALSE /\ plan' = <<>> /\ shared' = FreshState /\ promoted' = {}
    BY <1>2 DEF Die, env
  <2>2. FreshState \in SharedRec /\ record' = {} /\ shared'.generation = 0 /\ shared'.role = "Replica"
    BY <2>1 DEF FreshState, SharedRec, record
  <2>3. Typed'
    BY <2>1, <2>2 DEF IInv, Typed, Single
  <2> QED
    BY <2>1, <2>2, <2>3 DEF IInv, CopyInv, TickInv, GateInv, Unhanded
<1> QED
  BY <1>1, <1>2

(* TickBegin and PassFence change nothing the gateway or the tick has. *)
LEMMA QuietSteps ==
  ASSUME IInv, TickBegin \/ PassFence
  PROVE  IInv'
<1>1. /\ UNCHANGED <<clock, lease, role, generation, seen, shared, plan, unread, promoted>> /\ record' = record
      /\ \/ pc' = "read"
         \/ pc' = "idle" /\ ~unread
  BY DEF TickBegin, PassFence, env, outputs, runtime, history, record
<1> QED
  BY <1>1 DEF IInv, Typed, Single, CopyInv, Behind, TickInv, GateInv, Unhanded

(* The plan of a tick serves only if the controller is the writer for what it
   has read. *)
LEMMA PlanServes ==
  ASSUME NEW decision \in {"PromoteToWriter", "KeepWriter", "DemoteToReplica", "KeepReplica"}, NEW l
  PROVE  /\ plan_actions(decision, l) \in Seq(Actions)
         /\ (\E i \in 1..Len(plan_actions(decision, l)) : Serves(plan_actions(decision, l)[i])) =>
              decision \in {"PromoteToWriter", "KeepWriter"}
<1>1. <<"DisableWriter", "EnsureReplica">> \in Seq(Actions) /\ <<"EnsureReplica">> \in Seq(Actions)
      /\ <<"EnsureReplica", "RecordPromotionDenied">> \in Seq(Actions)
      /\ <<"EnableWriter">> \in Seq(Actions) /\ <<"KeepWriter">> \in Seq(Actions)
  BY DEF Actions
<1>2. CASE decision \in {"PromoteToWriter", "KeepWriter"}
  BY <1>1, <1>2 DEF plan_actions
<1>3. CASE decision = "DemoteToReplica"
  BY <1>1, <1>3 DEF plan_actions, Serves
<1>4. CASE decision = "KeepReplica"
  BY <1>1, <1>4 DEF plan_actions, Serves
<1> QED
  BY <1>2, <1>3, <1>4

(* Reconcile over what was read. *)
LEMMA ReconcileStep ==
  ASSUME IInv, NEW l \in {lease, {}}, Reconcile(l), unread' => l = {}
  PROVE  IInv'
<1> DEFINE decision == reconcile(role, generation, now, Node, l, freshness)
           chosen == CHOOSE x \in l : TRUE
<1>1. /\ seen' = l /\ role' = IF decision \in {"PromoteToWriter", "KeepWriter"} THEN "Writer" ELSE "Replica"
      /\ generation' = IF decision = "PromoteToWriter" THEN chosen.generation ELSE generation
      /\ promoted' = IF decision = "PromoteToWriter" THEN promoted \cup {chosen.generation} ELSE promoted
      /\ plan' = plan_actions(decision, l) /\ pc' = "act"
      /\ UNCHANGED <<clock, lease, shared>> /\ record' = record
  BY Zenon DEF Reconcile, env, outputs, record
<1>2. decision \in {"PromoteToWriter", "KeepWriter", "DemoteToReplica", "KeepReplica"}
  BY DEF reconcile
<1>3. l \subseteq LeaseRec /\ (\A a, b \in l : a = b) /\ (l # {} => chosen \in l)
  BY DEF IInv, Typed, Single
<1>4. decision = "PromoteToWriter" => l # {}
  BY DEF reconcile
<1>5. decision = "KeepWriter" => role = "Writer" /\ \E x \in l : x.generation = generation
  BY DEF reconcile, enforce_write_fence
<1> HIDE DEF decision, chosen
<1>6. chosen.generation \in Nat \/ decision # "PromoteToWriter"
  BY <1>3, <1>4 DEF LeaseRec
<1>7. Typed'
  BY <1>1, <1>2, <1>3, <1>6, PlanServes DEF IInv, Typed, Single
<1>8. CopyInv'
  <2>1. \A a \in l, b \in lease : Behind(a, b)
    BY <1>3 DEF Behind, LeaseRec
  <2>2. \A a \in record, b \in l : Behind(a, b)
    BY DEF IInv, CopyInv
  <2> QED
    BY <1>1, <2>1, <2>2 DEF IInv, CopyInv, Behind
<1>9. TickInv'
  <2>1. role' = "Writer" => generation' \in promoted' /\ \E x \in seen' : x.generation = generation'
    BY <1>1, <1>2, <1>3, <1>4, <1>5 DEF IInv, TickInv
  <2>2. (\E i \in 1..Len(plan') : Serves(plan'[i])) => role' = "Writer"
    BY <1>1, <1>2, PlanServes
  <2> QED
    BY <1>1, <2>1, <2>2 DEF TickInv, Serves
<1>10. GateInv'
  <2>1. promoted \subseteq promoted'
    BY <1>1
  <2> QED
    BY <1>1, <2>1 DEF IInv, GateInv, Unhanded
<1> QED
  BY <1>7, <1>8, <1>9, <1>10 DEF IInv

(* What is left of a plan is part of it. *)
LEMMA TailOfPlan ==
  ASSUME NEW s \in Seq(Actions), s # <<>>
  PROVE  /\ Tail(s) \in Seq(Actions)
         /\ \A i \in 1..Len(Tail(s)) : \E j \in 1..Len(s) : Tail(s)[i] = s[j]
         /\ Head(s) = s[1] /\ 1 \in 1..Len(s)
<1>1. Tail(s) \in Seq(Actions) /\ Head(s) = s[1] /\ 1 \in 1..Len(s) /\ Len(Tail(s)) = Len(s) - 1
  OBVIOUS
<1>2. ASSUME NEW i \in 1..Len(Tail(s))
      PROVE  i + 1 \in 1..Len(s) /\ Tail(s)[i] = s[i + 1]
  BY <1>1
<1> QED
  BY <1>1, <1>2

(* The role file is written or not: the gateway is not reached. *)
LEMMA RoleFileSteps ==
  ASSUME IInv, WriteRoleFile \/ WriteRoleFileFails \/ ShareFails
  PROVE  IInv'
<1>1. /\ UNCHANGED <<clock, lease, role, generation, seen, shared, unread, promoted>> /\ record' = record
      /\ pc \in {"act", "share"} /\ pc' \in {"act", "share"} /\ plan # <<>> /\ plan \in Seq(Actions)
      /\ plan' = plan \/ (pc' = "act" /\ plan' \in {<<>>, Tail(plan)})
  BY Zenon DEF WriteRoleFile, WriteRoleFileFails, ShareFails, GiveUp, env, runtime, outputs, history, record, IInv, Typed, TickInv
<1>2. plan' \in Seq(Actions) /\ \A i \in 1..Len(plan') : \E j \in 1..Len(plan) : plan'[i] = plan[j]
  <2>1. CASE plan' = plan
    BY <1>1, <2>1
  <2>3. CASE plan' = <<>>
    BY <2>3
  <2>2. CASE plan' = Tail(plan)
    <3>1. /\ Tail(plan) \in Seq(Actions)
          /\ \A i \in 1..Len(Tail(plan)) : \E j \in 1..Len(plan) : Tail(plan)[i] = plan[j]
      BY <1>1, TailOfPlan
    <3> QED
      BY <2>2, <3>1
  <2> QED
    BY <1>1, <2>1, <2>2, <2>3
<1>3. Typed'
  BY <1>1, <1>2 DEF IInv, Typed, Single
<1>4. TickInv'
  BY <1>1, <1>2 DEF IInv, TickInv, Serves
<1> QED
  BY <1>1, <1>3, <1>4 DEF IInv, CopyInv, Behind, GateInv, Unhanded

(* Share: the gateway gets the role, and with EnableWriter the generation. *)
LEMMA ShareStep ==
  ASSUME IInv, Share
  PROVE  IInv'
<1> DEFINE a == Head(plan)
<1>1. /\ pc = "share" /\ pc' = "act" /\ plan' = Tail(plan) /\ plan # <<>> /\ plan \in Seq(Actions)
      /\ UNCHANGED <<clock, lease, role, generation, seen, unread, promoted>>
      /\ shared' = [shared EXCEPT !.role = IF Serves(a) THEN "Writer" ELSE "Replica",
                                  !.generation = IF a = "EnableWriter" THEN generation ELSE @]
  BY DEF Share, SharedAfter, env, runtime, history, IInv, Typed, TickInv
<1>2. /\ Tail(plan) \in Seq(Actions)
      /\ \A i \in 1..Len(Tail(plan)) : \E j \in 1..Len(plan) : Tail(plan)[i] = plan[j]
      /\ Serves(a) => \E i \in 1..Len(plan) : Serves(plan[i])
  BY <1>1, TailOfPlan
<1>3. Serves(a) => /\ role = "Writer" /\ generation \in promoted
                   /\ \E l \in seen : l.generation = generation
  BY <1>1, <1>2 DEF IInv, TickInv
<1>4. a = "EnableWriter" => Serves(a)
  BY DEF Serves
<1> HIDE DEF a
<1>5. /\ shared' \in SharedRec /\ record' = record
      /\ shared'.role = IF Serves(a) THEN "Writer" ELSE "Replica"
      /\ shared'.generation = IF a = "EnableWriter" THEN generation ELSE shared.generation
  BY <1>1, Zenon DEF IInv, Typed, SharedRec, record
<1>6. Typed'
  BY <1>1, <1>2, <1>5 DEF IInv, Typed, Single
<1>7. CopyInv'
  BY <1>1, <1>5 DEF IInv, CopyInv, Behind
<1>8. TickInv'
  BY <1>1, <1>2, <1>5 DEF IInv, TickInv, Serves
<1>9. GateInv'
  <2>1. shared'.generation \notin promoted => shared'.generation = 0
    BY <1>3, <1>4, <1>5 DEF IInv, GateInv
  <2>2. ASSUME Unhanded'
        PROVE  /\ lease # {} /\ \A l \in lease : l.generation > 0
               /\ \A l \in seen \cup record : is_expired(l, clock) \/ l.generation > 0
    <3>1. /\ Serves(a) /\ shared.generation = 0 /\ 0 \notin promoted
      BY <1>1, <1>3, <1>5, <2>1, <2>2 DEF Unhanded
    <3>2. PICK s \in seen : s.generation = generation /\ generation > 0
      BY <1>3, <3>1 DEF IInv, Typed
    <3>3. seen = {s} /\ lease # {} /\ s.generation \in Nat
      BY <3>2 DEF IInv, Typed, Single, CopyInv
    <3>4. \A l \in lease : Behind(s, l) /\ l.generation \in Nat
      BY <3>2 DEF IInv, CopyInv, Typed, Single, LeaseRec
    <3>5. \A l \in record : Behind(l, s) /\ l.generation \in Nat
      BY <3>2 DEF IInv, CopyInv, Typed, Single, LeaseRec
    <3> QED
      BY <3>2, <3>3, <3>4, <3>5 DEF Behind
  <2> QED
    BY <1>1, <1>5, <2>1, <2>2 DEF GateInv
<1> QED
  BY <1>6, <1>7, <1>8, <1>9 DEF IInv

(* Publish: the gateway gets the lease the tick has read, or none. *)
LEMMA PublishStep ==
  ASSUME IInv, Publish
  PROVE  IInv'
<1>1. /\ pc = "act" /\ pc' = "idle" /\ UNCHANGED <<clock, lease, role, generation, seen, unread, promoted, plan>>
      /\ shared' = [shared EXCEPT !.lease_record = IF unread THEN {} ELSE seen]
  BY DEF Publish, env, runtime, history
<1>2. /\ shared' \in SharedRec /\ shared'.role = shared.role /\ shared'.generation = shared.generation
      /\ record' = IF unread THEN {} ELSE seen
  BY <1>1 DEF IInv, Typed, Single, SharedRec, record
<1>3. Typed'
  BY <1>1, <1>2 DEF IInv, Typed, Single
<1>4. CopyInv'
  <2>1. \A a, b \in seen : Behind(a, b)
    BY DEF IInv, Typed, Single, Behind, LeaseRec
  <2> QED
    BY <1>1, <1>2, <2>1 DEF IInv, CopyInv, Behind
<1>5. TickInv'
  BY <1>1, <1>2 DEF IInv, TickInv
<1>6. GateInv'
  BY <1>1, <1>2 DEF IInv, GateInv, Unhanded
<1> QED
  BY <1>3, <1>4, <1>5, <1>6 DEF IInv

(* Every step keeps the invariant. *)
LEMMA NextInv == IInv /\ [Next]_vars => IInv'
<1> SUFFICES ASSUME IInv, [Next]_vars PROVE IInv'
  OBVIOUS
<1>1. CASE UNCHANGED vars
  <2>1. UNCHANGED <<clock, lease, role, generation, seen, shared, pc, plan, unread, promoted>> /\ record' = record
    BY <1>1 DEF vars, env, runtime, outputs, tick, history, record
  <2> QED
    BY <2>1, Zenon DEF IInv, Typed, Single, CopyInv, Behind, TickInv, Serves, GateInv, Unhanded
<1>2. CASE Surroundings
  BY <1>2, SurroundingsStep
<1>3. CASE Start \/ MissFence \/ TickAborts \/ Crash
  BY <1>3, ProcessSteps DEF MissFence, TickAborts, Crash
<1>4. CASE TickBegin \/ PassFence
  BY <1>4, QuietSteps
<1>5. CASE ReadLease \/ ReadFails
  BY <1>5, ReconcileStep DEF ReadLease, ReadFails
<1>6. CASE WriteRoleFile \/ WriteRoleFileFails \/ ShareFails
  BY <1>6, RoleFileSteps
<1>7. CASE Share
  BY <1>7, ShareStep
<1>8. CASE Publish
  BY <1>8, PublishStep
<1> QED
  BY <1>1, <1>2, <1>3, <1>4, <1>5, <1>6, <1>7, <1>8 DEF Next, Loop, Failure

(* The gateway admits writes only under a generation the process was promoted
   for (ha.rs, HaRuntime and validate_promotion; server.rs, is_writer): role,
   generation and lease reach it in separate steps, any of which may fail. *)
THEOREM OnlyPromotedAdmits == Spec => []AdmitsOnlyPromoted
<1>1. IInv => AdmitsOnlyPromoted
  BY InvImpliesProperties
<1> QED
  BY <1>1, InitInv, NextInv, PTL DEF Spec

(* After a tick that could not read its lease the gateway refuses writes, even
   if every action of the demotion failed (ha.rs, tick_with_reader; main.rs, the
   end of the loop). *)
THEOREM UnreadFences == Spec => []UnreadLeaseFences
<1>1. IInv => UnreadLeaseFences
  BY InvImpliesProperties
<1> QED
  BY <1>1, InitInv, NextInv, PTL DEF Spec
-----------------------------------------------------------------------------
(* What a tick leaves behind, as long as none of its actions has failed. *)

(* The controller is the writer for the lease it has seen, a plan serves as a
   whole or not at all, and a plan that keeps the writer finds its generation at
   the gateway.  Between plans the gateway has the role, and between ticks the
   lease of the controller, once the first tick behind the fence has ended. *)
FollowInv ==
  /\ role \in {"Replica", "Writer"}
  /\ role = "Writer" => \A l \in seen : l.holder = Node /\ l.generation = generation
  /\ pc \in {"act", "share"} => \A i \in 1..Len(plan) : Serves(plan[i]) <=> role = "Writer"
  /\ clean /\ pc \in {"act", "share"} /\ (\E i \in 1..Len(plan) : plan[i] = "KeepWriter") =>
       shared.generation = generation
  /\ clean /\ (pc \in {"down", "idle", "read"} \/ plan = <<>>) =>
       shared.role = role /\ (role = "Writer" => shared.generation = generation)
  /\ ~fenced \/ pc = "down" => heartbeat = 0
  /\ heartbeat # 0 /\ pc \in {"idle", "read"} => record = IF unread THEN {} ELSE seen

(* Both invariants are enough for the gate to follow the controller. *)
LEMMA FollowImplies == IInv /\ FollowInv => GateFollowsController
<1> SUFFICES ASSUME IInv, FollowInv, pc = "idle", heartbeat # 0, clean
             PROVE  is_writer(clock) <=> role = "Writer" /\ \E l \in seen : ~is_expired(l, clock)
  BY DEF GateFollowsController
<1>1. shared.role = role /\ (role = "Writer" => shared.generation = generation)
  BY DEF FollowInv
<1>2. CASE unread
  <2>1. role = "Replica"
    BY <1>2 DEF IInv, TickInv
  <2> QED
    BY <1>1, <2>1 DEF is_writer
<1>3. CASE ~unread
  <2>1. shared.lease_record = seen
    BY <1>3 DEF FollowInv, record
  <2>2. role = "Writer" => \A l \in seen : l.holder = Node /\ l.generation = shared.generation
    BY <1>1 DEF FollowInv
  <2> QED
    BY <1>1, <2>1, <2>2 DEF is_writer, enforce_write_fence
<1> QED
  BY <1>2, <1>3

(* A node that has not started admits nothing and is no writer. *)
LEMMA FollowInit == Init => FollowInv
BY DEF Init, FollowInv, FreshState, Serves

(* Every plan has an action, and all of its actions serve or none does. *)
LEMMA PlanFits ==
  ASSUME NEW decision \in {"PromoteToWriter", "KeepWriter", "DemoteToReplica", "KeepReplica"}, NEW l
  PROVE  /\ plan_actions(decision, l) # <<>>
         /\ \A i \in 1..Len(plan_actions(decision, l)) :
              /\ Serves(plan_actions(decision, l)[i]) <=> decision \in {"PromoteToWriter", "KeepWriter"}
              /\ plan_actions(decision, l)[i] = "KeepWriter" => decision = "KeepWriter"
<1>1. CASE decision = "PromoteToWriter"
  BY <1>1 DEF plan_actions, Serves
<1>2. CASE decision = "KeepWriter"
  BY <1>2 DEF plan_actions, Serves
<1>3. CASE decision = "DemoteToReplica"
  BY <1>3 DEF plan_actions, Serves
<1>4. CASE decision = "KeepReplica"
  BY <1>4 DEF plan_actions, Serves
<1> QED
  BY <1>1, <1>2, <1>3, <1>4

(* A tick decides: it stays or becomes the writer only for a lease of its own. *)
LEMMA FollowReconcile ==
  ASSUME IInv, FollowInv, pc = "read", NEW l \in {lease, {}}, Reconcile(l)
  PROVE  FollowInv'
<1> DEFINE decision == reconcile(role, generation, now, Node, l, freshness)
           chosen == CHOOSE x \in l : TRUE
<1>1. /\ seen' = l /\ role' = IF decision \in {"PromoteToWriter", "KeepWriter"} THEN "Writer" ELSE "Replica"
      /\ generation' = IF decision = "PromoteToWriter" THEN chosen.generation ELSE generation
      /\ plan' = plan_actions(decision, l) /\ pc' = "act"
      /\ UNCHANGED <<shared, heartbeat, fenced, clean>> /\ record' = record
  BY Zenon DEF Reconcile, outputs, record
<1>2. decision \in {"PromoteToWriter", "KeepWriter", "DemoteToReplica", "KeepReplica"}
  BY DEF reconcile
<1>3. \A a, b \in l : a = b
  BY DEF IInv, Typed, Single
<1>4. decision = "PromoteToWriter" => \E x \in l : x.holder = Node
  BY DEF reconcile, validate_promotion
<1>5. decision = "KeepWriter" => role = "Writer" /\ \E x \in l : x.holder = Node /\ x.generation = generation
  BY DEF reconcile, enforce_write_fence
<1>6. l # {} => chosen \in l
  OBVIOUS
<1> HIDE DEF decision, chosen
<1>7. role' = "Writer" => \A x \in seen' : x.holder = Node /\ x.generation = generation'
  BY <1>1, <1>2, <1>3, <1>4, <1>5, <1>6
<1>8. /\ plan' # <<>>
      /\ \A i \in 1..Len(plan') : Serves(plan'[i]) <=> role' = "Writer"
      /\ (\E i \in 1..Len(plan') : plan'[i] = "KeepWriter") => decision = "KeepWriter"
  BY <1>1, <1>2, PlanFits
<1>9. clean /\ decision = "KeepWriter" => shared.generation = generation'
  BY <1>1, <1>5 DEF FollowInv
<1>10. role' \in {"Replica", "Writer"}
  BY <1>1
<1> QED
  BY <1>1, <1>7, <1>8, <1>9, <1>10 DEF FollowInv, Serves

(* An action of the plan fails, or its role file is written. *)
LEMMA FollowRoleFile ==
  ASSUME IInv, FollowInv, WriteRoleFile \/ WriteRoleFileFails \/ ShareFails
  PROVE  FollowInv'
<1>1. /\ UNCHANGED <<role, generation, seen, shared, unread, fenced, heartbeat>> /\ record' = record
      /\ pc \in {"act", "share"} /\ pc' \in {"act", "share"} /\ plan # <<>> /\ plan \in Seq(Actions)
      /\ \/ plan' = plan /\ clean' = clean
         \/ clean' = FALSE /\ plan' \in {<<>>, Tail(plan)}
  BY Zenon DEF WriteRoleFile, WriteRoleFileFails, ShareFails, GiveUp, env, runtime, outputs, history, record, IInv, Typed, TickInv
<1>2. CASE plan' = plan /\ clean' = clean
  BY <1>1, <1>2, Zenon DEF FollowInv, Serves
<1>3. CASE clean' = FALSE /\ plan' \in {<<>>, Tail(plan)}
  <2>1. \A i \in 1..Len(Tail(plan)) : \E j \in 1..Len(plan) : Tail(plan)[i] = plan[j]
    BY <1>1, TailOfPlan
  <2>2. \A i \in 1..Len(plan') : \E j \in 1..Len(plan) : plan'[i] = plan[j]
    <3>1. CASE plan' = <<>>
      BY <3>1
    <3>2. CASE plan' = Tail(plan)
      BY <2>1, <3>2
    <3> QED
      BY <1>3, <3>1, <3>2
  <2> QED
    BY <1>1, <1>3, <2>2, Zenon DEF FollowInv, Serves
<1> QED
  BY <1>1, <1>2, <1>3, Zenon

(* The gateway gets the role of the plan, and the generation if it has not. *)
LEMMA FollowShare ==
  ASSUME IInv, FollowInv, Share
  PROVE  FollowInv'
<1> DEFINE a == Head(plan)
<1>1. /\ pc = "share" /\ pc' = "act" /\ plan' = Tail(plan) /\ plan # <<>> /\ plan \in Seq(Actions)
      /\ UNCHANGED <<role, generation, seen, unread, fenced, heartbeat, clean>>
      /\ shared' = [shared EXCEPT !.role = IF Serves(a) THEN "Writer" ELSE "Replica",
                                  !.generation = IF a = "EnableWriter" THEN generation ELSE @]
  BY DEF Share, SharedAfter, env, runtime, history, IInv, Typed, TickInv
<1>2. /\ \A i \in 1..Len(Tail(plan)) : \E j \in 1..Len(plan) : Tail(plan)[i] = plan[j]
      /\ a = plan[1] /\ 1 \in 1..Len(plan)
  BY <1>1, TailOfPlan
<1>3. /\ Serves(a) <=> role = "Writer"
      /\ clean /\ (\E i \in 1..Len(plan) : plan[i] = "KeepWriter") => shared.generation = generation
  BY <1>1, <1>2 DEF FollowInv
<1> HIDE DEF a
<1>4. /\ shared'.role = IF Serves(a) THEN "Writer" ELSE "Replica"
      /\ shared'.generation = IF a = "EnableWriter" THEN generation ELSE shared.generation
  BY <1>1, Zenon DEF IInv, Typed, SharedRec
<1>5. shared'.role = role
  BY <1>3, <1>4, Zenon DEF FollowInv
<1>6. clean /\ role = "Writer" => shared'.generation = generation
  BY <1>2, <1>3, <1>4 DEF Serves
<1>7. clean /\ (\E i \in 1..Len(plan') : plan'[i] = "KeepWriter") => shared'.generation = generation
  BY <1>1, <1>2, <1>3, <1>4
<1>8. \A i \in 1..Len(plan') : Serves(plan'[i]) <=> role = "Writer"
  BY <1>1, <1>2 DEF FollowInv
<1> QED
  BY <1>1, <1>5, <1>6, <1>7, <1>8 DEF FollowInv, Serves

(* The end of a tick hands the lease to the gateway. *)
LEMMA FollowPublish ==
  ASSUME IInv, FollowInv, Publish
  PROVE  FollowInv'
<1>1. /\ pc = "act" /\ pc' = "idle" /\ plan = <<>> /\ fenced
      /\ UNCHANGED <<role, generation, seen, unread, plan, fenced, clean>>
      /\ shared' = [shared EXCEPT !.lease_record = IF unread THEN {} ELSE seen]
  BY DEF Publish, env, runtime, history
<1>2. /\ shared'.role = shared.role /\ shared'.generation = shared.generation
      /\ record' = IF unread THEN {} ELSE seen
  BY <1>1 DEF IInv, Typed, SharedRec, record
<1> QED
  BY <1>1, <1>2 DEF FollowInv

(* Every step keeps what a clean tick leaves behind. *)
LEMMA FollowNext == IInv /\ FollowInv /\ [Next]_vars => FollowInv'
<1> SUFFICES ASSUME IInv, FollowInv, [Next]_vars PROVE FollowInv'
  OBVIOUS
<1>1. CASE UNCHANGED vars \/ Surroundings
  <2>1. UNCHANGED <<runtime, outputs, tick, history>>
    BY <1>1 DEF vars, Surroundings, ClockTicks, LeaseChanges, LedgerChanges
  <2>2. UNCHANGED <<role, generation, seen, shared, pc, plan, unread, fenced, heartbeat, clean>> /\ record' = record
    BY <2>1 DEF runtime, outputs, tick, history, record
  <2> QED
    BY <2>2 DEF FollowInv, Serves
<1>2. CASE MissFence \/ TickAborts \/ Crash
  <2>1. /\ pc' = "down" /\ role' = "Replica" /\ generation' = 0 /\ seen' = {} /\ plan' = <<>>
        /\ heartbeat' = 0 /\ shared' = FreshState
    BY <1>2 DEF MissFence, TickAborts, Crash, Die
  <2>2. shared'.role = "Replica"
    BY <2>1 DEF FreshState
  <2> QED
    BY <2>1, <2>2 DEF FollowInv
<1>3. CASE Start \/ TickBegin \/ PassFence
  <2>1. /\ UNCHANGED <<role, generation, seen, shared, plan, unread, heartbeat, clean>> /\ record' = record
        /\ \/ pc = "down" /\ pc' = "idle"
           \/ pc = "idle" /\ pc' = "read" /\ fenced' = fenced
           \/ pc = "act" /\ plan = <<>> /\ ~fenced /\ pc' = "idle"
    BY <1>3 DEF Start, TickBegin, PassFence, runtime, outputs, history, record
  <2> QED
    BY <2>1, Zenon DEF FollowInv
<1>4. CASE ReadLease \/ ReadFails
  BY <1>4, FollowReconcile DEF ReadLease, ReadFails
<1>5. CASE WriteRoleFile \/ WriteRoleFileFails \/ ShareFails
  BY <1>5, FollowRoleFile
<1>6. CASE Share
  BY <1>6, FollowShare
<1>7. CASE Publish
  BY <1>7, FollowPublish
<1> QED
  BY <1>1, <1>2, <1>3, <1>4, <1>5, <1>6, <1>7 DEF Next, Loop, Failure

(* Between ticks, and as long as no action of the process has failed, the
   gateway admits writes exactly when the controller is the writer and its lease
   has not run out meanwhile (main.rs, the loop of run_ha_mode; ha.rs,
   plan_actions; server.rs, is_writer): role, generation and lease arrive one by
   one and still agree, also across demotions, promotions and restarts. *)
THEOREM GateFollows == Spec => []GateFollowsController
<1>1. Init => IInv /\ FollowInv
  BY InitInv, FollowInit
<1>2. IInv /\ FollowInv /\ [Next]_vars => (IInv /\ FollowInv)'
  BY NextInv, FollowNext
<1> QED
  BY <1>1, <1>2, FollowImplies, PTL DEF Spec
=============================================================================
