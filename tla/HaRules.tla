------------------------------ MODULE HaRules ------------------------------
(***************************************************************************)
(* The decisions of the HA controller (src/ha.rs), as operators: when a    *)
(* lease has expired, when a node may write, when it may be promoted, and  *)
(* what one reconcile tick decides and plans.  An optional record is a set *)
(* with at most one member.  Times and generations are u64 values.         *)
(***************************************************************************)
EXTENDS Integers

CONSTANTS
  U64Max,               \* largest u64; small in models, to make it count
  MaxFreshnessAge,      \* PromotionConfig.max_freshness_age_secs
  MaxFutureSkew,        \* PromotionConfig.max_future_skew_secs
  MinSourceGeneration   \* --ha-min-source-generation

ASSUME RulesAssumption ==
  {U64Max, MaxFreshnessAge, MaxFutureSkew, MinSourceGeneration} \subseteq Nat

saturating_add(a, b) == IF a + b > U64Max THEN U64Max ELSE a + b
saturating_sub(a, b) == IF a < b THEN 0 ELSE a - b

is_expired(l, now) == now > saturating_add(l.renewed, l.ttl)

(* Mutant: the fence trusts the last lease it has seen. *)
enforce_without_expiry(now, node, gen, l) == l.holder = node /\ l.generation = gen
enforce_write_fence(now, node, gen, l) ==
  /\ ~is_expired(l, now)
  /\ l.holder = node
  /\ l.generation = gen

(* The request's target generation is always the lease's. *)
validate_promotion(now, node, l, freshness) ==
  /\ ~is_expired(l, now)
  /\ l.holder = node
  /\ \E f \in freshness :
       /\ f.synced_at <= saturating_add(now, MaxFutureSkew)
       /\ saturating_sub(now, f.synced_at) <= MaxFreshnessAge
       /\ f.source_generation >= MinSourceGeneration

reconcile(role, gen, now, node, lease, freshness) ==
  IF role = "Writer"
  THEN IF \E l \in lease : enforce_write_fence(now, node, gen, l)
       THEN "KeepWriter" ELSE "DemoteToReplica"
  ELSE IF \E l \in lease : validate_promotion(now, node, l, freshness)
       THEN "PromoteToWriter" ELSE "KeepReplica"

plan_actions(decision, lease) ==
  CASE decision = "PromoteToWriter" -> <<"EnableWriter">>
    [] decision = "KeepWriter" -> <<"KeepWriter">>
    [] decision = "DemoteToReplica" -> <<"DisableWriter", "EnsureReplica">>
    [] decision = "KeepReplica" ->
         IF lease = {} THEN <<"EnsureReplica">>
         ELSE <<"EnsureReplica", "RecordPromotionDenied">>
=============================================================================
