------------------------------- MODULE Probes -------------------------------
(* The probes of an HA node (main.rs, run_readiness_http_server).  Times are in
   milliseconds; the heartbeat is kept in whole seconds, 0 before the first. *)
EXTENDS Naturals

CONSTANTS
  Second,       \* 1000
  MinInterval,  \* the shortest tick interval, 50
  MinStale,     \* the shortest tolerance, ten seconds
  LastSecond    \* largest u64 of seconds; small in models, to make it count

ASSUME ProbesAssumption == {Second, MinInterval, MinStale, LastSecond} \subseteq Nat \ {0}

Greater(a, b) == IF a > b THEN a ELSE b
Smaller(a, b) == IF a < b THEN a ELSE b
Since(now, then) == IF now > then THEN now - then ELSE 0

healthz_stale_after(interval) == Greater(5 * Greater(interval, MinInterval), MinStale)

(* The heartbeat of a tick that ends at a time. *)
last_tick_secs(time) == time \div Second

(* Mutant: the heartbeat counts as stale when the tolerance is reached. *)
probe_reached(path, ready, last_tick, now, interval) ==
  CASE path = "/ready" -> IF ready THEN 200 ELSE 503
    [] path = "/live" -> 200
    [] path = "/healthz" ->
         IF \/ last_tick = 0
            \/ Since(now \div Second, last_tick) >= healthz_stale_after(interval) \div Second
         THEN 503 ELSE 200
    [] OTHER -> 404
probe(path, ready, last_tick, now, interval) ==
  CASE path = "/ready" -> IF ready THEN 200 ELSE 503
    [] path = "/live" -> 200
    [] path = "/healthz" ->
         IF \/ last_tick = 0
            \/ Since(now \div Second, last_tick) > healthz_stale_after(interval) \div Second
         THEN 503 ELSE 200
    [] OTHER -> 404

(* The lease of a status (server.rs, GetClusterStatus): the node judges at its own
   clock whether the lease [renewed, ttl], in seconds, has expired.  The sums
   saturate at LastSecond. *)
ends(lease) == Smaller(lease.renewed + lease.ttl, LastSecond)
get_cluster_status(lease, now) == [lease |-> lease, is_expired |-> now > ends(lease)]

(* What the client prints of it, at the clock of the client. *)
print_cluster_status(status, now) ==
  [remaining |-> Since(ends(status.lease), now), expired |-> status.is_expired]
-----------------------------------------------------------------------------
(* A slow tick is not a dead one ("Generous relative to tick_interval to absorb
   a slow tick ... without flapping readiness"): though both times are cut to
   seconds, /healthz answers 200 until the loop has been silent for longer than the
   whole seconds of five intervals, or of ten seconds if that is more; and a clock
   that is set back never makes a node unhealthy. *)
SlowTicksStayHealthy(last, now, interval) ==
  LET tolerance == healthz_stale_after(interval) IN
  last >= Second /\ now <= last + tolerance - (tolerance % Second) =>
    probe("/healthz", FALSE, last_tick_secs(last), now, interval) = 200

(* What `status` says of the lease can be acted on (get_cluster_status,
   print_cluster_status): when the client asks, at a time its clock and the
   node's agree on, and prints the answer `delay` seconds later, a lease it calls
   EXPIRED has no time left, one it does not call so had not run out when the
   node looked, and the time it shows never outlasts the lease. *)
ShownLeaseAgrees(lease, now, delay) ==
  LET shown == print_cluster_status(get_cluster_status(lease, now), now + delay) IN
  /\ shown.expired => shown.remaining = 0
  /\ ~shown.expired => now <= ends(lease)
  /\ shown.remaining > 0 => now + delay + shown.remaining <= lease.renewed + lease.ttl
=============================================================================
