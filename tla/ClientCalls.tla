----------------------------- MODULE ClientCalls ----------------------------
(* The client crate (SqlGatewayClient and its pool adapters) against a cluster
   of gateways: discovery of the writer, the connection it keeps, the retry
   loop, redirects by NOT_LEADER, and calls whose answer is late or lost.

   The cluster is what a client can see of it: which node is the writer (HaLease
   shows that there is at most one), which nodes answer, and which leader each
   node believes in.  A gateway checks access when a request arrives and runs
   the statement later (server.rs, spawn_blocking), also when its client has
   given up. *)
EXTENDS Naturals, Sequences, FiniteSets

CONSTANTS
  Nodes,        \* gateways, also used as their endpoints
  None,         \* no node
  Bad,          \* an endpoint that does not parse as a URI
  Token,        \* the token the gateways require, or NoToken
  NoToken,
  Configs,      \* configurations: [mode, endpoints, token, pooled, style, calls]
  ReplicaReads, \* --ha-allow-replica-reads of the gateways
  Kinds,        \* kinds of calls the application makes
  MaxRetries,   \* ClientConfig::max_retries: attempts per call
  MaxCalls,     \* bound: calls that are told apart, config.calls at most
  Endless,      \* whether the application goes on calling after those
  MaxFaults     \* bound: outages, changes of the writer and missed deadlines

AllKinds == {"execute", "query", "eventual", "drop", "status"}

ASSUME ClientAssumption ==
  /\ None \notin Nodes /\ Bad \notin Nodes /\ Bad # None
  /\ Kinds \subseteq AllKinds
  /\ MaxRetries \in Nat /\ MaxCalls \in Nat /\ MaxFaults \in Nat
  /\ ReplicaReads \in BOOLEAN /\ Endless \in BOOLEAN
  /\ \A c \in Configs :
       /\ c.calls \in 0..MaxCalls
       /\ c.endpoints \in Seq(Nodes \cup {Bad})
       /\ c.mode = "direct" => c.endpoints # <<>>

VARIABLES
  config,    \* the ClientConfig, and whether calls go through a pool
  endpoint,  \* current_endpoint
  channel,   \* tonic_client: the node the channel leads to
  pc,        \* "idle", "connect", "probe", "dial", "send" or "wait"
  call,      \* the current call: [id, kind, want]; want: the call a pool checkout is for
  attempts,  \* attempts of the call
  probe,     \* the candidate discovery looks at
  dial,      \* the endpoint get_or_connect connects to
  made,      \* calls made so far
  kinds,     \* their kinds
  result,    \* their results
  requests,  \* requests at the gateways; live: their client waits for the answer
  applied,   \* how often the effect of each call has been applied
  up,        \* whether a node answers
  writer,    \* the node that admits writes, or None
  hint,      \* active_leader_endpoint of each node
  faults     \* faults so far

client == <<config, endpoint, channel, pc, call, attempts, probe, dial>>
history == <<made, kinds, result>>
servers == <<requests, applied>>
cluster == <<up, writer, hint>>
vars == <<client, history, servers, cluster, faults>>

Ids == 1..MaxCalls
Statuses == {"ok", "not_leader", "unavailable", "deadline", "other", "connect", "discovery",
             "invalid", "pool", "panic"}

(* AuthConfig::check: the bearer token of a request. *)
check(token) == Token = NoToken \/ token = Token

(* The token of the configuration goes with every request. *)
Authorized == check(config.token)

(* A call of which no effect or result is recorded: id 0. *)
NoCall == [id |-> 0, kind |-> "status", want |-> "none"]

(* The flag each method passes to retry_loop. *)
Idempotent(kind) == kind # "execute"

(* The role GetClusterStatus reports, and is_writer. *)
RoleOf(node) == IF node = writer THEN "writer" ELSE "replica"

(* check_write_access and check_read_access: what a node that is not the writer
   still answers.  GetClusterStatus is answered by all. *)
AnsweredBy(node, kind) ==
  RoleOf(node) = "writer" \/ kind = "status" \/ (kind = "eventual" /\ ReplicaReads)

TypeOK ==
  /\ config \in Configs
  /\ endpoint \in Nodes \cup {None, Bad}
  /\ channel \in Nodes \cup {None}
  /\ pc \in {"idle", "connect", "probe", "dial", "send", "wait"}
  /\ call \in [id : 0..MaxCalls, kind : AllKinds, want : AllKinds \cup {"none"}]
  /\ attempts \in Nat
  /\ pc # "idle" => attempts <= MaxRetries \/ attempts <= 1
  /\ dial \in Nodes \cup {None, Bad}
  /\ made \in 0..MaxCalls
  /\ kinds \in [Ids -> AllKinds]
  /\ result \in [0..MaxCalls -> Statuses \cup {"none"}]
  /\ requests \subseteq [id : 0..MaxCalls, kind : AllKinds, attempt : Nat, node : Nodes,
                         admitted : BOOLEAN, live : BOOLEAN]
  /\ applied \in [0..MaxCalls -> Nat]
  /\ up \in [Nodes -> BOOLEAN]
  /\ writer \in Nodes \cup {None}
  /\ hint \in [Nodes -> Nodes \cup {None}]
  /\ faults \in 0..MaxFaults

Init ==
  /\ config \in Configs
  /\ endpoint = None /\ channel = None /\ pc = "idle" /\ call = NoCall
  /\ attempts = 0 /\ probe = 1 /\ dial = None
  /\ made = 0
  /\ kinds = [c \in Ids |-> "status"]
  /\ result = [c \in 0..MaxCalls |-> "none"]
  /\ requests = {}
  /\ applied = [c \in 0..MaxCalls |-> 0]
  /\ up = [n \in Nodes |-> TRUE]
  /\ writer \in Nodes
  /\ hint = [n \in Nodes |-> writer]
  /\ faults = 0
-----------------------------------------------------------------------------
(* The application, and the result of a call. *)

(* A pool hands a client out after a GetClusterStatus through it (is_valid,
   recycle, connect). *)
Checkout(id, kind) == [id |-> id, kind |-> "status", want |-> kind]
Direct(id, kind) == [id |-> id, kind |-> kind, want |-> "none"]

(* A blocking client panics when it is called from an async task. *)
assert_not_in_async_context == config.style # "misplaced"

(* One call at a time: the methods take the client by &mut, the blocking ones
   run them to their end. *)
AppCall(kind) ==
  /\ pc = "idle"
  /\ made < config.calls \/ Endless
  /\ LET id == IF made < config.calls THEN made + 1 ELSE 0 IN
       /\ kinds' = IF id = 0 THEN kinds ELSE [kinds EXCEPT ![id] = kind]
       /\ made' = IF id = 0 THEN made ELSE id
       /\ IF assert_not_in_async_context
          THEN /\ call' = IF config.pooled THEN Checkout(id, kind) ELSE Direct(id, kind)
               /\ result' = [result EXCEPT ![id] = "none"]
               /\ pc' = "connect"
          ELSE /\ result' = [result EXCEPT ![id] = "panic"]
               /\ UNCHANGED <<call, pc>>
  /\ UNCHANGED <<config, endpoint, channel, attempts, probe, dial, servers, cluster, faults>>

(* retry_loop returns and the connection is kept as it is.  A checkout that
   succeeded goes on with the call it was for; a client that fails validation
   is discarded by the pool. *)
Return(status) ==
  IF call.want # "none" /\ status = "ok"
  THEN /\ call' = [call EXCEPT !.kind = call.want, !.want = "none"]
       /\ pc' = "connect"
       /\ attempts' = 0
       /\ UNCHANGED <<result, endpoint, channel>>
  ELSE /\ result' = [result EXCEPT ![call.id] = IF call.want = "none" THEN status ELSE "pool"]
       /\ pc' = "idle"
       /\ call' = NoCall
       /\ attempts' = 0
       /\ IF call.want = "none" THEN UNCHANGED <<endpoint, channel>>
          ELSE endpoint' = None /\ channel' = None

Pins(ep, ch) == endpoint' = ep /\ channel' = ch

(* Mutant: max_retries taken as retries after the first attempt. *)
ConnectFailsLater(status) ==
  IF attempts > MaxRetries THEN Return(status)
  ELSE /\ Pins(None, None)
       /\ pc' = "connect"
       /\ UNCHANGED <<call, attempts, result>>
(* get_or_connect failed: give up, or wait, reset the connection and go on. *)
ConnectFails(status) ==
  IF attempts >= MaxRetries THEN Return(status)
  ELSE /\ Pins(None, None)
       /\ pc' = "connect"
       /\ UNCHANGED <<call, attempts, result>>

(* Mutant: writes are retried like reads. *)
ShouldRetryAll(kind, status) == status \in {"not_leader", "unavailable", "deadline"}
ShouldRetry(kind, status) ==
  status = "not_leader" \/ (Idempotent(kind) /\ status \in {"unavailable", "deadline"})

(* Mutant: without a header the client reconnects to where it was. *)
CallFailsKeeps(status, leader) ==
  IF ~ShouldRetry(call.kind, status) \/ attempts >= MaxRetries THEN Return(status)
  ELSE /\ Pins(IF leader = None THEN endpoint ELSE leader, None)
       /\ pc' = "connect"
       /\ UNCHANGED <<call, attempts, result>>
(* The call failed with a status; leader is the endpoint of its header. *)
CallFails(status, leader) ==
  IF ~ShouldRetry(call.kind, status) \/ attempts >= MaxRetries THEN Return(status)
  ELSE /\ Pins(leader, None)
       /\ pc' = "connect"
       /\ UNCHANGED <<call, attempts, result>>
-----------------------------------------------------------------------------
(* get_or_connect and discover_leader *)

Attempt ==
  /\ pc = "connect"
  /\ attempts' = attempts + 1
  /\ IF channel # None THEN pc' = "send" /\ UNCHANGED <<dial, probe>>
     ELSE IF endpoint # None THEN pc' = "dial" /\ dial' = endpoint /\ probe' = probe
     ELSE IF config.mode = "direct"
          THEN pc' = "dial" /\ dial' = config.endpoints[1] /\ probe' = probe
     ELSE pc' = "probe" /\ UNCHANGED <<dial, probe>>
  /\ UNCHANGED <<config, endpoint, channel, call, history, servers, cluster, faults>>

Candidates == config.endpoints
Valid == {i \in DOMAIN Candidates : Candidates[i] # Bad}
IsWriter(node) == node \in Nodes /\ up[node] /\ RoleOf(node) = "writer" /\ Authorized

(* One candidate after the other is asked for its role. *)
Probe ==
  /\ pc = "probe" /\ config.mode = "candidates" /\ probe \in DOMAIN Candidates
  /\ IF IsWriter(Candidates[probe])
     THEN pc' = "dial" /\ dial' = Candidates[probe] /\ probe' = 1
     ELSE probe' = probe + 1 /\ UNCHANGED <<pc, dial>>
  /\ UNCHANGED <<config, endpoint, channel, call, attempts, history, servers, cluster, faults>>

(* None is the writer: the first candidate that parses. *)
FallBack ==
  /\ pc = "probe" /\ config.mode = "candidates" /\ probe \notin DOMAIN Candidates
  /\ IF Valid = {}
     THEN ConnectFails("discovery") /\ dial' = dial
     ELSE /\ pc' = "dial"
          /\ \E i \in Valid : (\A j \in Valid : i <= j) /\ dial' = Candidates[i]
          /\ UNCHANGED <<endpoint, channel, call, attempts, result>>
  /\ probe' = 1
  /\ UNCHANGED <<config, made, kinds, servers, cluster, faults>>

(* A resolver of the application returns an endpoint or an error. *)
Resolve ==
  /\ pc = "probe" /\ config.mode = "custom"
  /\ \/ ConnectFails("discovery") /\ dial' = dial
     \/ /\ pc' = "dial"
        /\ dial' \in Nodes \cup {Bad}
        /\ UNCHANGED <<endpoint, channel, call, attempts, result>>
  /\ UNCHANGED <<config, probe, made, kinds, servers, cluster, faults>>

Dial ==
  /\ pc = "dial"
  /\ IF dial = Bad THEN Return("invalid")
     ELSE IF up[dial]
     THEN Pins(dial, dial) /\ pc' = "send" /\ UNCHANGED <<call, attempts, result>>
     ELSE ConnectFails("connect")
  /\ dial' = None
  /\ UNCHANGED <<config, probe, made, kinds, servers, cluster, faults>>
-----------------------------------------------------------------------------
(* The call on the wire *)

Request == [id |-> call.id, kind |-> call.kind, attempt |-> attempts, node |-> channel,
            admitted |-> FALSE, live |-> TRUE]

Send ==
  /\ pc = "send"
  /\ IF up[channel]
     THEN /\ requests' = requests \cup {Request}
          /\ pc' = "wait"
          /\ UNCHANGED <<call, attempts, result, endpoint, channel>>
     ELSE CallFails("unavailable", None) /\ requests' = requests
  /\ UNCHANGED <<config, probe, dial, made, kinds, applied, cluster, faults>>

(* The client no longer waits; the gateway does not notice. *)
Abandon == requests' = {[r EXCEPT !.live = FALSE] : r \in requests}

(* not_leader_status: the leader endpoint the refusing node has in its state. *)
Header(node) == hint[node]

(* The answer reaches the client if it still waits for it. *)
Answers(r, status) ==
  IF ~r.live THEN UNCHANGED <<pc, call, attempts, result, endpoint, channel>>
  ELSE IF status = "ok" THEN Return("ok")
  ELSE CallFails(status, IF status = "not_leader" THEN Header(r.node) ELSE None)

(* The interceptor and the access check of a gateway. *)
Refuse(r) ==
  /\ r \in requests /\ ~r.admitted /\ up[r.node]
  /\ ~Authorized \/ ~AnsweredBy(r.node, r.kind)
  /\ requests' = requests \ {r}
  /\ Answers(r, IF Authorized THEN "not_leader" ELSE "other")
  /\ UNCHANGED <<config, probe, dial, made, kinds, applied, cluster, faults>>

Admit(r) ==
  /\ r \in requests /\ ~r.admitted /\ up[r.node]
  /\ Authorized /\ AnsweredBy(r.node, r.kind)
  /\ requests' = (requests \ {r}) \cup {[r EXCEPT !.admitted = TRUE]}
  /\ UNCHANGED <<client, history, applied, cluster, faults>>

(* The statement runs on a blocking thread, whatever has become of the client;
   it succeeds or fails as a whole. *)
Run(r) ==
  /\ r \in requests /\ r.admitted
  /\ requests' = requests \ {r}
  /\ \/ applied' = [applied EXCEPT ![r.id] = IF r.id = 0 \/ r.kind = "status" THEN @ ELSE @ + 1]
        /\ Answers(r, "ok")
     \/ r.kind # "status" /\ applied' = applied /\ Answers(r, "other")
  /\ UNCHANGED <<config, probe, dial, made, kinds, cluster, faults>>

(* A node that is down may have crashed. *)
Vanish(r) ==
  /\ r \in requests /\ ~up[r.node]
  /\ requests' = requests \ {r}
  /\ UNCHANGED <<client, history, applied, cluster, faults>>

(* Mutant: a request that is lost with its node is waited for. *)
BrokenWhileDown ==
  /\ pc = "wait"
  /\ ~up[channel]
  /\ Abandon
  /\ CallFails("unavailable", None)
  /\ UNCHANGED <<config, probe, dial, made, kinds, applied, cluster, faults>>
(* The connection broke, or the request is gone with its node. *)
Broken ==
  /\ pc = "wait"
  /\ ~up[channel] \/ ~\E r \in requests : r.live
  /\ Abandon
  /\ CallFails("unavailable", None)
  /\ UNCHANGED <<config, probe, dial, made, kinds, applied, cluster, faults>>

Deadline ==
  /\ pc = "wait" /\ faults < MaxFaults
  /\ faults' = faults + 1
  /\ Abandon
  /\ CallFails("deadline", None)
  /\ UNCHANGED <<config, probe, dial, made, kinds, applied, cluster>>
-----------------------------------------------------------------------------
(* The cluster *)

(* Bound: the cluster stands still once the last call has ended. *)
Active == pc # "idle" \/ made < config.calls \/ Endless

Outage(n) ==
  /\ Active
  /\ up[n] /\ faults < MaxFaults
  /\ up' = [up EXCEPT ![n] = FALSE]
  /\ faults' = faults + 1
  /\ UNCHANGED <<client, history, servers, writer, hint>>

Recover(n) ==
  /\ Active
  /\ ~up[n]
  /\ up' = [up EXCEPT ![n] = TRUE]
  /\ UNCHANGED <<client, history, servers, writer, hint, faults>>

Handover(n) ==
  /\ Active
  /\ n # writer /\ faults < MaxFaults
  /\ writer' = n
  /\ faults' = faults + 1
  /\ UNCHANGED <<client, history, servers, up, hint>>

(* A tick of the node's controller reads the lease. *)
Learn(n) ==
  /\ Active
  /\ hint[n] # writer
  /\ hint' = [hint EXCEPT ![n] = writer]
  /\ UNCHANGED <<client, history, servers, up, writer, faults>>

Serve(r) == Refuse(r) \/ Admit(r) \/ Run(r)
ClientStep ==
  Attempt \/ Probe \/ FallBack \/ Resolve \/ Dial \/ Send \/ Broken

Next ==
  \/ \E k \in Kinds : AppCall(k)
  \/ ClientStep \/ Deadline
  \/ \E r \in requests : Serve(r) \/ Vanish(r)
  \/ \E n \in Nodes : Outage(n) \/ Recover(n) \/ Learn(n)
  \/ \E n \in Nodes \cup {None} : Handover(n)

Spec == Init /\ [][Next]_vars

(* The runtime runs the client, a gateway that is up answers the client that
   waits, and the application goes on.  Nothing is assumed of the cluster. *)
Fairness ==
  /\ WF_vars(ClientStep)
  /\ WF_vars(\E r \in requests : r.live /\ Serve(r))
  /\ WF_vars(\E k \in Kinds : AppCall(k))

FairSpec == Spec /\ Fairness
-----------------------------------------------------------------------------
(* Properties *)

(* Results after which a caller knows that nothing was done. *)
Definite == {"not_leader", "connect", "discovery", "invalid", "pool", "panic"}

(* What execute and batch report is what happened: the effect of a call is
   applied at most once whatever is retried, redirected, late or lost; a
   success means it has been applied; and an error other than an ambiguous one
   means it has not been and never will be, because no request of the call is
   left at a gateway (client.rs, execute: "retrying could duplicate it"). *)
WritesOnce ==
  \A c \in Ids : kinds[c] = "execute" =>
    /\ applied[c] <= 1
    /\ result[c] = "ok" => applied[c] = 1
    /\ result[c] \in Definite =>
         applied[c] = 0 /\ ~\E r \in requests : r.id = c /\ r.kind = "execute"

(* Every call ends, in any cluster: attempts are bounded and each has a deadline. *)
CallsEnd == pc # "idle" ~> pc = "idle"

(* Nothing changes any more, and every node that answers knows the writer. *)
Stable ==
  /\ faults = MaxFaults /\ Authorized
  /\ writer \in Nodes /\ up[writer]
  /\ \A n \in Nodes : up[n] => hint[n] = writer

Starts(c) ==
  /\ call.id = c /\ pc = "connect" /\ attempts = 0
  /\ config.mode = "candidates" /\ writer \in {Candidates[i] : i \in DOMAIN Candidates}
  /\ IF config.pooled THEN call.want # "none" ELSE call.kind # "execute"

(* With two attempts, a call that starts when the cluster has become stable is
   answered by a gateway, wherever the client was connected before: a dead
   connection, a redirect to a dead leader and a replica are each left behind
   within one attempt.  It holds for calls that are retried, and for writes
   through a pool, whose checkout is such a call. *)
RecoversWhenStable ==
  \A c \in Ids : [](Starts(c) /\ []Stable => <>(result[c] \in {"ok", "other"}))

(* A client heals from a failover: if it goes on making calls and the cluster
   becomes stable, calls succeed again and again (pool_bb8.rs, has_broken:
   "SqlGatewayClient self-heals through its internal retry loop and leader
   redirection"). *)
HealsAfterFailover ==
  <>[]Stable => []<>(result[0] \in {"ok", "other"})
=============================================================================
