-------------------------- MODULE ClientCallsProofs -------------------------
(***************************************************************************)
(* What execute and batch report is what happened (WritesOnce), for any    *)
(* number of gateways, calls, attempts and faults, in every discovery mode *)
(* and with or without a pool.                                             *)
(***************************************************************************)
EXTENDS ClientCalls, TLAPS

(* The writes of a call that a gateway still has to run. *)
Writes(c) == {r \in requests : r.id = c /\ r.kind = "execute"}

(* The client: it has attempts left when it reconnects, it dials an endpoint and
   sends on a channel, requests belong to calls that were made, at most one is
   waited for and it is the current call's, and a checkout remembers the call it
   is for. *)
CallInv ==
  /\ pc = "connect" => attempts < MaxRetries \/ attempts = 0
  /\ pc = "idle" => attempts = 0
  /\ pc = "dial" => dial # None
  /\ pc \in {"send", "wait"} => channel # None
  /\ pc # "idle" => call.id <= made
  /\ \A r \in requests : r.id <= made /\ (r.id # 0 => r.kind \in {"status", kinds[r.id]})
  /\ \A r \in requests : r.live => pc = "wait" /\ r.id = call.id /\ r.kind = call.kind
  /\ \A r, s \in requests : r.live /\ s.live => r = s
  /\ pc # "idle" /\ call.id # 0 =>
       IF call.want = "none" THEN call.kind = kinds[call.id]
       ELSE call.kind = "status" /\ call.want = kinds[call.id]

(* A write: it is at one gateway or applied, never both; while its call goes on
   it has not been applied, and is at a gateway only if the client waits for it. *)
WriteInv(c) ==
  /\ \A r, s \in Writes(c) : r = s
  /\ Writes(c) # {} => applied[c] = 0
  /\ applied[c] <= 1
  /\ pc # "idle" /\ call.id = c =>
       applied[c] = 0 /\ result[c] = "none" /\ \A r \in Writes(c) : r.live
  /\ result[c] = "ok" => applied[c] = 1
  /\ result[c] \in Definite => applied[c] = 0 /\ Writes(c) = {}

IInv ==
  /\ TypeOK
  /\ CallInv
  /\ \A c \in Ids : c > made => applied[c] = 0
  /\ \A c \in Ids : kinds[c] = "execute" => WriteInv(c)

(* The parts of the type invariant. *)
Endpoints == Nodes \cup {None, Bad}
Calls == [id : 0..MaxCalls, kind : AllKinds, want : AllKinds \cup {"none"}]
Requests == [id : 0..MaxCalls, kind : AllKinds, attempt : Nat, node : Nodes,
             admitted : BOOLEAN, live : BOOLEAN]
ClientTyped ==
  /\ config \in Configs
  /\ endpoint \in Endpoints
  /\ channel \in Nodes \cup {None}
  /\ pc \in {"idle", "connect", "probe", "dial", "send", "wait"}
  /\ call \in Calls
  /\ attempts \in Nat
  /\ pc # "idle" => attempts <= MaxRetries \/ attempts <= 1
  /\ dial \in Endpoints
HistoryTyped ==
  /\ made \in 0..MaxCalls
  /\ kinds \in [Ids -> AllKinds]
  /\ result \in [0..MaxCalls -> Statuses \cup {"none"}]
ServersTyped == requests \subseteq Requests /\ applied \in [0..MaxCalls -> Nat]
ClusterTyped ==
  /\ up \in [Nodes -> BOOLEAN]
  /\ writer \in Nodes \cup {None}
  /\ hint \in [Nodes -> Nodes \cup {None}]
  /\ faults \in 0..MaxFaults

(* The type invariant is the conjunction of its parts. *)
LEMMA TypeParts == TypeOK <=> ClientTyped /\ HistoryTyped /\ ServersTyped /\ ClusterTyped
BY DEF TypeOK, ClientTyped, HistoryTyped, ServersTyped, ClusterTyped, Endpoints, Calls, Requests

(* The same of the next state. *)
LEMMA TypePartsNext ==
  TypeOK' <=> ClientTyped' /\ HistoryTyped' /\ ServersTyped' /\ ClusterTyped'
BY DEF TypeOK, ClientTyped, HistoryTyped, ServersTyped, ClusterTyped, Endpoints, Calls, Requests

(* What a step leaves alone keeps its type. *)
LEMMA TypedStays ==
  ASSUME TypeOK
  PROVE  /\ UNCHANGED client => ClientTyped'
         /\ UNCHANGED history => HistoryTyped'
         /\ UNCHANGED servers => ServersTyped'
         /\ UNCHANGED <<cluster, faults>> => ClusterTyped'
<1>1. ClientTyped /\ HistoryTyped /\ ServersTyped /\ ClusterTyped
  BY TypeParts
<1>2. UNCHANGED client => ClientTyped'
  BY <1>1 DEF ClientTyped, client
<1>3. UNCHANGED history => HistoryTyped'
  BY <1>1 DEF HistoryTyped, history
<1>4. UNCHANGED servers => ServersTyped'
  BY <1>1 DEF ServersTyped, servers
<1>5. UNCHANGED <<cluster, faults>> => ClusterTyped'
  BY <1>1 DEF ClusterTyped, cluster
<1> QED
  BY <1>2, <1>3, <1>4, <1>5

(* The bounds are numbers. *)
LEMMA Bounds == MaxRetries \in Nat /\ MaxCalls \in Nat /\ MaxFaults \in Nat /\ Kinds \subseteq AllKinds
BY ClientAssumption

(* The invariant is enough. *)
LEMMA InvImpliesWritesOnce == IInv => WritesOnce
BY DEF IInv, WritesOnce, WriteInv, Writes

(* Nothing has been called at the start. *)
LEMMA InitInv == Init => IInv
BY ClientAssumption DEF Init, IInv, TypeOK, CallInv, WriteInv, Writes, NoCall, Ids, AllKinds, Statuses

(* Every action keeps the invariant.  Outside the calls and the gateways nothing
   it speaks of changes. *)
LEMMA ClusterSteps ==
  ASSUME IInv, NEW n \in Nodes \cup {None},
         (n \in Nodes /\ (Outage(n) \/ Recover(n) \/ Learn(n))) \/ Handover(n)
  PROVE  IInv'
<1>1. UNCHANGED <<client, history, servers>>
  BY DEF Outage, Recover, Learn, Handover
<1>2. ClusterTyped
  BY TypeParts DEF IInv
<1>3. up' \in [Nodes -> BOOLEAN]
  BY <1>2, Zenon DEF ClusterTyped, Outage, Recover, Learn, Handover
<1>4. writer' \in Nodes \cup {None}
  BY <1>2 DEF ClusterTyped, Outage, Recover, Learn, Handover
<1>5. hint' \in [Nodes -> Nodes \cup {None}]
  BY <1>2 DEF ClusterTyped, Outage, Recover, Learn, Handover
<1>6. faults' \in 0..MaxFaults
  BY <1>2, Bounds DEF ClusterTyped, Outage, Recover, Learn, Handover
<1>7. TypeOK'
  BY <1>1, <1>3, <1>4, <1>5, <1>6 DEF IInv, TypeOK, client, history, servers
<1> QED
  BY <1>1, <1>7 DEF IInv, CallInv, WriteInv, Writes, client, history, servers

(* A new call has no request, no effect and no result. *)
LEMMA AppCallStep ==
  ASSUME IInv, NEW k \in Kinds, AppCall(k)
  PROVE  IInv'
<1> DEFINE id == IF made < config.calls THEN made + 1 ELSE 0
<1>1. /\ id \in 0..MaxCalls
      /\ id # 0 => id \in Ids /\ id = made + 1 /\ made' = id
      /\ id = 0 => made' = made /\ kinds' = kinds
  BY ClientAssumption DEF IInv, TypeOK, AppCall, Ids
<1>2. /\ made' \in 0..MaxCalls /\ made <= made'
      /\ made \in 0..MaxCalls
      /\ kinds' \in [Ids -> AllKinds]
      /\ \A c \in Ids : c # id => kinds'[c] = kinds[c]
      /\ id # 0 => kinds'[id] = k
      /\ k \in AllKinds
  BY <1>1, ClientAssumption DEF IInv, TypeOK, AppCall
<1>3. /\ pc = "idle"
      /\ UNCHANGED <<config, endpoint, channel, attempts, probe, dial, requests, applied, cluster, faults>>
  BY DEF AppCall, servers
<1>4. \/ /\ pc' = "connect" /\ result' = [result EXCEPT ![id] = "none"]
         /\ call' = Checkout(id, k) \/ call' = Direct(id, k)
      \/ /\ pc' = "idle" /\ result' = [result EXCEPT ![id] = "panic"]
         /\ call' = call
  BY <1>3 DEF AppCall
<1> HIDE DEF id
<1>5. TypeOK'
  <2>1. ClientTyped /\ HistoryTyped /\ ServersTyped /\ ClusterTyped
    BY TypeParts DEF IInv
  <2>2. call' \in Calls
    BY <1>1, <1>2, <1>4, <2>1 DEF ClientTyped, Calls, Checkout, Direct, AllKinds
  <2>3. result' \in [0..MaxCalls -> Statuses \cup {"none"}]
    BY <1>1, <1>4, <2>1 DEF HistoryTyped, Statuses
  <2>4. attempts' = 0 /\ pc' \in {"idle", "connect"}
    BY <1>3, <1>4 DEF IInv, CallInv
  <2>5. ClientTyped'
    BY <1>3, <2>1, <2>2, <2>4 DEF ClientTyped
  <2>6. HistoryTyped'
    BY <1>2, <2>3 DEF HistoryTyped
  <2> QED
    BY <1>3, <2>1, <2>5, <2>6, TypePartsNext DEF ServersTyped, ClusterTyped, cluster
<1>6. CallInv'
  <2>1. \A r \in requests' : r.id <= made' /\ ~r.live /\ (r.id # 0 => r.kind \in {"status", kinds'[r.id]})
    <3>1. ASSUME NEW r \in requests
          PROVE  /\ r.id \in 0..MaxCalls /\ r.id <= made /\ ~r.live
                 /\ r.id # 0 => r.id \in Ids /\ r.id # id /\ r.kind \in {"status", kinds[r.id]}
      BY <1>1, <1>2, <1>3, <3>1, Bounds DEF IInv, TypeOK, CallInv, Ids
    <3> QED
      BY <1>2, <1>3, <3>1, Bounds
  <2>2. attempts' = 0
    BY <1>3 DEF IInv, CallInv
  <2>3. pc' # "idle" => call'.id <= made' /\ call'.id = id
    BY <1>1, <1>2, <1>4 DEF Checkout, Direct
  <2>4. pc' # "idle" /\ id # 0 => IF call'.want = "none" THEN call'.kind = kinds'[id]
                                 ELSE call'.kind = "status" /\ call'.want = kinds'[id]
    <3>1. CASE call' = Direct(id, k)
      BY <1>2, <3>1 DEF Direct
    <3>2. CASE call' = Checkout(id, k)
      BY <1>2, <3>2 DEF Checkout, AllKinds
    <3> QED
      BY <1>4, <3>1, <3>2
  <2> QED
    BY <1>4, <2>1, <2>2, <2>3, <2>4 DEF CallInv
<1>7. \A c \in Ids : (c > made => applied[c] = 0)'
  BY <1>1, <1>2, <1>3 DEF IInv, Ids
<1>8. ASSUME NEW c \in Ids, kinds'[c] = "execute"
      PROVE  WriteInv(c)'
  <2>1. CASE c = id
    <3>1. c \in 0..MaxCalls /\ c \in Nat /\ made \in Nat /\ c > made /\ applied[c] = 0
      <4>1. c \in 0..MaxCalls /\ c \in Nat /\ c # 0
        BY Bounds DEF Ids
      <4>2. made \in Nat /\ c > made
        BY <1>1, <1>2, <2>1, <4>1, Bounds
      <4> QED
        BY <4>1, <4>2 DEF IInv
    <3>2. \A r \in requests : r.id <= made /\ r.id \in Nat
      BY Bounds, TypeParts DEF IInv, CallInv, ServersTyped, Requests
    <3>3. Writes(c)' = {} /\ applied'[c] = 0
      BY <1>3, <3>1, <3>2 DEF Writes
    <3>4. result'[c] \in {"none", "panic"} /\ (pc' # "idle" => result'[c] = "none")
      BY <1>4, <2>1, <3>1, TypeParts, Zenon DEF IInv, HistoryTyped
    <3> QED
      BY <3>3, <3>4 DEF WriteInv, Definite
  <2>2. CASE c # id
    <3>1. Writes(c)' = Writes(c) /\ applied'[c] = applied[c] /\ pc = "idle"
      BY <1>3 DEF Writes
    <3>2. result'[c] = result[c]
      BY <1>1, <1>4, <2>2, Bounds DEF IInv, TypeOK, Ids
    <3>3. pc' # "idle" => call'.id # c
      BY <1>4, <2>2 DEF Checkout, Direct
    <3>4. WriteInv(c)
      BY <1>2, <1>8, <2>2 DEF IInv
    <3> QED
      BY <3>1, <3>2, <3>3, <3>4 DEF WriteInv
  <2> QED
    BY <2>1, <2>2
<1> QED
  BY <1>5, <1>6, <1>7, <1>8 DEF IInv

(* The endpoints of a configuration. *)
LEMMA ConfigTyped ==
  ASSUME IInv
  PROVE  /\ \A i \in DOMAIN Candidates : Candidates[i] \in Endpoints \ {None}
         /\ config.mode = "direct" => config.endpoints[1] \in Endpoints \ {None}
<1>1. /\ config.endpoints \in Seq(Nodes \cup {Bad})
      /\ config.mode = "direct" => config.endpoints # <<>>
  BY ClientAssumption DEF IInv, TypeOK
<1>2. None \notin Nodes \cup {Bad}
  BY ClientAssumption, Zenon
<1> QED
  BY <1>1, <1>2 DEF Candidates, Endpoints

(* The client moves on towards its next request. *)
LEMMA ClientMoves ==
  ASSUME IInv, pc \in {"connect", "probe", "dial"}, pc' \in {"probe", "dial", "send"},
         UNCHANGED <<config, call, history, servers, cluster, faults>>,
         endpoint' \in Endpoints, channel' \in Nodes \cup {None}, dial' \in Endpoints,
         pc' = "dial" => dial' # None, pc' = "send" => channel' # None,
         attempts' \in Nat, attempts' <= MaxRetries \/ attempts' <= 1
  PROVE  IInv'
<1>1. ClientTyped /\ HistoryTyped /\ ServersTyped /\ ClusterTyped
  BY TypeParts DEF IInv
<1>2. ClientTyped'
  BY <1>1 DEF ClientTyped
<1>3. TypeOK'
  BY <1>1, <1>2, TypePartsNext DEF HistoryTyped, ServersTyped, ClusterTyped, history, servers, cluster
<1>4. CallInv'
  BY DEF IInv, CallInv, history, servers
<1> QED
  BY <1>3, <1>4 DEF IInv, WriteInv, Writes, history, servers

(* An attempt is counted, and goes to the channel, an endpoint or discovery. *)
LEMMA AttemptStep == IInv /\ Attempt => IInv'
<1> SUFFICES ASSUME IInv, Attempt PROVE IInv'
  OBVIOUS
<1>1. /\ endpoint \in Endpoints /\ channel \in Nodes \cup {None} /\ dial' \in Endpoints
      /\ (pc' = "dial" => dial' # None) /\ (pc' = "send" => channel # None)
  BY ConfigTyped, TypeParts DEF Attempt, IInv, ClientTyped, Endpoints
<1>2. attempts' \in Nat /\ (attempts' <= MaxRetries \/ attempts' <= 1)
  <2>1. attempts \in Nat /\ attempts' = attempts + 1 /\ (attempts < MaxRetries \/ attempts = 0)
    BY TypeParts DEF Attempt, IInv, ClientTyped, CallInv
  <2> QED
    BY <2>1, Bounds
<1> QED
  BY <1>1, <1>2, ClientMoves DEF Attempt

(* Discovery finds the writer or goes on to the next candidate. *)
LEMMA ProbeStep == IInv /\ Probe => IInv'
<1> SUFFICES ASSUME IInv, Probe PROVE IInv'
  OBVIOUS
<1>1. /\ endpoint \in Endpoints /\ channel \in Nodes \cup {None} /\ dial' \in Endpoints
      /\ (pc' = "dial" => dial' # None) /\ (pc' = "send" => channel # None)
  BY ConfigTyped, TypeParts DEF Probe, IInv, ClientTyped, Endpoints
<1>2. attempts \in Nat /\ (attempts <= MaxRetries \/ attempts <= 1)
  BY TypeParts DEF Probe, IInv, ClientTyped
<1> QED
  BY <1>1, <1>2, ClientMoves DEF Probe

(* What a step may do to the requests and effects of the calls: writes stay at
   one place, and one that is nowhere stays so. *)
Served ==
  \A c \in Ids :
    /\ c > made => applied'[c] = applied[c]
    /\ kinds[c] = "execute" =>
         /\ \A r, s \in Writes(c)' : r = s
         /\ Writes(c)' # {} => applied'[c] = 0
         /\ applied'[c] <= 1
         /\ Writes(c) = {} => Writes(c)' = {} /\ applied'[c] = applied[c]

(* Nobody waits for a request any more. *)
Quiet ==
  /\ requests' \subseteq Requests /\ applied' \in [0..MaxCalls -> Nat]
  /\ \A r \in requests' :
       r.id <= made /\ (r.id # 0 => r.kind \in {"status", kinds[r.id]}) /\ ~r.live

(* The rest of what changes when a call ends or goes on. *)
Around ==
  /\ UNCHANGED <<config, made, kinds, cluster>>
  /\ endpoint' \in Endpoints /\ channel' \in Nodes \cup {None} /\ dial' \in Endpoints
  /\ faults' \in 0..MaxFaults

(* The current call is the write c. *)
Writing(c) == call.id = c /\ kinds[c] = "execute"

(* A call ends with a result that says what happened. *)
LEMMA CallEnds ==
  ASSUME IInv, pc # "idle", NEW status \in Statuses, Quiet, Served, Around,
         pc' = "idle", call' = NoCall, attempts' = 0,
         result' = [result EXCEPT ![call.id] = status],
         \A c \in Ids : Writing(c) /\ status = "ok" => applied'[c] = 1,
         \A c \in Ids : Writing(c) /\ status \in Definite => applied'[c] = 0 /\ Writes(c)' = {}
  PROVE  IInv'
<1>1. ClientTyped /\ HistoryTyped /\ ServersTyped /\ ClusterTyped
  BY TypeParts DEF IInv
<1>2. NoCall \in Calls
  BY Bounds DEF NoCall, Calls, AllKinds
<1>3. ClientTyped'
  BY <1>1, <1>2 DEF ClientTyped, Around
<1>4. HistoryTyped'
  BY <1>1 DEF HistoryTyped, ClientTyped, Calls, Around
<1>5. TypeOK'
  BY <1>1, <1>3, <1>4, TypePartsNext DEF ServersTyped, ClusterTyped, Quiet, Around, cluster
<1>6. CallInv'
  BY DEF CallInv, Quiet, Around
<1>7. \A c \in Ids : (c > made => applied[c] = 0)'
  BY DEF IInv, Served, Around
<1>8. ASSUME NEW c \in Ids, kinds'[c] = "execute"
      PROVE  WriteInv(c)'
  <2>1. WriteInv(c) /\ kinds[c] = "execute" /\ c # 0
    BY <1>8, Bounds DEF IInv, Around, Ids
  <2>2. CASE c = call.id
    <3>1. result'[c] = status
      BY <2>2, <1>1 DEF HistoryTyped, ClientTyped, Calls
    <3> QED
      BY <2>1, <2>2, <3>1 DEF WriteInv, Served, Writing
  <2>3. CASE c # call.id
    <3>1. result'[c] = result[c]
      BY <2>3, <1>1, Bounds DEF HistoryTyped, Ids
    <3>2. (applied[c] = 1 => Writes(c) = {}) /\ (Writes(c) = {} => Writes(c)' = {} /\ applied'[c] = applied[c])
      BY <2>1 DEF WriteInv, Served
    <3>3. result[c] = "ok" => applied'[c] = 1
      BY <2>1, <3>2 DEF WriteInv
    <3>4. result[c] \in Definite => applied'[c] = 0 /\ Writes(c)' = {}
      BY <2>1, <3>2 DEF WriteInv
    <3> QED
      BY <2>1, <3>1, <3>3, <3>4 DEF WriteInv, Served
  <2> QED
    BY <2>2, <2>3
<1> QED
  BY <1>5, <1>6, <1>7, <1>8 DEF IInv

(* A call goes on with another attempt, or a checkout with the call it was for. *)
LEMMA CallContinues ==
  ASSUME IInv, pc # "idle", Quiet, Served, Around,
         pc' = "connect", attempts' \in Nat, attempts' = 0 \/ attempts' < MaxRetries,
         result' = result,
         \/ call' = call
         \/ call.want # "none" /\ call' = [call EXCEPT !.kind = call.want, !.want = "none"],
         \A c \in Ids : Writing(c) => applied'[c] = 0 /\ Writes(c)' = {}
  PROVE  IInv'
<1>1. ClientTyped /\ HistoryTyped /\ ServersTyped /\ ClusterTyped
  BY TypeParts DEF IInv
<1>2. call' \in Calls /\ call'.id = call.id
  BY <1>1, Zenon DEF ClientTyped, Calls
<1>3. ClientTyped'
  BY <1>1, <1>2, Bounds DEF ClientTyped, Around
<1>4. TypeOK'
  BY <1>1, <1>3, TypePartsNext DEF HistoryTyped, ServersTyped, ClusterTyped, Quiet, Around, cluster
<1>5. call'.id # 0 => IF call'.want = "none" THEN call'.kind = kinds[call'.id]
                      ELSE call'.kind = "status" /\ call'.want = kinds[call'.id]
  BY <1>1, <1>2, Zenon DEF IInv, CallInv, ClientTyped, Calls
<1>6. CallInv'
  BY <1>2, <1>5 DEF IInv, CallInv, Quiet, Around
<1>7. \A c \in Ids : (c > made => applied[c] = 0)'
  BY DEF IInv, Served, Around
<1>8. ASSUME NEW c \in Ids, kinds'[c] = "execute"
      PROVE  WriteInv(c)'
  <2>1. WriteInv(c) /\ kinds[c] = "execute" /\ c # 0
    BY <1>8, Bounds DEF IInv, Around, Ids
  <2> QED
    BY <1>2, <2>1 DEF WriteInv, Served, Writing
<1> QED
  BY <1>4, <1>6, <1>7, <1>8 DEF IInv

(* An answer to a request nobody waits for, and a loss, leave the client alone. *)
LEMMA CallStays ==
  ASSUME IInv, UNCHANGED <<client, history, cluster, faults>>, Served,
         requests' \subseteq requests, applied' \in [0..MaxCalls -> Nat],
         \A c \in Ids : pc # "idle" /\ Writing(c) => applied'[c] = applied[c]
  PROVE  IInv'
<1>1. TypeOK'
  <2>1. ServersTyped'
    BY TypeParts DEF IInv, ServersTyped
  <2> QED
    BY <2>1, TypedStays, TypePartsNext DEF IInv
<1>2. CallInv'
  BY DEF IInv, CallInv, client, history
<1>3. \A c \in Ids : (c > made => applied[c] = 0)'
  BY DEF IInv, Served, history
<1>4. ASSUME NEW c \in Ids, kinds'[c] = "execute"
      PROVE  WriteInv(c)'
  <2>1. /\ WriteInv(c) /\ kinds[c] = "execute"
        /\ pc' = pc /\ call' = call /\ result' = result
    BY <1>4 DEF IInv, client, history
  <2>2. Writes(c)' \subseteq Writes(c)
    BY DEF Writes
  <2>3. (applied[c] = 1 => Writes(c) = {}) /\ (Writes(c) = {} => Writes(c)' = {} /\ applied'[c] = applied[c])
    BY <2>1 DEF WriteInv, Served
  <2>4. /\ result[c] = "ok" => applied'[c] = 1
        /\ result[c] \in Definite => applied'[c] = 0 /\ Writes(c)' = {}
    BY <2>1, <2>3 DEF WriteInv
  <2>5. pc # "idle" /\ call.id = c => applied'[c] = 0 /\ result[c] = "none" /\ \A r \in Writes(c)' : r.live
    BY <2>1, <2>2 DEF WriteInv, Writing
  <2> QED
    BY <2>1, <2>4, <2>5 DEF WriteInv, Served
<1> QED
  BY <1>1, <1>2, <1>3, <1>4 DEF IInv

(* Return: the call ends, or a checkout goes on with the call it was for. *)
LEMMA ReturnInv ==
  ASSUME IInv, pc # "idle", NEW status \in Statuses, Return(status), Quiet, Served,
         UNCHANGED <<config, made, kinds, cluster>>, dial' \in Endpoints, faults' \in 0..MaxFaults,
         \A c \in Ids : Writing(c) /\ call.want # "none" => applied'[c] = 0 /\ Writes(c)' = {},
         \A c \in Ids : Writing(c) /\ call.want = "none" /\ status = "ok" => applied'[c] = 1,
         \A c \in Ids : Writing(c) /\ status \in Definite => applied'[c] = 0 /\ Writes(c)' = {}
  PROVE  IInv'
<1>1. Around
  BY DEF Around, IInv, TypeOK, Return, Endpoints
<1>2. CASE call.want # "none" /\ status = "ok"
  BY <1>1, <1>2, CallContinues DEF Return
<1>3. CASE ~(call.want # "none" /\ status = "ok")
  <2> DEFINE st == IF call.want = "none" THEN status ELSE "pool"
  <2>1. st \in Statuses /\ "pool" # "ok"
    BY DEF Statuses
  <2>2. /\ pc' = "idle" /\ call' = NoCall /\ attempts' = 0
        /\ result' = [result EXCEPT ![call.id] = st]
    BY <1>3 DEF Return
  <2>3. /\ \A c \in Ids : Writing(c) /\ st = "ok" => applied'[c] = 1
        /\ \A c \in Ids : Writing(c) /\ st \in Definite => applied'[c] = 0 /\ Writes(c)' = {}
    OBVIOUS
  <2> HIDE DEF st
  <2> QED
    BY <1>1, <2>1, <2>2, <2>3, CallEnds, Zenon
<1> QED
  BY <1>2, <1>3

(* The requests and effects are left alone, by a client that does not wait. *)
LEMMA UntouchedServed ==
  ASSUME IInv, pc # "wait", UNCHANGED <<servers, made>>
  PROVE  Quiet /\ Served /\ \A c \in Ids : pc # "idle" /\ Writing(c) => applied'[c] = 0 /\ Writes(c)' = {}
<1>1. \A c \in Ids : Writes(c)' = Writes(c) /\ applied'[c] = applied[c]
  BY DEF Writes, servers
<1>2. Quiet
  BY DEF Quiet, IInv, TypeOK, CallInv, Requests, servers
<1>3. \A c \in Ids : kinds[c] = "execute" => WriteInv(c)
  BY DEF IInv
<1>4. Served
  BY <1>1, <1>3 DEF Served, WriteInv
<1>5. \A r \in requests : ~r.live
  BY DEF IInv, CallInv
<1> QED
  BY <1>1, <1>2, <1>3, <1>4, <1>5 DEF WriteInv, Writing, Writes

(* Connecting fails before the call is sent. *)
LEMMA ConnectFailsInv ==
  ASSUME IInv, pc \in {"probe", "dial"},
         ConnectFails("discovery") \/ ConnectFails("connect") \/ Return("invalid"),
         UNCHANGED <<config, made, kinds, servers, cluster, faults>>, dial' \in Endpoints
  PROVE  IInv'
<1>1. Quiet /\ Served /\ \A c \in Ids : Writing(c) => applied'[c] = 0 /\ Writes(c)' = {}
  BY UntouchedServed
<1>2. faults' \in 0..MaxFaults /\ {"discovery", "connect", "invalid"} \subseteq Statuses \ {"ok"}
  BY DEF IInv, TypeOK, Statuses
<1>3. ASSUME NEW status \in {"discovery", "connect", "invalid"}, Return(status)
      PROVE  IInv'
  BY <1>1, <1>2, <1>3, ReturnInv
<1>4. CASE pc' = "connect" /\ Pins(None, None) /\ UNCHANGED <<call, attempts, result>> /\ ~(attempts >= MaxRetries)
  <2>1. Around
    BY <1>2, <1>4 DEF Around, Pins, Endpoints
  <2>2. attempts \in Nat /\ attempts < MaxRetries
    BY <1>4, Bounds, TypeParts DEF IInv, ClientTyped
  <2> QED
    BY <1>1, <1>4, <2>1, <2>2, CallContinues
<1> QED
  BY <1>3, <1>4 DEF ConnectFails

(* The call was sent, or could not be, and fails with a status. *)
LEMMA CallFailsInv ==
  ASSUME IInv, pc \in {"send", "wait"}, Quiet, Served,
         NEW status \in {"unavailable", "deadline", "other", "not_leader"},
         NEW leader \in Nodes \cup {None}, CallFails(status, leader),
         UNCHANGED <<config, made, kinds, dial, cluster>>, faults' \in 0..MaxFaults,
         \A c \in Ids : Writing(c) /\ (status = "not_leader" \/ call.kind # "execute")
                         => applied'[c] = 0 /\ Writes(c)' = {}
  PROVE  IInv'
<1>1. status \in Statuses \ {"ok"} /\ (status \in Definite => status = "not_leader")
  BY DEF Statuses, Definite
<1>2. dial' \in Endpoints
  BY DEF IInv, TypeOK, Endpoints
<1>3. ASSUME NEW c \in Ids, Writing(c)
      PROVE  IF call.want = "none" THEN call.kind = "execute" ELSE call.kind = "status"
  <2>1. call.id = c /\ kinds[c] = "execute" /\ c # 0
    BY <1>3, Bounds DEF Writing, Ids
  <2>2. pc # "idle" /\ call.id # 0 =>
          IF call.want = "none" THEN call.kind = kinds[call.id]
          ELSE call.kind = "status" /\ call.want = kinds[call.id]
    BY DEF IInv, CallInv
  <2> QED
    BY <2>1, <2>2
<1>4. CASE Return(status)
  <2>1. \A c \in Ids : Writing(c) /\ call.want # "none" => applied'[c] = 0 /\ Writes(c)' = {}
    BY <1>3
  <2> QED
    BY <1>1, <1>2, <1>4, <2>1, ReturnInv
<1>5. CASE ShouldRetry(call.kind, status) /\ ~(attempts >= MaxRetries) /\ Pins(leader, None)
             /\ pc' = "connect" /\ UNCHANGED <<call, attempts, result>>
  <2>1. Around
    BY <1>2, <1>5 DEF Around, Pins, Endpoints
  <2>2. attempts \in Nat /\ attempts < MaxRetries
    BY <1>5, Bounds, TypeParts DEF IInv, ClientTyped
  <2>3. \A c \in Ids : Writing(c) => applied'[c] = 0 /\ Writes(c)' = {}
    BY <1>3, <1>5 DEF ShouldRetry, Idempotent
  <2> QED
    BY <1>5, <2>1, <2>2, <2>3, CallContinues
<1> QED
  BY <1>4, <1>5 DEF CallFails

(* A request leaves the gateways without an effect. *)
LEMMA RemovedServed ==
  ASSUME IInv, NEW r \in requests, requests' = requests \ {r}, UNCHANGED <<applied, made>>
  PROVE  /\ Served
         /\ r.live => Quiet /\ \A c \in Ids : Writing(c) => applied'[c] = 0 /\ Writes(c)' = {}
<1>1. \A c \in Ids : Writes(c)' = Writes(c) \ {r} /\ applied'[c] = applied[c]
  BY DEF Writes
<1>2. \A c \in Ids : kinds[c] = "execute" => WriteInv(c)
  BY DEF IInv
<1>3. Served
  BY <1>1, <1>2 DEF Served, WriteInv
<1>4. ASSUME r.live
      PROVE  Quiet /\ \A c \in Ids : Writing(c) => applied'[c] = 0 /\ Writes(c)' = {}
  <2>1. \A s \in requests' : ~s.live
    BY <1>4 DEF IInv, CallInv
  <2>2. Quiet
    BY <2>1, Zenon DEF Quiet, IInv, TypeOK, CallInv, Requests
  <2>3. pc # "idle"
    BY <1>4 DEF IInv, CallInv
  <2> QED
    BY <1>1, <1>2, <2>1, <2>2, <2>3 DEF WriteInv, Writing, Writes
<1> QED
  BY <1>3, <1>4

(* A request leaves the gateways with its effect. *)
LEMMA AppliedServed ==
  ASSUME IInv, NEW r \in requests, requests' = requests \ {r}, UNCHANGED made,
         applied' = [applied EXCEPT ![r.id] = IF r.id = 0 \/ r.kind = "status" THEN @ ELSE @ + 1]
  PROVE  /\ Served
         /\ applied' \in [0..MaxCalls -> Nat]
         /\ \A c \in Ids : kinds[c] = "execute" => IF r \in Writes(c) THEN applied'[c] = 1
                                                    ELSE applied'[c] = applied[c]
<1>1. \A c \in Ids : Writes(c)' = Writes(c) \ {r}
  BY DEF Writes
<1>2. \A c \in Ids : kinds[c] = "execute" => WriteInv(c)
  BY DEF IInv
<1>3. r.id \in 0..MaxCalls /\ r.id <= made /\ (r.id # 0 => r.kind \in {"status", kinds[r.id]})
  BY TypeParts DEF IInv, ServersTyped, Requests, CallInv
<1>4. applied \in [0..MaxCalls -> Nat] /\ \A c \in Ids : c \in 0..MaxCalls /\ c # 0
  BY Bounds, TypeParts DEF IInv, ServersTyped, Ids
<1>5. applied' \in [0..MaxCalls -> Nat]
  BY <1>3, <1>4
<1>6. ASSUME NEW c \in Ids, kinds[c] = "execute"
      PROVE  IF r \in Writes(c) THEN applied'[c] = 1 /\ Writes(c)' = {} ELSE applied'[c] = applied[c]
  <2>1. CASE r \in Writes(c)
    <3>1. r.id = c /\ r.kind = "execute" /\ applied[c] = 0 /\ Writes(c)' = {}
      BY <1>1, <1>2, <1>6, <2>1 DEF WriteInv, Writes
    <3> QED
      BY <1>4, <2>1, <3>1
  <2>2. CASE r \notin Writes(c)
    BY <1>3, <1>4, <1>6, <2>2 DEF Writes
  <2> QED
    BY <2>1, <2>2
<1>7. ASSUME NEW c \in Ids, c > made
      PROVE  applied'[c] = applied[c]
  <2>1. r.id # c
    BY <1>3, <1>7, Bounds, TypeParts DEF IInv, HistoryTyped, Ids
  <2> QED
    BY <1>3, <1>4, <2>1
<1>8. Served
  <2>1. ASSUME NEW c \in Ids, kinds[c] = "execute"
        PROVE  /\ \A s, t \in Writes(c)' : s = t
               /\ Writes(c)' # {} => applied'[c] = 0
               /\ applied'[c] <= 1
               /\ Writes(c) = {} => Writes(c)' = {} /\ applied'[c] = applied[c]
    <3>1. /\ \A s, t \in Writes(c) : s = t
          /\ Writes(c) # {} => applied[c] = 0
          /\ applied[c] <= 1
      BY <1>2, <2>1 DEF WriteInv
    <3>2. Writes(c)' = Writes(c) \ {r}
      BY <1>1
    <3> QED
      BY <1>6, <2>1, <3>1, <3>2
  <2> QED
    BY <1>7, <2>1 DEF Served
<1> QED
  BY <1>5, <1>6, <1>8

(* Without a writer the first candidate that parses is dialled. *)
LEMMA FallBackStep == IInv /\ FallBack => IInv'
<1> SUFFICES ASSUME IInv, FallBack PROVE IInv'
  OBVIOUS
<1>1. dial \in Endpoints /\ endpoint \in Endpoints /\ channel \in Nodes \cup {None}
  BY DEF IInv, TypeOK, Endpoints
<1>2. CASE Valid = {}
  BY <1>1, <1>2, ConnectFailsInv DEF FallBack
<1>3. CASE Valid # {}
  <2>1. dial' \in Endpoints \ {None}
    BY <1>3, ConfigTyped, Zenon DEF FallBack, Valid
  <2>2. attempts \in Nat /\ (attempts <= MaxRetries \/ attempts <= 1)
    BY Zenon DEF FallBack, IInv, TypeOK
  <2> QED
    BY <1>1, <1>3, <2>1, <2>2, ClientMoves DEF FallBack, history
<1> QED
  BY <1>2, <1>3

(* An application's resolver gives an endpoint or an error. *)
LEMMA ResolveStep == IInv /\ Resolve => IInv'
<1> SUFFICES ASSUME IInv, Resolve PROVE IInv'
  OBVIOUS
<1>1. dial \in Endpoints /\ endpoint \in Endpoints /\ channel \in Nodes \cup {None}
  BY DEF IInv, TypeOK, Endpoints
<1>2. CASE ConnectFails("discovery") /\ dial' = dial
  BY <1>1, <1>2, ConnectFailsInv DEF Resolve
<1>3. CASE pc' = "dial" /\ dial' \in Nodes \cup {Bad} /\ UNCHANGED <<endpoint, channel, call, attempts, result>>
  <2>1. dial' \in Endpoints \ {None}
    BY <1>3, ClientAssumption DEF Endpoints
  <2>2. attempts \in Nat /\ (attempts <= MaxRetries \/ attempts <= 1)
    BY DEF Resolve, IInv, TypeOK
  <2> QED
    BY <1>1, <1>3, <2>1, <2>2, ClientMoves DEF Resolve, history
<1> QED
  BY <1>2, <1>3 DEF Resolve

(* A connection is made, or the attempt fails before anything was sent. *)
LEMMA DialStep == IInv /\ Dial => IInv'
<1> SUFFICES ASSUME IInv, Dial PROVE IInv'
  OBVIOUS
<1>1. dial' \in Endpoints /\ pc = "dial" /\ UNCHANGED <<config, made, kinds, servers, cluster, faults>>
  BY DEF Dial, Endpoints
<1>2. CASE Return("invalid") \/ ConnectFails("connect")
  BY <1>1, <1>2, ConnectFailsInv
<1>3. CASE dial # Bad /\ up[dial] /\ Pins(dial, dial) /\ pc' = "send" /\ UNCHANGED <<call, attempts, result>>
  <2>1. dial \in Nodes /\ dial # None
    BY <1>1, <1>3, Zenon DEF IInv, TypeOK, CallInv
  <2>2. attempts \in Nat /\ (attempts <= MaxRetries \/ attempts <= 1)
    BY <1>1 DEF IInv, TypeOK
  <2> QED
    BY <1>1, <1>3, <2>1, <2>2, ClientMoves DEF Pins, history, Endpoints
<1> QED
  BY <1>2, <1>3 DEF Dial

(* The first request of an attempt: the call has none at a gateway. *)
LEMMA SendStep == IInv /\ Send => IInv'
<1> SUFFICES ASSUME IInv, Send PROVE IInv'
  OBVIOUS
<1>0. pc = "send" /\ \A c \in Ids : Writing(c) => applied[c] = 0 /\ Writes(c) = {}
  BY Zenon DEF Send, IInv, CallInv, WriteInv, Writing, Writes
<1>1. CASE ~up[channel]
  <2>0. UNCHANGED <<config, made, kinds, dial, cluster, servers, faults>> /\ CallFails("unavailable", None)
    BY <1>1 DEF Send, servers
  <2>1. Quiet /\ Served /\ \A c \in Ids : Writing(c) => applied'[c] = 0 /\ Writes(c)' = {}
    BY <1>0, <2>0, UntouchedServed
  <2>2. faults' \in 0..MaxFaults
    BY <2>0 DEF IInv, TypeOK
  <2> QED
    BY <1>0, <2>0, <2>1, <2>2, CallFailsInv, Zenon
<1>2. CASE up[channel]
  <2>1. ClientTyped /\ HistoryTyped /\ ServersTyped /\ ClusterTyped
    BY TypeParts DEF IInv
  <2>2. /\ pc' = "wait" /\ requests' = requests \cup {Request}
        /\ UNCHANGED <<config, endpoint, channel, call, attempts, dial, history, applied, cluster, faults>>
    BY <1>2 DEF Send, history
  <2>3. Request \in Requests /\ channel # None
    BY <1>0, <2>1, Zenon DEF IInv, CallInv, ClientTyped, Calls, Requests, Request
  <2>4. TypeOK'
    BY <1>0, <2>1, <2>2, <2>3, TypePartsNext, Zenon
       DEF ClientTyped, HistoryTyped, ServersTyped, ClusterTyped, history, cluster
  <2>5. /\ Request.live /\ Request.id = call.id /\ Request.kind = call.kind
        /\ call.id <= made
        /\ call.id # 0 => call.kind \in {"status", kinds[call.id]}
    BY <1>0, Zenon DEF Request, IInv, CallInv
  <2> HIDE DEF Request
  <2>6. \A r \in requests : ~r.live
    BY <1>0 DEF IInv, CallInv
  <2>7. CallInv'
    BY <1>0, <2>2, <2>3, <2>5, <2>6, Zenon DEF IInv, CallInv, history
  <2>8. ASSUME NEW c \in Ids, kinds[c] = "execute"
        PROVE  WriteInv(c)'
    <3>1. WriteInv(c)
      BY <2>8 DEF IInv
    <3>2. CASE call.id = c
      <4>1. Writes(c)' \subseteq {Request} /\ applied[c] = 0
        BY <1>0, <2>2, <2>8, <3>2, Zenon DEF Writes, Writing
      <4> QED
        BY <1>0, <2>2, <2>5, <3>1, <3>2, <4>1, Zenon DEF WriteInv, history, Definite
    <3>3. CASE call.id # c
      <4>1. Writes(c)' = Writes(c)
        BY <2>2, <2>5, <3>3 DEF Writes
      <4> QED
        BY <2>2, <3>1, <3>3, <4>1, Zenon DEF WriteInv, history
    <3> QED
      BY <3>2, <3>3
  <2> QED
    BY <2>2, <2>4, <2>7, <2>8 DEF IInv, history
<1> QED
  BY <1>1, <1>2

(* A request that is refused is gone, so that a redirect may send it again. *)
LEMMA RefuseStep ==
  ASSUME IInv, NEW r \in requests, Refuse(r)
  PROVE  IInv'
<1>1. /\ requests' = requests \ {r} /\ UNCHANGED <<config, probe, dial, made, kinds, applied, cluster, faults>>
      /\ Answers(r, IF Authorized THEN "not_leader" ELSE "other")
  BY Zenon DEF Refuse
<1>2. faults' \in 0..MaxFaults /\ hint[r.node] \in Nodes \cup {None} /\ applied' \in [0..MaxCalls -> Nat]
  BY <1>1, Zenon DEF IInv, TypeOK
<1>3. CASE r.live
  <2>1. pc = "wait" /\ Quiet /\ Served /\ \A c \in Ids : Writing(c) => applied'[c] = 0 /\ Writes(c)' = {}
    BY <1>1, <1>3, RemovedServed, Zenon DEF IInv, CallInv
  <2>2. CASE CallFails("not_leader", hint[r.node])
    BY <1>1, <1>2, <2>1, <2>2, CallFailsInv, Zenon
  <2>3. CASE CallFails("other", None)
    BY <1>1, <1>2, <2>1, <2>3, CallFailsInv, Zenon
  <2> QED
    BY <1>1, <1>3, <2>2, <2>3 DEF Answers, Header
<1>4. CASE ~r.live
  <2>1. UNCHANGED <<client, history, cluster, faults>>
    BY <1>1, <1>4 DEF Answers, client, history
  <2> QED
    BY <1>1, <1>2, <2>1, CallStays, RemovedServed, Zenon
<1> QED
  BY <1>3, <1>4

(* A write that is admitted is the write it was. *)
LEMMA AdmitStep ==
  ASSUME IInv, NEW r \in requests, Admit(r)
  PROVE  IInv'
<1> DEFINE a == [r EXCEPT !.admitted = TRUE]
<1>1. requests' = (requests \ {r}) \cup {a} /\ UNCHANGED <<client, history, applied, cluster, faults>>
  BY DEF Admit
<1>2. r \in Requests
  BY DEF IInv, TypeOK, Requests
<1>3. a \in Requests /\ a.id = r.id /\ a.kind = r.kind /\ a.live = r.live
  BY <1>2, Zenon DEF Requests
<1> HIDE DEF a
<1>4. TypeOK'
  <2>1. ServersTyped'
    BY <1>1, <1>3, TypeParts DEF IInv, ServersTyped
  <2> QED
    BY <1>1, <2>1, TypedStays, TypePartsNext DEF IInv
<1>5. CallInv'
  BY <1>1, <1>3, Zenon DEF IInv, CallInv, client, history
<1>6. ASSUME NEW c \in Ids, kinds[c] = "execute"
      PROVE  WriteInv(c)'
  <2>1. WriteInv(c)
    BY <1>6 DEF IInv
  <2>2. CASE r \in Writes(c)
    <3>1. Writes(c) = {r}
      BY <2>1, <2>2, Zenon DEF WriteInv
    <3>2. Writes(c)' = {a}
      BY <1>1, <1>3, <2>2, <3>1 DEF Writes
    <3> QED
      BY <1>1, <1>3, <2>1, <3>1, <3>2, Zenon DEF WriteInv, client, history
  <2>3. CASE r \notin Writes(c)
    <3>1. Writes(c)' = Writes(c)
      BY <1>1, <1>3, <2>3 DEF Writes
    <3> QED
      BY <1>1, <2>1, <3>1, Zenon DEF WriteInv, client, history
  <2> QED
    BY <2>2, <2>3
<1> QED
  BY <1>1, <1>4, <1>5, <1>6 DEF IInv, history

(* A request that runs is gone, with its effect or with an error. *)
LEMMA RunStep ==
  ASSUME IInv, NEW r \in requests, Run(r)
  PROVE  IInv'
<1>1. requests' = requests \ {r} /\ UNCHANGED <<config, probe, dial, made, kinds, cluster, faults>>
  BY DEF Run
<1>2. faults' \in 0..MaxFaults /\ dial' \in Endpoints /\ "ok" \in Statuses \ Definite
  BY <1>1 DEF IInv, TypeOK, Endpoints, Statuses, Definite
<1>3. CASE applied' = applied /\ Answers(r, "other")
  <2>1. applied' \in [0..MaxCalls -> Nat]
    BY <1>3 DEF IInv, TypeOK
  <2>2. CASE r.live
    <3>1. pc = "wait" /\ Quiet /\ Served /\ \A c \in Ids : Writing(c) => applied'[c] = 0 /\ Writes(c)' = {}
      BY <1>1, <1>3, <2>2, RemovedServed, Zenon DEF IInv, CallInv
    <3>2. CallFails("other", None)
      BY <1>3, <2>2 DEF Answers
    <3> QED
      BY <1>1, <1>2, <3>1, <3>2, CallFailsInv
  <2>3. CASE ~r.live
    <3>1. UNCHANGED <<client, history, cluster, faults>>
      BY <1>1, <1>3, <2>3 DEF Answers, client, history
    <3> QED
      BY <1>1, <1>3, <2>1, <3>1, CallStays, RemovedServed
  <2> QED
    BY <2>2, <2>3
<1>4. CASE /\ applied' = [applied EXCEPT ![r.id] = IF r.id = 0 \/ r.kind = "status" THEN @ ELSE @ + 1]
           /\ Answers(r, "ok")
  <2>1. /\ Served /\ applied' \in [0..MaxCalls -> Nat]
        /\ \A c \in Ids : kinds[c] = "execute" => IF r \in Writes(c) THEN applied'[c] = 1
                                                   ELSE applied'[c] = applied[c]
    BY <1>1, <1>4, AppliedServed, Zenon
  <2>2. CASE r.live
    <3>1. /\ pc = "wait" /\ r.id = call.id /\ r.kind = call.kind
          /\ \A s \in requests' : ~s.live
      BY <1>1, <2>2, Zenon DEF IInv, CallInv
    <3>2. Quiet
      BY <1>1, <2>1, <3>1, Zenon DEF Quiet, IInv, TypeOK, CallInv, Requests
    <3>3. ASSUME NEW c \in Ids, Writing(c)
          PROVE  IF call.want = "none" THEN applied'[c] = 1 ELSE applied'[c] = 0 /\ Writes(c)' = {}
      <4>1. /\ WriteInv(c) /\ c # 0 /\ call.id = c
            /\ IF call.want = "none" THEN call.kind = "execute" ELSE call.kind = "status"
        <5>1. WriteInv(c) /\ c # 0 /\ call.id = c /\ kinds[c] = "execute"
          BY <3>3, Bounds DEF IInv, Writing, Ids
        <5>2. pc # "idle" /\ call.id # 0 =>
                IF call.want = "none" THEN call.kind = kinds[call.id]
                ELSE call.kind = "status" /\ call.want = kinds[call.id]
          BY DEF IInv, CallInv
        <5> QED
          BY <3>1, <5>1, <5>2
      <4>2. \A s \in Writes(c) : s = r
        BY <2>2, <3>1, <4>1, Zenon DEF IInv, CallInv, WriteInv, Writes
      <4>3. CASE call.want = "none"
        BY <2>1, <3>1, <3>3, <4>1, <4>3 DEF Writes, Writing
      <4>4. CASE call.want # "none"
        <5>1. Writes(c) = {} /\ Writes(c)' = {}
          BY <1>1, <3>1, <4>1, <4>2, <4>4 DEF Writes
        <5> QED
          BY <2>1, <3>1, <3>3, <4>1, <4>4, <5>1, Zenon DEF Writing, WriteInv
      <4> QED
        BY <4>3, <4>4
    <3>4. Return("ok")
      BY <1>4, <2>2 DEF Answers
    <3> QED
      BY <1>1, <1>2, <2>1, <3>1, <3>2, <3>3, <3>4, ReturnInv, Zenon
  <2>3. CASE ~r.live
    <3>1. UNCHANGED <<client, history, cluster, faults>>
      BY <1>1, <1>4, <2>3 DEF Answers, client, history
    <3>2. \A c \in Ids : pc # "idle" /\ Writing(c) => applied'[c] = applied[c]
      BY <2>1, <2>3 DEF IInv, WriteInv, Writing
    <3> QED
      BY <1>1, <2>1, <3>1, <3>2, CallStays
  <2> QED
    BY <2>2, <2>3
<1> QED
  BY <1>3, <1>4 DEF Run

(* A request lost with its node has no effect. *)
LEMMA VanishStep ==
  ASSUME IInv, NEW r \in requests, Vanish(r)
  PROVE  IInv'
<1>1. requests' = requests \ {r} /\ UNCHANGED <<client, history, applied, cluster, faults>>
  BY DEF Vanish
<1>2. applied' \in [0..MaxCalls -> Nat]
  BY <1>1 DEF IInv, TypeOK
<1> QED
  BY <1>1, <1>2, RemovedServed, CallStays DEF history

(* The client gives up on a request that a gateway may still run: the call of a
   write is not retried, so that it stays the only one. *)
LEMMA AbandonStep == IInv /\ (Broken \/ Deadline) => IInv'
<1> SUFFICES ASSUME IInv, Broken \/ Deadline PROVE IInv'
  OBVIOUS
<1>1. /\ pc = "wait" /\ requests' = {[r EXCEPT !.live = FALSE] : r \in requests}
      /\ UNCHANGED <<config, dial, made, kinds, applied, cluster>>
      /\ CallFails("unavailable", None) \/ CallFails("deadline", None)
  BY DEF Broken, Deadline, Abandon
<1>2. faults' \in 0..MaxFaults
  <2>1. faults \in 0..MaxFaults
    BY TypeParts DEF IInv, ClusterTyped
  <2>2. faults' = faults \/ (faults < MaxFaults /\ faults' = faults + 1)
    BY DEF Broken, Deadline
  <2> QED
    BY <2>1, <2>2, Bounds
<1>3. \A s \in requests' : \E r \in requests :
        s = [r EXCEPT !.live = FALSE] /\ s \in Requests /\ s.id = r.id /\ s.kind = r.kind /\ ~s.live
  <2>1. \A r \in requests : r \in Requests
    BY Zenon DEF IInv, TypeOK, Requests
  <2> QED
    BY <1>1, <2>1, Zenon DEF Requests
<1>4. Quiet
  BY <1>1, <1>3 DEF Quiet, IInv, TypeOK, CallInv
<1>5. ASSUME NEW c \in Ids
      PROVE  /\ \A s \in Writes(c)' : \E r \in Writes(c) : s = [r EXCEPT !.live = FALSE]
             /\ applied'[c] = applied[c]
  BY <1>1, <1>3 DEF Writes
<1>6. Served
  <2>1. ASSUME NEW c \in Ids, kinds[c] = "execute"
        PROVE  /\ \A r, s \in Writes(c)' : r = s
               /\ Writes(c)' # {} => applied'[c] = 0
               /\ applied'[c] <= 1
               /\ Writes(c) = {} => Writes(c)' = {} /\ applied'[c] = applied[c]
    <3>1. WriteInv(c)
      BY <2>1 DEF IInv
    <3>2. /\ \A r, s \in Writes(c) : r = s
          /\ Writes(c) # {} => applied[c] = 0
          /\ applied[c] <= 1
      BY <3>1, Zenon DEF WriteInv
    <3>3. \A r, s \in Writes(c)' : r = s
      <4> SUFFICES ASSUME NEW r \in Writes(c)', NEW s \in Writes(c)' PROVE r = s
        OBVIOUS
      <4>1. PICK x \in Writes(c) : r = [x EXCEPT !.live = FALSE]
        BY <1>5
      <4>2. PICK y \in Writes(c) : s = [y EXCEPT !.live = FALSE]
        BY <1>5
      <4> QED
        BY <3>2, <4>1, <4>2, Zenon
    <3> QED
      BY <1>5, <3>2, <3>3
  <2> QED
    BY <1>5, <2>1 DEF Served
<1>7. \A c \in Ids : Writing(c) /\ call.kind # "execute" => applied'[c] = 0 /\ Writes(c)' = {}
  <2> SUFFICES ASSUME NEW c \in Ids, Writing(c), call.kind # "execute"
               PROVE  applied'[c] = 0 /\ Writes(c)' = {}
    OBVIOUS
  <2>1. WriteInv(c) /\ call.id = c
    BY DEF IInv, Writing
  <2>2. Writes(c) = {}
    BY <1>1, <2>1 DEF WriteInv, IInv, CallInv, Writes
  <2> QED
    BY <1>1, <1>5, <2>1, <2>2 DEF WriteInv
<1> QED
  BY <1>1, <1>2, <1>4, <1>6, <1>7, CallFailsInv

(* Every step keeps the invariant. *)
LEMMA NextInv == IInv /\ [Next]_vars => IInv'
<1> SUFFICES ASSUME IInv, [Next]_vars PROVE IInv'
  OBVIOUS
<1>1. CASE UNCHANGED vars
  <2>1. UNCHANGED <<client, history, servers, cluster, faults>>
    BY <1>1 DEF vars
  <2>2. TypeOK'
    BY <2>1, TypedStays, TypePartsNext DEF IInv
  <2>3. CallInv'
    BY <2>1, Zenon DEF IInv, CallInv, client, history, servers
  <2>4. ASSUME NEW c \in Ids, WriteInv(c)
        PROVE  WriteInv(c)'
    <3>1. Writes(c)' = Writes(c)
      BY <2>1 DEF Writes, servers
    <3>2. pc' = pc /\ call' = call /\ applied' = applied /\ result' = result
      BY <2>1 DEF client, servers, history
    <3> QED
      BY <2>4, <3>1, <3>2, Zenon DEF WriteInv
  <2>5. applied' = applied /\ made' = made /\ kinds' = kinds
    BY <2>1 DEF servers, history
  <2> QED
    BY <2>2, <2>3, <2>4, <2>5 DEF IInv
<1>2. CASE \E k \in Kinds : AppCall(k)
  BY <1>2, AppCallStep
<1>3. CASE ClientStep
  BY <1>3, AttemptStep, ProbeStep, FallBackStep, ResolveStep, DialStep, SendStep, AbandonStep DEF ClientStep
<1>4. CASE Deadline
  BY <1>4, AbandonStep
<1>5. CASE \E r \in requests : Serve(r) \/ Vanish(r)
  BY <1>5, RefuseStep, AdmitStep, RunStep, VanishStep DEF Serve
<1>6. CASE \/ \E n \in Nodes : Outage(n) \/ Recover(n) \/ Learn(n)
           \/ \E n \in Nodes \cup {None} : Handover(n)
  BY <1>6, ClusterSteps
<1> QED
  BY <1>1, <1>2, <1>3, <1>4, <1>5, <1>6 DEF Next

(* execute and batch of the client crate report what happened: at most one
   effect, one after a success, and none, now or later, after a definite error
   (client.rs, retry_loop).  For every cluster, configuration and number of
   calls, attempts and faults. *)
THEOREM WritesOnceHolds == Spec => []WritesOnce
<1>1. IInv /\ [Next]_vars => IInv'
  BY NextInv
<1> QED
  BY <1>1, InitInv, InvImpliesWritesOnce, PTL DEF Spec

(* The variables keep their types, and a call never takes more attempts than
   max_retries allows. *)
THEOREM ClientTypes == Spec => []TypeOK
<1>1. IInv => TypeOK
  BY DEF IInv
<1> QED
  BY <1>1, InitInv, NextInv, PTL DEF Spec
=============================================================================
