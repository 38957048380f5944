------------------------------- MODULE Inputs -------------------------------
(* The pure code of the program, over all small inputs.  A behaviour builds one
   input, of one kind, piece by piece: `given` is what is fixed from the start,
   `input` what has come since. *)
EXTENDS Framing, Records, Endpoints, Databases, Shell, Results, Backoff, Probes

CONSTANTS
  Kinds,        \* the kinds of input
  Given(_),     \* for a kind: the possible fixed parts
  Alphabet(_),  \* the pieces an input is made of
  Length(_)     \* the number of pieces

ASSUME InputsAssumption ==
  /\ Given("frames") \subseteq Seq(Seq(0..(Radix - 1))) /\ Alphabet("frames") \subseteq Nat
  /\ \A payloads \in Given("frames") : \A i \in DOMAIN payloads :
       Len(payloads[i]) < Radix * Radix * Radix * Radix
  /\ \A packed \in Given("packed") : packed.nos \in Seq(Nat)
  /\ Given("record") \subseteq Seq(Nat) \ {<<>>}
  /\ \A text \in Alphabet("record") : text \in Seq(Digits) /\ IsU64(text)
  /\ Given("endpoint") \subseteq Seq(STRING) /\ Alphabet("endpoint") \subseteq STRING
  /\ Alphabet("listing") \cup Alphabet("round") \subseteq FileOf(Seq(STRING))
  /\ \A o \in Given("options") : OptionsFilled(o)
  /\ Given("stream") \subseteq [max_rows : Nat, chunk_size : Nat \ {0}]
  /\ Given("printed") \subseteq {columns \in Seq(Seq(STRING)) : Len(columns) = 2}
  /\ Alphabet("printed") \subseteq Values
  /\ Given("delay") \subseteq [base : Nat, max : Nat, pct : Nat, attempt : Nat \ {0},
                              entropy : Nat, next_entropy : Nat]
  /\ Given("probe") \subseteq [last : Nat, now : Nat, interval : Nat]
  /\ Given("lease") \subseteq [renewed : Nat, ttl : Nat, now : Nat, delay : Nat]

VARIABLES kind, given, input

vars == <<kind, given, input>>

Init == kind \in Kinds /\ given \in Given(kind) /\ input = <<>>

Extend ==
  /\ Len(input) < Length(kind)
  /\ \E piece \in Alphabet(kind) : input' = Append(input, piece)
  /\ UNCHANGED <<kind, given>>

Next == Extend

Spec == Init /\ [][Next]_vars
-----------------------------------------------------------------------------
(* The stream of the given payloads, cut after the numbers of bytes of the
   input. *)
Reads(payloads, sizes) ==
  LET stream == Frame(payloads, Len(payloads))
      upto == Numbers(sizes, 1) IN
  [i \in DOMAIN sizes |->
     SubSeq(stream, upto[i - 1] + 1, Lesser(upto[i], Len(stream)))]

(* Messages survive their transport: FramesSurvive for every stream and every way
   to cut it into reads (try_take_framed_message, decode), PackedAgrees for every
   run of hash bytes (TryFrom<SyncMessage>). *)
MessagesSurvive ==
  /\ kind = "frames" => FramesSurvive(given, Reads(given, input))
  /\ kind = "packed" => PackedAgrees([kind |-> given.kind, nos |-> given.nos, hashes |-> input])

(* TornIsNoBetter for every holder and every three numbers (parse_lease_record,
   parse_freshness_ledger). *)
TornRecordsAreNoBetter ==
  kind = "record" /\ Len(input) = 3 => TornIsNoBetter(given, input[1], input[2], input[3])

(* PathsStayLocal for every argument (Endpoint::parse). *)
ArgumentsStayLocal == kind = "endpoint" => PathsStayLocal(given \o input)

(* OneLockPerFile for every name (resolve_db_path, get_db_lock). *)
SpellingsShareALock == kind = "name" => OneLockPerFile(input)

(* Replicas keep what the writer has: ListingIsComplete for every walk of a data
   directory (list_databases), and RoundLosesNothing for every walk and every state
   of the replica (default-replica-sync.sh). *)
ReplicasKeepDatabases ==
  kind \in {"listing", "round"} /\ IsWalk(input) =>
    /\ kind = "listing" => ListingIsComplete(input)
    /\ kind = "round" => RoundLosesNothing(input, given)

(* ScriptRunsWhole for every script (split_sql_statements). *)
ScriptsRunWhole == kind = "script" => ScriptRunsWhole(input)

(* Commands do what they say where the options say: TargetFollowsOptions for all
   options (to_client_target), SessionActsAsCommands for every session
   (run_repl). *)
CommandsReachTheirTarget ==
  /\ kind = "options" => TargetFollowsOptions(given)
  /\ kind = "session" => SessionActsAsCommands("a", given, input)

(* Arguments reach the statement as values: ParametersReadBack for every argument
   (parse_string_to_value), ParametersLand for every statement and every list of
   arguments (bind_parameters). *)
ParametersArrive ==
  /\ kind = "value" => ParametersReadBack(input)
  /\ kind = "parameters" => ParametersLand(given, input)

(* Results reach the reader: StreamAgreesWithQuery for every result, limit and
   size of chunk (stream_query_chunks), PrintedReadsBack for all columns and rows
   (print_delimited, print_json). *)
ResultsArrive ==
  /\ kind = "stream" => StreamAgreesWithQuery(<<"c">>, input, given.max_rows, given.chunk_size)
  /\ kind = "printed" =>
       PrintedReadsBack(given, [r \in 1..(Len(input) \div 2) |-> <<input[2 * r - 1], input[2 * r]>>])

(* DelaysStayInBand for all settings of the retries (retry_delay_for_attempt_core). *)
DelaysInBand ==
  kind = "delay" => DelaysStayInBand(given.base, given.max, given.pct, given.attempt,
                                     given.entropy, given.next_entropy)

(* What a node says of itself holds: SlowTicksStayHealthy at all times
   (run_readiness_http_server), ShownLeaseAgrees for all leases
   (get_cluster_status, print_cluster_status). *)
StatusTells ==
  /\ kind = "probe" => SlowTicksStayHealthy(given.last, given.now, given.interval)
  /\ kind = "lease" => ShownLeaseAgrees([renewed |-> given.renewed, ttl |-> given.ttl],
                                        given.now, given.delay)
=============================================================================
