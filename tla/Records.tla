------------------------------ MODULE Records -------------------------------
(* The text of the lease file and of the freshness ledger (kv_text.rs; ha.rs,
   parse_lease_record, serialize_lease_record, parse_freshness_ledger).  A text
   is a sequence of lines, a line a key with a value, or a "fragment" without
   "=".  A value is a sequence of characters: digits, or letters of a name. *)
EXTENDS Texts

CONSTANTS Base,   \* 10
          MaxU64  \* u64::MAX

ASSUME RecordsAssumption == Base \in Nat \ {0} /\ MaxU64 \in Nat

Line(key, value) == [key |-> key, value |-> value]
Fragment == Line("fragment", <<>>)
Blank == Line("blank", <<>>)
None == Line("none", <<>>)

Digits == 0..(Base - 1)
ValueOf(text) == Number(text, Base)

(* str::parse::<u64>, on characters that are digits or not. *)
IsU64(text) == text # <<>> /\ Range(text) \subseteq Digits /\ ValueOf(text) <= MaxU64

(* parse_kv_lines: {} is an error, else the last value of each key. *)
parse_kv_lines(text, allowed_keys) ==
  LET lines == {i \in DOMAIN text : text[i].key # "blank"}
      keys == {text[i].key : i \in lines}
      last(k) == Max({i \in lines : text[i].key = k}) IN
  IF keys \subseteq allowed_keys THEN {[k \in keys |-> text[last(k)].value]} ELSE {}

require_u64(map, key) == key \in DOMAIN map /\ IsU64(map[key])
require_non_empty(map, key) == key \in DOMAIN map /\ map[key] # <<>>

(* read_optional_kv_text: a file without a record (a missing file has no lines). *)
NoRecord(text) == Range(text) \subseteq {Blank} \/ text = <<None>>

(* The fields of a record, {} for an error. *)
Fields(text, name, numbers) ==
  {[k \in {name} \cup numbers |-> IF k = name THEN m[k] ELSE ValueOf(m[k])] :
     m \in {m \in parse_kv_lines(text, {name} \cup numbers) :
              require_non_empty(m, name) /\ \A k \in numbers : require_u64(m, k)}}

parse_lease_record(text) ==
  Fields(text, "holder_node_id", {"generation", "renewed_at_secs", "ttl_secs"})

parse_freshness_ledger(text) ==
  Fields(text, "source_node_id", {"source_generation", "synced_at_secs"})

(* Mutant: the generation is written last. *)
serialize_generation_last(holder, generation, renewed, ttl) ==
  <<Line("holder_node_id", holder), Line("renewed_at_secs", renewed),
    Line("ttl_secs", ttl), Line("generation", generation)>>
serialize_lease_record(holder, generation, renewed, ttl) ==
  <<Line("holder_node_id", holder), Line("generation", generation),
    Line("renewed_at_secs", renewed), Line("ttl_secs", ttl)>>

(* The line replica-sync.sh prints into the ledger. *)
print_freshness(source, generation, synced) ==
  <<Line("source_node_id", source), Line("source_generation", generation),
    Line("synced_at_secs", synced)>>
-----------------------------------------------------------------------------
(* Both files are rewritten in place: a reader may see any prefix of the text.
   The cut falls between two lines, inside a key, or inside a value. *)
Torn(text) ==
  {SubSeq(text, 1, i) : i \in 0..Len(text)}
  \cup {Append(SubSeq(text, 1, i), Fragment) : i \in 0..(Len(text) - 1)}
  \cup UNION {{Append(SubSeq(text, 1, i), Line(text[i + 1].key, SubSeq(text[i + 1].value, 1, j))) :
                 j \in 0..Len(text[i + 1].value)} : i \in 0..(Len(text) - 1)}

(* Reading a record while it is being written never makes it worth more than it
   is: what parses names the same holder, generation and renewal with no longer
   a ttl, or the same source and generation synced no later; the whole text
   reads back as written, and only an empty one counts as no record.  A lease torn
   this way expires early and a ledger looks stale, neither keeps a writer or
   admits a candidate (FileLeaseReader, read_freshness_ledger). *)
TornIsNoBetter(holder, generation, renewed, ttl) ==
  LET lease == serialize_lease_record(holder, generation, renewed, ttl)
      whole == [holder_node_id |-> holder, generation |-> ValueOf(generation),
                renewed_at_secs |-> ValueOf(renewed), ttl_secs |-> ValueOf(ttl)]
      ledger == print_freshness(holder, generation, renewed)
      fresh == [source_node_id |-> holder, source_generation |-> ValueOf(generation),
                synced_at_secs |-> ValueOf(renewed)] IN
  /\ parse_lease_record(lease) = {whole}
  /\ parse_freshness_ledger(ledger) = {fresh}
  /\ \A text \in Torn(lease) \cup Torn(ledger) : NoRecord(text) <=> text = <<>>
  /\ \A text \in Torn(lease) : \A r \in parse_lease_record(text) :
       [r EXCEPT !.ttl_secs = whole.ttl_secs] = whole /\ r.ttl_secs <= whole.ttl_secs
  /\ \A text \in Torn(ledger) : \A r \in parse_freshness_ledger(text) :
       [r EXCEPT !.synced_at_secs = fresh.synced_at_secs] = fresh
         /\ r.synced_at_secs <= fresh.synced_at_secs
=============================================================================
