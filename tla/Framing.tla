------------------------------ MODULE Framing -------------------------------
(* Messages on a byte stream: a length prefix and a payload (messages.rs,
   encode and decode), taken out of a buffer that grows by whatever a read
   returns (transport/mod.rs, stdio.rs, ssh.rs); and messages over gRPC, whose
   hashes travel as one run of bytes (transport/grpc.rs).  Bytes are digits
   below Radix and a payload is the bytes bincode makes of a message. *)
EXTENDS Texts

CONSTANTS
  Radix,           \* values of a byte, 256
  MaxMessageSize,  \* MAX_MESSAGE_SIZE
  HashLen          \* bytes of a page or group hash, 32

ASSUME FramingAssumption ==
  Radix \in Nat \ {0, 1} /\ MaxMessageSize \in Nat /\ HashLen \in Nat \ {0}

PrefixLen == 4

(* u32::to_le_bytes and from_le_bytes *)
to_le_bytes(n) ==
  LET left[i \in 0..PrefixLen] == IF i = 0 THEN n ELSE left[i - 1] \div Radix IN
  [i \in 1..PrefixLen |-> left[i - 1] % Radix]
from_le_bytes(bytes) == Number([i \in 1..PrefixLen |-> bytes[PrefixLen + 1 - i]], Radix)

(* encode has no limit of its own: the length is cut to 32 bits. *)
encode(payload) == to_le_bytes(Len(payload)) \o payload

LenOf(buf) == from_le_bytes(SubSeq(buf, 1, PrefixLen))

(* Mutant: the prefix is not counted as consumed. *)
decode_uncounted(buf) ==
  IF Len(buf) < PrefixLen \/ LenOf(buf) > MaxMessageSize \/ Len(buf) < PrefixLen + LenOf(buf)
  THEN [ok |-> FALSE]
  ELSE [ok |-> TRUE, msg |-> SubSeq(buf, PrefixLen + 1, PrefixLen + LenOf(buf)),
        consumed |-> LenOf(buf)]
decode(buf) ==
  IF Len(buf) < PrefixLen \/ LenOf(buf) > MaxMessageSize \/ Len(buf) < PrefixLen + LenOf(buf)
  THEN [ok |-> FALSE]
  ELSE [ok |-> TRUE, msg |-> SubSeq(buf, PrefixLen + 1, PrefixLen + LenOf(buf)),
        consumed |-> PrefixLen + LenOf(buf)]

(* A transport: its buffer, the messages recv has returned, and whether one has
   failed. *)
Fresh == [buf |-> <<>>, got |-> <<>>, failed |-> FALSE]

Waits(buf) ==
  \/ Len(buf) < PrefixLen
  \/ LenOf(buf) <= MaxMessageSize /\ Len(buf) < PrefixLen + LenOf(buf)

(* One message out of the buffer; the length is judged as soon as it is there. *)
try_take_framed_message(t) ==
  LET d == decode(t.buf) IN
  IF d.ok THEN [t EXCEPT !.buf = SubSeq(@, d.consumed + 1, Len(@)), !.got = Append(@, d.msg)]
  ELSE [t EXCEPT !.failed = TRUE]

(* recv after recv, until one has to wait for the next read or fails.  A message
   takes its prefix at least, so there are fewer than bytes. *)
Stopped(t) == t.failed \/ Waits(t.buf)
Draining(t) ==
  LET after[k \in 0..Len(t.buf)] ==
        IF k = 0 THEN t
        ELSE IF Stopped(after[k - 1]) THEN after[k - 1]
        ELSE try_take_framed_message(after[k - 1]) IN after
Drain(t) == Draining(t)[Len(t.buf)]

(* One read of the stream. *)
recv(t, bytes) == IF t.failed THEN t ELSE Drain([t EXCEPT !.buf = @ \o bytes])

Receiving(reads) ==
  LET after[i \in 0..Len(reads)] ==
        IF i = 0 THEN Fresh ELSE recv(after[i - 1], reads[i]) IN after
Received(reads) == Receiving(reads)[Len(reads)]

-----------------------------------------------------------------------------
(* transport/grpc.rs: a message with its hashes packed.  Kinds without hashes
   carry the same fields on both sides; nos are page or group numbers. *)
Hashed == {"GroupHashes", "PageHashes"}

(* From<&Message> for SyncMessage *)
to_proto(m) ==
  IF m.kind \in Hashed THEN [m EXCEPT !.hashes = Concat(@)] ELSE m

Chunks(bytes) ==
  [i \in 1..(Len(bytes) \div HashLen) |-> SubSeq(bytes, (i - 1) * HashLen + 1, i * HashLen)]

(* TryFrom<SyncMessage> for Message: the message, or {} for an error. *)
try_from(p) ==
  IF \/ p.kind \in {"none", "Init"}
     \/ p.kind \in Hashed /\ Len(p.hashes) % HashLen # 0
     \/ p.kind = "PageHashes" /\ Len(p.hashes) \div HashLen # Len(p.nos)
  THEN {}
  ELSE {IF p.kind \in Hashed THEN [p EXCEPT !.hashes = Chunks(@)] ELSE p}
-----------------------------------------------------------------------------
(* What the receiver has to see of these payloads when the stream was cut after
   n bytes: those whose frame has arrived, up to the first that is too long. *)
Frame(payloads, i) == Concats([j \in DOMAIN payloads |-> encode(payloads[j])])[i]
Oversize(payloads) == {i \in DOMAIN payloads : Len(payloads[i]) > MaxMessageSize}
Arrived(payloads, n) ==
  {i \in DOMAIN payloads : Len(Frame(payloads, i)) <= n /\ \A j \in Oversize(payloads) : i < j}

(* However a stream of frames is cut into reads, and wherever it breaks off,
   the receiver gets exactly the messages that have arrived as a whole, in
   order, and none of another length; a message above MAX_MESSAGE_SIZE, which
   encode lets pass, ends the session as soon as its prefix is read. *)
FramesSurvive(payloads, reads) ==
  LET sent == Frame(payloads, Len(payloads))
      taken == Concat(reads)
      t == Received(reads) IN
  IsPrefixOf(taken, sent) =>
    /\ t.got = SubSeq(payloads, 1, Max({0} \cup Arrived(payloads, Len(taken))))
    /\ t.failed <=> \E i \in Oversize(payloads) :
                      Len(Frame(payloads, i - 1)) + PrefixLen <= Len(taken)

(* A gRPC message is taken for exactly one message of the protocol, or refused:
   what is accepted packs to the same bytes again, has a hash for every page it
   names, and whatever a handler sends is accepted at the other end. *)
PackedAgrees(p) ==
  /\ \A m \in try_from(p) :
       to_proto(m) = p /\ (m.kind = "PageHashes" => Len(m.hashes) = Len(m.nos))
  /\ p.kind \notin {"none", "Init"} =>
       LET m == [p EXCEPT !.hashes = [i \in DOMAIN p.nos |-> [j \in 1..HashLen |-> p.nos[i]]]] IN
       p.kind \in Hashed => try_from(to_proto(m)) = {m}
=============================================================================
