---------------------------- MODULE InputsProofs ----------------------------
(* The properties of Inputs, for inputs of every length and, within the
   assumptions, all alphabets: an input is always a sequence of pieces of its
   kind (Built), and the property of its kind holds for every such sequence.  The
   lemmas about rows, delays and probes are here, the others in InputsLemmas. *)
EXTENDS Inputs, InputsLemmas, WellFoundedInduction

(* A set of numbers that is not empty has a least one. *)
LEMMA NumbersWellOrdered == WellOrdered
<1> SUFFICES ASSUME NEW S \in SUBSET Nat, S # {} PROVE \E x \in S : \A y \in S : x <= y
  BY Zenon DEF WellOrdered
<1> DEFINE R == {ss \in Nat \X Nat : ss[1] < ss[2]}
<1>1. IsWellFoundedOn(R, Nat)
  BY NatLessThanWellFounded DEF OpToRel
<1>2. PICK x \in S : \A y \in S : ~(<<y, x>> \in R)
  <2> HIDE DEF R
  <2> QED BY <1>1, WFMin, Zenon
<1>3. ASSUME NEW y \in S PROVE x <= y
  <2>1. x \in Nat /\ y \in Nat /\ ~(<<y, x>> \in R)
    BY <1>2
  <2>2. ~(y < x)
    BY <2>1
  <2> HIDE DEF R
  <2> QED BY <2>1, <2>2
<1> QED BY <1>3, Zenon

-----------------------------------------------------------------------------
(* Rows *)

(* The chunks of a stream, after every row: those sent and the rows kept for the
   next one are the rows so far (stream_query_chunks). *)
LEMMA StreamsAgree ==
  ASSUME WellOrdered
  PROVE  \A R, columns : \A result \in Seq(R), max_rows \in Nat, chunk_size \in Nat \ {0} :
           StreamAgreesWithQuery(columns, result, max_rows, chunk_size)
<1> DEFINE
  ChunksOf(R, columns) == [columns : {columns, <<>>}, rows : Seq(R), is_last : BOOLEAN, total_rows : Nat]
  States(R, columns) == [chunks : Seq(ChunksOf(R, columns)), rows : Seq(R), total : Nat, first : BOOLEAN]
  RowsOf(chunks) == [j \in DOMAIN chunks |-> chunks[j].rows]
  (* The rows of some chunks are `flat`, and each chunk is as it should be but for is_last. *)
  IsChunk(c, j, columns, size, upto) ==
    /\ c.columns = IF j = 1 THEN columns ELSE <<>>
    /\ c.total_rows = Len(upto[j])
    /\ Len(c.rows) <= size
  Carry(chunks, columns, size, flat) ==
    /\ Concat(RowsOf(chunks)) = flat
    /\ \A j \in DOMAIN chunks : IsChunk(chunks[j], j, columns, size, Concats(RowsOf(chunks)))
<1> HIDE DEF ChunksOf, States, RowsOf, IsChunk, Carry

<1>RowsOfTyped.
    ASSUME NEW R, NEW columns, NEW chunks \in Seq(ChunksOf(R, columns))
    PROVE  RowsOf(chunks) \in Seq(Seq(R)) /\ Len(RowsOf(chunks)) = Len(chunks)
  <2>1. PICK n \in Nat : n = Len(chunks) /\ DOMAIN chunks = 1..n
    OBVIOUS
  <2>2. ASSUME NEW j \in 1..n PROVE chunks[j].rows \in Seq(R)
    <3>1. chunks[j] \in ChunksOf(R, columns)
      BY <2>1, SeqElement, Zenon
    <3> QED BY <3>1, Zenon DEF ChunksOf
  <2>3. PICK parts : parts = [j \in 1..n |-> chunks[j].rows]
    BY Zenon
  <2>4. RowsOf(chunks) = parts
    BY <2>1, <2>3, Zenon DEF RowsOf
  <2>5. parts \in [1..n -> Seq(R)]
    BY <2>2, <2>3, Zenon
  <2>6. parts \in Seq(Seq(R)) /\ Len(parts) = n
    BY <2>5, SeqFrom, Zenon
  <2> QED BY <2>1, <2>4, <2>6, Zenon

(* One more chunk. *)
<1>CarryMore.
    ASSUME NEW R, NEW columns, NEW size, NEW chunks \in Seq(ChunksOf(R, columns)), NEW flat,
           Carry(chunks, columns, size, flat), NEW c \in ChunksOf(R, columns),
           c.columns = IF chunks = <<>> THEN columns ELSE <<>>,
           c.total_rows = Len(flat \o c.rows), Len(c.rows) <= size
    PROVE  Carry(Append(chunks, c), columns, size, flat \o c.rows)
  <2>1. PICK n \in Nat : n = Len(chunks) /\ DOMAIN chunks = 1..n /\ (chunks = <<>> <=> n = 0)
    OBVIOUS
  <2>2. PICK more : more = Append(chunks, c)
    BY Zenon
  <2>3. /\ more \in Seq(ChunksOf(R, columns)) /\ DOMAIN more = 1..(n + 1) /\ more[n + 1] = c
        /\ \A j \in 1..n : more[j] = chunks[j]
    BY <2>1, <2>2
  <2>4. PICK parts : parts = RowsOf(chunks) /\ parts \in Seq(Seq(R)) /\ Len(parts) = n
    BY <2>1, <1>RowsOfTyped, Zenon
  <2>5. PICK part \in Seq(R) : part = c.rows
    BY Zenon DEF ChunksOf
  <2>6. RowsOf(more) = Append(parts, part)
    <3>1. \A j \in 1..n : parts[j] = chunks[j].rows
      BY <2>1, <2>4, Zenon DEF RowsOf
    <3>2. RowsOf(more) = [j \in 1..(n + 1) |-> more[j].rows]
      BY <2>3, Zenon DEF RowsOf
    <3>3. PICK ap : ap = Append(parts, part)
      BY Zenon
    <3>4. /\ ap \in Seq(Seq(R)) /\ Len(ap) = n + 1 /\ ap[n + 1] = part
          /\ \A j \in 1..n : ap[j] = parts[j]
      BY <2>4, <3>3
    <3>5. PICK rows : rows = RowsOf(more) /\ rows \in Seq(Seq(R)) /\ Len(rows) = Len(more)
      BY <2>3, <1>RowsOfTyped, Zenon
    <3>6. Len(rows) = n + 1
      BY <2>3, <3>5
    <3>7. ASSUME NEW j \in 1..Len(rows) PROVE rows[j] = ap[j]
      <4>1. j \in 1..(n + 1) /\ (j # n + 1 => j \in 1..n)
        BY <3>6
      <4>2. rows[j] = more[j].rows
        BY <3>2, <3>5, <4>1, Zenon
      <4> QED BY <2>3, <2>5, <3>1, <3>4, <4>1, <4>2, Zenon
    <3>8. rows = ap
      <4>1. Len(rows) = Len(ap) /\ rows \in Seq(Seq(R)) /\ ap \in Seq(Seq(R))
        BY <3>4, <3>5, <3>6, Zenon
      <4> QED BY <3>7, <4>1, SeqEqual, Zenon
    <3> QED BY <3>3, <3>5, <3>8, Zenon
  <2>7. PICK f, g : f = Concats(parts) /\ g = Concats(RowsOf(more))
    BY Zenon
  <2>8. \A j \in 0..n : g[j] = f[j]
    <3>1. \A j \in 0..Len(parts) : Concats(Append(parts, part))[j] = Concats(parts)[j]
      BY <2>4, ConcatsStay, Zenon
    <3> QED BY <2>4, <2>6, <2>7, <3>1, Zenon
  <2>9. Concat(parts) = flat
    BY <1>CarryMore, <2>4, Zenon DEF Carry
  <2>10. Concat(RowsOf(more)) = flat \o part
    <3>1. Concat(Append(parts, part)) = Concat(parts) \o part
      BY <2>4, ConcatAppend, Zenon
    <3> QED BY <2>6, <2>9, <3>1, Zenon
  <2>11. g[n + 1] = flat \o part
    <3>1. Len(RowsOf(more)) = n + 1
      BY <2>4, <2>5, <2>6
    <3> QED BY <2>7, <2>10, <3>1, Zenon DEF Concat
  <2>12. ASSUME NEW j \in 1..(n + 1) PROVE IsChunk(more[j], j, columns, size, g)
    <3>1. CASE j = n + 1
      <4>1. c.columns = IF j = 1 THEN columns ELSE <<>>
        BY <1>CarryMore, <2>1, <3>1
      <4> QED BY <1>CarryMore, <2>3, <2>5, <2>11, <3>1, <4>1, Zenon DEF IsChunk
    <3>2. CASE j # n + 1
      <4>1. j \in 1..n /\ j \in 0..n
        BY <3>2
      <4>2. IsChunk(chunks[j], j, columns, size, f)
        BY <1>CarryMore, <2>1, <2>4, <2>7, <4>1, Zenon DEF Carry
      <4> QED BY <2>3, <2>8, <4>1, <4>2, Zenon DEF IsChunk
    <3> QED BY <3>1, <3>2, Zenon
  <2> QED BY <2>2, <2>3, <2>5, <2>7, <2>10, <2>12, Zenon DEF Carry

<1> DEFINE
  (* What a row does to the state. *)
  Streamed(s, columns, row, size, t) ==
    LET rows == Append(s.rows, row) IN
    /\ t.total = s.total + 1
    /\ Len(rows) < size => t.chunks = s.chunks /\ t.rows = rows /\ (t.first <=> s.first)
    /\ ~(Len(rows) < size) =>
         /\ t.chunks = Append(s.chunks, Chunk(IF s.first THEN columns ELSE <<>>, rows, FALSE, s.total + 1))
         /\ t.rows = <<>> /\ ~t.first
<1> HIDE DEF Streamed

<1> DEFINE
  HasFields(c, R, columns, cols, rows, is_last, total) ==
    /\ c \in ChunksOf(R, columns) /\ c.columns = cols /\ c.rows = rows
    /\ c.is_last <=> is_last
    /\ c.total_rows = total
<1> HIDE DEF HasFields

<1>ChunkIs.
    ASSUME NEW R, NEW columns, NEW cols \in {columns, <<>>}, NEW rows \in Seq(R), NEW is_last \in BOOLEAN,
           NEW total \in Nat, NEW c, c = Chunk(cols, rows, is_last, total)
    PROVE  HasFields(c, R, columns, cols, rows, is_last, total)
  <2>1. c = [columns |-> cols, rows |-> rows, is_last |-> is_last, total_rows |-> total]
    BY <1>ChunkIs, Zenon DEF Chunk
  <2>2. c.rows = rows /\ c.total_rows = total /\ c.columns = cols
    BY <2>1
  <2>3. c.is_last <=> is_last
    BY <2>1, Zenon
  <2>4. c \in ChunksOf(R, columns)
    BY <2>1, Zenon DEF ChunksOf
  <2> QED BY <2>2, <2>3, <2>4, Zenon DEF HasFields

<1>RowStreams.
    ASSUME NEW R, NEW columns, NEW s \in States(R, columns), NEW row \in R, NEW size,
           NEW t, t = StreamRow(s, columns, row, size)
    PROVE  t \in States(R, columns) /\ Streamed(s, columns, row, size, t)
  <2>1. /\ s = [chunks |-> s.chunks, rows |-> s.rows, total |-> s.total, first |-> s.first]
        /\ s.chunks \in Seq(ChunksOf(R, columns)) /\ s.rows \in Seq(R) /\ s.total \in Nat /\ s.first \in BOOLEAN
    BY Zenon DEF States
  <2>2. PICK rows \in Seq(R) : rows = Append(s.rows, row)
    BY <2>1, AppendTyped, Zenon
  <2>3. PICK total \in Nat : total = s.total + 1
    BY <2>1
  <2>4. PICK c : c = Chunk(IF s.first THEN columns ELSE <<>>, rows, FALSE, total)
    BY Zenon
  <2>5. c \in ChunksOf(R, columns)
    <3>1. PICK no \in BOOLEAN, cols \in {columns, <<>>} : no = FALSE /\ cols = IF s.first THEN columns ELSE <<>>
      BY Zenon
    <3>2. c = Chunk(cols, rows, no, total)
      BY <2>4, <3>1, Zenon
    <3>3. HasFields(c, R, columns, cols, rows, no, total)
      BY <3>2, <1>ChunkIs, Zenon
    <3> QED BY <3>3, Zenon DEF HasFields
  <2>6. PICK chunks \in Seq(ChunksOf(R, columns)) : chunks = Append(s.chunks, c)
    BY <2>1, <2>5, AppendTyped, Zenon
  <2>7. CASE Len(rows) < size
    <3>1. t = [s EXCEPT !.rows = rows, !.total = total]
      BY <1>RowStreams, <2>2, <2>3, <2>7, Zenon DEF StreamRow
    <3>2. t = [chunks |-> s.chunks, rows |-> rows, total |-> total, first |-> s.first]
      BY <2>1, <3>1, Zenon
    <3>3. t \in States(R, columns)
      BY <2>1, <3>2, Zenon DEF States
    <3>4. t.chunks = s.chunks /\ t.rows = rows /\ t.total = total
      BY <3>2
    <3>5. t.first <=> s.first
      BY <3>2, Zenon
    <3> QED BY <2>2, <2>3, <2>7, <3>3, <3>4, <3>5, Zenon DEF Streamed
  <2>8. CASE ~(Len(rows) < size)
    <3>1. PICK no : no = FALSE
      BY Zenon
    <3>2. t = [s EXCEPT !.rows = <<>>, !.total = total, !.first = no, !.chunks = chunks]
      BY <1>RowStreams, <2>2, <2>3, <2>4, <2>6, <2>8, <3>1, Zenon DEF StreamRow
    <3>3. t = [chunks |-> chunks, rows |-> <<>>, total |-> total, first |-> no]
      BY <2>1, <3>2, Zenon
    <3>4. t.chunks = chunks /\ t.rows = <<>> /\ t.total = total
      BY <3>3
    <3>5. t.first = no /\ ~t.first
      BY <3>1, <3>3, Zenon
    <3>6. <<>> \in Seq(R)
      OBVIOUS
    <3>7. t \in States(R, columns)
      BY <3>1, <3>3, <3>6, Zenon DEF States
    <3> QED BY <2>2, <2>3, <2>4, <2>6, <2>8, <3>4, <3>5, <3>7, Zenon DEF Streamed
  <2> QED BY <2>7, <2>8, Zenon

<1> DEFINE
  Streams(g, R, columns, result, max_rows, chunk_size) ==
    /\ g[0] = [chunks |-> <<>>, rows |-> <<>>, total |-> 0, first |-> TRUE]
    /\ \A i \in 1..Len(result) :
         g[i] = IF max_rows > 0 /\ g[i - 1].total >= max_rows THEN g[i - 1]
                ELSE StreamRow(g[i - 1], columns, result[i], chunk_size)
    /\ \A i \in 0..Len(result) : g[i] \in States(R, columns)
<1> HIDE DEF Streams

<1>StreamingIs.
    ASSUME NEW R, NEW columns, NEW result \in Seq(R), NEW max_rows, NEW chunk_size, NEW g,
           g = Streaming(columns, result, max_rows, chunk_size)
    PROVE  Streams(g, R, columns, result, max_rows, chunk_size)
  <2> DEFINE n == Len(result)
             S == States(R, columns)
             none == [chunks |-> <<>>, rows |-> <<>>, total |-> 0, first |-> TRUE]
             op(i, s) == IF max_rows > 0 /\ s.total >= max_rows THEN s
                         ELSE StreamRow(s, columns, result[i], chunk_size)
             step == [i \in 1..n |-> [s \in S |-> op(i, s)]]
             Step(f) == [i \in 0..n |-> IF i = 0 THEN none ELSE op(i, f[i - 1])]
  <2>1. n \in Nat /\ none \in S /\ \A i \in 1..n, s \in S : op(i, s) \in S
    <3>1. n \in Nat /\ <<>> \in Seq(ChunksOf(R, columns)) /\ <<>> \in Seq(R) /\ 0 \in Nat
      OBVIOUS
    <3>2. none \in S
      BY <3>1, Zenon DEF States
    <3>3. ASSUME NEW i \in 1..n, NEW s \in S PROVE op(i, s) \in S
      <4>1. result[i] \in R
        BY SeqElement, Zenon
      <4> QED BY <4>1, <1>RowStreams, Zenon
    <3> QED BY <3>1, <3>2, <3>3, Zenon
  <2>2. g = CHOOSE f : f = Step(f)
    BY <1>StreamingIs, Zenon DEF Streaming
  <2> HIDE DEF n, S, op, none
  <2>3. PICK f \in [0..n -> S] : IsRow(f, n, none, step)
    <3>1. step \in [1..n -> [S -> S]]
      BY <2>1, Zenon
    <3> HIDE DEF step
    <3> QED BY <2>1, <3>1, Rows, Zenon
  <2>4. f = Step(f)
    <3>1. f[0] = none
      BY <2>3, Zenon DEF IsRow
    <3>2. ASSUME NEW i \in 1..n PROVE f[i] = op(i, f[i - 1])
      <4>1. f[i - 1] \in S
        BY <2>1
      <4>2. step[i][f[i - 1]] = op(i, f[i - 1])
        BY <4>1, Zenon
      <4> QED BY <2>3, <4>2, Zenon DEF IsRow
    <3> QED BY <2>1, <3>1, <3>2
  <2>5. g = Step(g)
    BY <2>2, <2>4, Zenon
  <2>6. g[0] = none /\ \A i \in 1..n : g[i] = op(i, g[i - 1])
    BY <2>1, <2>5
  <2>7. \A i \in 0..n : g[i] \in S
    <3>1. \A i \in 1..n : g[i - 1] \in S => g[i] \in S
      BY <2>1, <2>6, Zenon
    <3> QED BY <2>1, <2>6, <3>1, RowsTyped, Zenon
  <2> QED BY <2>6, <2>7, Zenon DEF n, S, op, none, Streams

<1> DEFINE
  (* The rows sent and those still kept are the rows so far. *)
  Flat(s) == Concat(RowsOf(s.chunks))
  Holds(s, columns, size, part) ==
    /\ Carry(s.chunks, columns, size, Flat(s))
    /\ Flat(s) \o s.rows = part
    /\ s.total = Len(part) /\ Len(s.rows) < size
    /\ s.first <=> s.chunks = <<>>
    /\ \A j \in DOMAIN s.chunks : ~s.chunks[j].is_last
<1> HIDE DEF Flat, Holds

<1>FlatTyped.
    ASSUME NEW R, NEW columns, NEW s \in States(R, columns)
    PROVE  Flat(s) \in Seq(R)
  <2>1. PICK chunks \in Seq(ChunksOf(R, columns)) : chunks = s.chunks
    BY Zenon DEF States
  <2>2. PICK parts \in Seq(Seq(R)) : parts = RowsOf(chunks)
    BY <1>RowsOfTyped, Zenon
  <2>3. <<>> \in Seq(R)
    OBVIOUS
  <2>4. Concat(parts) \in Seq(R)
    BY <2>3, ConcatAppend, Zenon
  <2> QED BY <2>1, <2>2, <2>4, Zenon DEF Flat

<1>HoldsMore.
    ASSUME NEW R, NEW columns, NEW size \in Nat \ {0}, NEW s \in States(R, columns), NEW part \in Seq(R),
           Holds(s, columns, size, part), NEW row \in R, NEW t, t = StreamRow(s, columns, row, size)
    PROVE  Holds(t, columns, size, Append(part, row))
  <2>1. t \in States(R, columns) /\ Streamed(s, columns, row, size, t)
    BY <1>HoldsMore, <1>RowStreams, Zenon
  <2>2. PICK old \in Seq(R), flat \in Seq(R) : old = s.rows /\ flat = Flat(s)
    BY <1>FlatTyped, Zenon DEF States
  <2>3. PICK rows \in Seq(R) : rows = Append(old, row)
    BY AppendTyped, Zenon
  <2>4. flat \o old = part /\ s.total = Len(part) /\ Len(old) < size
    BY <1>HoldsMore, <2>2, Zenon DEF Holds
  <2>5. /\ flat \o rows = Append(part, row) /\ Len(Append(part, row)) = Len(part) + 1
        /\ Len(rows) <= size /\ flat \o rows \in Seq(R)
    <3>1. flat \o rows \in Seq(R) /\ Append(part, row) \in Seq(R)
      BY JoinIs, AppendTyped, Zenon
    <3>2. Len(rows) <= size /\ Len(Append(part, row)) = Len(part) + 1
      BY <2>3, <2>4
    <3>3. flat \o Append(old, row) = Append(flat \o old, row)
      OBVIOUS
    <3> QED BY <2>3, <2>4, <3>1, <3>2, <3>3, Zenon
  <2>6. t.total = Len(Append(part, row))
    BY <2>1, <2>4, <2>5, Zenon DEF Streamed
  <2>7. CASE Len(rows) < size
    <3>1. t.chunks = s.chunks /\ t.rows = rows /\ (t.first <=> s.first)
      BY <2>1, <2>2, <2>3, <2>7, Zenon DEF Streamed
    <3>2. Flat(t) = flat
      BY <2>2, <3>1, Zenon DEF Flat
    <3>3. /\ Carry(s.chunks, columns, size, flat) /\ (s.first <=> s.chunks = <<>>)
          /\ \A j \in DOMAIN s.chunks : ~s.chunks[j].is_last
      BY <1>HoldsMore, <2>2, Zenon DEF Holds
    <3> QED BY <2>5, <2>6, <2>7, <3>1, <3>2, <3>3, Zenon DEF Holds
  <2>8. CASE ~(Len(rows) < size)
    <3>1. PICK c : c = Chunk(IF s.first THEN columns ELSE <<>>, rows, FALSE, s.total + 1)
      BY Zenon
    <3>2. t.chunks = Append(s.chunks, c) /\ t.rows = <<>> /\ ~t.first
      BY <2>1, <2>2, <2>3, <2>8, <3>1, Zenon DEF Streamed
    <3>3. PICK total \in Nat : total = s.total + 1
      BY <2>4
    <3>4. s.first \in BOOLEAN /\ s.chunks \in Seq(ChunksOf(R, columns))
      BY Zenon DEF States
    <3>5. /\ c \in ChunksOf(R, columns) /\ c.rows = rows /\ c.total_rows = total
          /\ ~c.is_last /\ c.columns = IF s.first THEN columns ELSE <<>>
      <4>1. PICK no \in BOOLEAN, cols \in {columns, <<>>} : no = FALSE /\ cols = IF s.first THEN columns ELSE <<>>
        BY Zenon
      <4>2. c = Chunk(cols, rows, no, total)
        BY <3>1, <3>3, <4>1, Zenon
      <4>3. HasFields(c, R, columns, cols, rows, no, total)
        BY <4>2, <1>ChunkIs, Zenon
      <4> QED BY <4>1, <4>3, Zenon DEF HasFields
    <3>6. c.columns = IF s.chunks = <<>> THEN columns ELSE <<>>
      BY <1>HoldsMore, <3>5, Zenon DEF Holds
    <3>7. total = Len(flat \o rows)
      BY <2>4, <2>5, <3>3, Zenon
    <3>8. Carry(s.chunks, columns, size, flat)
      BY <1>HoldsMore, <2>2, Zenon DEF Holds
    <3>9. Carry(t.chunks, columns, size, flat \o rows)
      BY <2>5, <3>2, <3>4, <3>5, <3>6, <3>7, <3>8, <1>CarryMore, Zenon
    <3>10. Flat(t) = flat \o rows
      BY <3>9, Zenon DEF Carry, Flat
    <3>11. (flat \o rows) \o <<>> = flat \o rows /\ Len(<<>>) < size
      BY <2>5
    <3>12. t.chunks # <<>> /\ \A j \in DOMAIN t.chunks : ~t.chunks[j].is_last
      <4>1. PICK chunks \in Seq(ChunksOf(R, columns)) : chunks = s.chunks
        BY <3>4, Zenon
      <4>2. PICK n \in Nat : n = Len(chunks) /\ DOMAIN chunks = 1..n
        OBVIOUS
      <4>3. PICK more : more = Append(chunks, c)
        BY Zenon
      <4>4. /\ more # <<>> /\ DOMAIN more = 1..(n + 1) /\ more[n + 1] = c
            /\ \A j \in 1..n : more[j] = chunks[j]
        <5>1. c \in ChunksOf(R, columns)
          BY <3>5, Zenon
        <5>2. Len(more) = n + 1 /\ DOMAIN more = 1..(n + 1) /\ more[n + 1] = c
          BY <4>2, <4>3, <5>1
        <5>3. \A j \in 1..n : more[j] = chunks[j]
          BY <4>2, <4>3, <5>1
        <5>4. more # <<>>
          BY <5>2
        <5> QED BY <5>2, <5>3, <5>4, Zenon
      <4>5. ASSUME NEW j \in 1..(n + 1) PROVE ~more[j].is_last
        <5>1. j # n + 1 => j \in 1..n
          OBVIOUS
        <5>2. \A k \in 1..n : ~chunks[k].is_last
          BY <1>HoldsMore, <4>1, <4>2, Zenon DEF Holds
        <5> QED BY <3>5, <4>4, <5>1, <5>2, Zenon
      <4> QED BY <3>2, <4>1, <4>3, <4>4, <4>5, Zenon
    <3> QED BY <2>5, <2>6, <3>2, <3>9, <3>10, <3>11, <3>12, Zenon DEF Holds
  <2> QED BY <2>7, <2>8, Zenon

<1> SUFFICES ASSUME NEW R, NEW columns, NEW result \in Seq(R), NEW max_rows \in Nat, NEW chunk_size \in Nat \ {0}
             PROVE  StreamAgreesWithQuery(columns, result, max_rows, chunk_size)
  BY Zenon
<1>1. PICK n \in Nat : n = Len(result)
  BY LenTyped, Zenon
<1>2. PICK g : g = Streaming(columns, result, max_rows, chunk_size)
  BY Zenon
<1> DEFINE Taken(i) == IF max_rows > 0 /\ i > max_rows THEN max_rows ELSE i
           TakenRows(i) == SubSeq(result, 1, Taken(i))
<1>3. /\ g[0] = [chunks |-> <<>>, rows |-> <<>>, total |-> 0, first |-> TRUE]
      /\ \A i \in 1..n : g[i] = IF max_rows > 0 /\ g[i - 1].total >= max_rows THEN g[i - 1]
                                 ELSE StreamRow(g[i - 1], columns, result[i], chunk_size)
      /\ \A i \in 0..n : g[i] \in States(R, columns)
  <2>1. Streams(g, R, columns, result, max_rows, chunk_size)
    BY <1>2, <1>StreamingIs, Zenon
  <2> QED BY <1>1, <2>1, Zenon DEF Streams
<1>4. \A i \in 0..n : Taken(i) \in 0..i /\ TakenRows(i) \in Seq(R) /\ Len(TakenRows(i)) = Taken(i)
  BY <1>1
<1>5. Holds(g[0], columns, chunk_size, TakenRows(0))
  <2>1. g[0].chunks = <<>> /\ g[0].rows = <<>> /\ g[0].total = 0
    BY <1>3
  <2>2. g[0].first
    <3>1. PICK yes : yes = TRUE
      BY Zenon
    <3>2. PICK s0 : s0 = [chunks |-> <<>>, rows |-> <<>>, total |-> 0, first |-> yes]
      BY Zenon
    <3>3. s0.first = yes /\ s0.first
      BY <3>1, <3>2, Zenon
    <3>4. g[0] = s0
      BY <1>3, <3>1, <3>2, Zenon
    <3> QED BY <3>3, <3>4, Zenon
  <2>3. RowsOf(<<>>) = <<>>
    BY DEF RowsOf
  <2>4. Flat(g[0]) = <<>>
    BY <2>1, <2>3, ConcatNone, Zenon DEF Flat
  <2>5. TakenRows(0) = <<>> /\ <<>> \o <<>> = <<>> /\ Len(<<>>) = 0 /\ 0 < chunk_size /\ DOMAIN <<>> = {}
    OBVIOUS
  <2>6. Carry(<<>>, columns, chunk_size, <<>>)
    <3>1. Concat(RowsOf(<<>>)) = <<>>
      BY <2>3, ConcatNone, Zenon
    <3> QED BY <2>5, <3>1, Zenon DEF Carry
  <2> HIDE DEF TakenRows
  <2> QED BY <2>1, <2>2, <2>4, <2>5, <2>6, Zenon DEF Holds
<1>6. ASSUME NEW i \in 1..n, Holds(g[i - 1], columns, chunk_size, TakenRows(i - 1))
      PROVE  Holds(g[i], columns, chunk_size, TakenRows(i))
  <2>1. PICK k \in 0..n : k = i - 1
    OBVIOUS
  <2>2. g[k].total = Taken(k)
    BY <1>4, <1>6, <2>1, Zenon DEF Holds
  <2>3. CASE max_rows > 0 /\ Taken(k) >= max_rows
    <3>1. Taken(k) = Taken(i)
      BY <2>1, <2>3
    <3>2. g[i] = g[k]
      BY <1>3, <2>1, <2>2, <2>3, Zenon
    <3> HIDE DEF Taken
    <3> QED BY <1>6, <2>1, <3>1, <3>2, Zenon
  <2>4. CASE ~(max_rows > 0 /\ Taken(k) >= max_rows)
    <3>1. Taken(i) = i /\ Taken(k) = i - 1
      BY <2>1, <2>4
    <3>2. result[i] \in R
      BY <1>1, SeqElement, Zenon
    <3>3. TakenRows(i) = Append(TakenRows(k), result[i])
      <4>1. SubSeq(result, 1, i) = Append(SubSeq(result, 1, i - 1), result[i])
        BY <1>1
      <4> HIDE DEF Taken
      <4> QED BY <3>1, <4>1, Zenon
    <3>4. g[i] = StreamRow(g[k], columns, result[i], chunk_size)
      <4> HIDE DEF Taken
      <4> QED BY <1>3, <2>1, <2>2, <2>4, Zenon
    <3>5. TakenRows(k) \in Seq(R) /\ g[k] \in States(R, columns)
      BY <1>3, <1>4, Zenon
    <3>6. PICK part \in Seq(R) : part = TakenRows(k)
      BY <3>5, Zenon
    <3> HIDE DEF TakenRows
    <3>7. Holds(g[k], columns, chunk_size, part)
      BY <1>6, <2>1, <3>6, Zenon
    <3>8. Holds(g[i], columns, chunk_size, Append(part, result[i]))
      BY <3>2, <3>4, <3>5, <3>7, <1>HoldsMore, Zenon
    <3> QED BY <3>3, <3>6, <3>8, Zenon
  <2> QED BY <2>3, <2>4, Zenon
<1>7. Holds(g[n], columns, chunk_size, TakenRows(n))
  <2> DEFINE T == {i \in 0..n : Holds(g[i], columns, chunk_size, TakenRows(i))}
  <2>1. 0 \in T /\ \A i \in 1..n : i - 1 \in T => i \in T
    BY <1>5, <1>6
  <2>2. \A i \in 0..n : i \in T
    <3> HIDE DEF T
    <3> QED BY <2>1, Upwards, Zenon
  <2>3. n \in 0..n
    OBVIOUS
  <2> QED BY <2>2, <2>3, Zenon
<1>8. PICK s \in States(R, columns) : s = g[n]
  <2>1. n \in 0..n
    OBVIOUS
  <2> QED BY <1>3, <2>1, Zenon
<1>9. PICK rows \in Seq(R) : rows = TakenRows(n) /\ Len(rows) = Taken(n)
  <2>1. n \in 0..n
    OBVIOUS
  <2> QED BY <1>4, <2>1, Zenon
<1>10. query(result, max_rows).rows = rows /\ query(result, max_rows).total_rows = Len(rows)
  <2>1. Taken(n) = IF max_rows > 0 /\ Len(result) > max_rows THEN max_rows ELSE Len(result)
    BY <1>1, Zenon
  <2>2. query(result, max_rows) = [rows |-> SubSeq(result, 1, Taken(n)), total_rows |-> Taken(n)]
    <3> HIDE DEF Taken
    <3> QED BY <2>1, Zenon DEF query
  <2> HIDE DEF Taken
  <2>3. PICK k : k = Taken(n) /\ rows = SubSeq(result, 1, k) /\ Len(rows) = k
    BY <1>9, Zenon
  <2>4. query(result, max_rows) = [rows |-> rows, total_rows |-> k]
    BY <2>2, <2>3, Zenon
  <2>5. query(result, max_rows).rows = rows /\ query(result, max_rows).total_rows = k
    BY <2>4
  <2> QED BY <2>3, <2>5, Zenon
<1> HIDE DEF Taken, TakenRows
<1>11. Holds(s, columns, chunk_size, rows)
  BY <1>7, <1>8, <1>9, Zenon
<1>12. PICK left \in Seq(R), flat \in Seq(R), sent \in Seq(ChunksOf(R, columns)), first \in BOOLEAN, total \in Nat :
         left = s.rows /\ flat = Flat(s) /\ sent = s.chunks /\ first = s.first /\ total = s.total
  BY <1>FlatTyped, Zenon DEF States
<1>13. /\ Carry(sent, columns, chunk_size, flat) /\ flat \o left = rows /\ total = Len(rows)
       /\ Len(left) < chunk_size /\ (first <=> sent = <<>>) /\ \A j \in DOMAIN sent : ~sent[j].is_last
  BY <1>11, <1>12, Zenon DEF Holds
<1>14. PICK yes \in BOOLEAN : yes = TRUE
  BY Zenon
<1>15. PICK cols \in {columns, <<>>} : cols = IF first THEN columns ELSE <<>>
  BY Zenon
<1>Last. PICK c : c = Chunk(cols, left, yes, total)
  BY Zenon
<1>16. /\ c \in ChunksOf(R, columns) /\ c.columns = cols /\ c.rows = left
       /\ (c.is_last <=> yes) /\ c.total_rows = total
  <2>1. HasFields(c, R, columns, cols, left, yes, total)
    BY <1>Last, <1>ChunkIs, Zenon
  <2> QED BY <2>1, Zenon DEF HasFields
<1> DEFINE chunks == stream_query_chunks(columns, result, max_rows, chunk_size)
<1>17. chunks = stream_query_chunks(columns, result, max_rows, chunk_size)
  BY Zenon
<1> HIDE DEF chunks
<1>18. chunks = Append(sent, c)
  <2>1. chunks = s.chunks \o FinalChunk(s, columns)
    BY <1>1, <1>2, <1>8, <1>17, Zenon DEF stream_query_chunks
  <2>2. FinalChunk(s, columns) = <<c>>
    BY <1>12, <1>14, <1>15, <1>Last, Zenon DEF FinalChunk
  <2>3. sent \o <<c>> = Append(sent, c)
    BY <1>16
  <2> QED BY <1>12, <2>1, <2>2, <2>3, Zenon
<1>19. PICK m \in Nat : m = Len(sent) /\ DOMAIN sent = 1..m
  OBVIOUS
<1>20. /\ chunks # <<>> /\ DOMAIN chunks = 1..(m + 1) /\ Len(chunks) = m + 1 /\ chunks[m + 1] = c
       /\ \A j \in 1..m : chunks[j] = sent[j]
  <2>1. c \in ChunksOf(R, columns)
    BY <1>16, Zenon
  <2>2. Len(chunks) = m + 1 /\ DOMAIN chunks = 1..(m + 1) /\ chunks[m + 1] = c
    BY <1>18, <1>19, <2>1
  <2>3. \A j \in 1..m : chunks[j] = sent[j]
    BY <1>18, <1>19, <2>1
  <2>4. chunks # <<>>
    BY <2>2
  <2> QED BY <2>2, <2>3, <2>4, Zenon
<1>21. Carry(chunks, columns, chunk_size, rows)
  <2>1. c.columns = IF sent = <<>> THEN columns ELSE <<>>
    BY <1>13, <1>15, <1>16, Zenon
  <2>2. Len(c.rows) <= chunk_size
    BY <1>13, <1>16
  <2>3. c.total_rows = Len(flat \o c.rows) /\ flat \o c.rows = rows
    BY <1>13, <1>16, Zenon
  <2>4. Carry(Append(sent, c), columns, chunk_size, flat \o c.rows)
    BY <1>13, <1>16, <2>1, <2>2, <2>3, <1>CarryMore, Zenon
  <2> QED BY <1>18, <2>3, <2>4, Zenon
<1>22. \A j \in 1..(m + 1) : chunks[j].is_last <=> j = m + 1
  <2>1. ASSUME NEW j \in 1..(m + 1), j # m + 1 PROVE ~chunks[j].is_last
    <3>1. j \in 1..m
      BY <2>1
    <3> QED BY <1>13, <1>19, <1>20, <3>1, Zenon
  <2>2. chunks[m + 1].is_last
    BY <1>14, <1>16, <1>20, Zenon
  <2> QED BY <2>1, <2>2, Zenon
<1>23. PICK upto : upto = Concats(RowsOf(chunks))
  BY Zenon
<1>24. /\ upto = Concats([j \in DOMAIN chunks |-> chunks[j].rows])
       /\ upto[Len(chunks)] = rows
       /\ \A j \in DOMAIN chunks : IsChunk(chunks[j], j, columns, chunk_size, upto)
  <2>1. chunks \in Seq(ChunksOf(R, columns))
    BY <1>16, <1>18, AppendTyped, Zenon
  <2>2. Len(RowsOf(chunks)) = Len(chunks)
    BY <2>1, <1>RowsOfTyped, Zenon
  <2>3. upto = Concats([j \in DOMAIN chunks |-> chunks[j].rows])
    BY <1>23, Zenon DEF RowsOf
  <2>4. Concat(RowsOf(chunks)) = rows
    BY <1>21, Zenon DEF Carry
  <2>5. upto[Len(chunks)] = rows
    BY <1>23, <2>2, <2>4, Zenon DEF Concat
  <2> QED BY <1>21, <1>23, <2>3, <2>5, Zenon DEF Carry
<1>25. chunks[Len(chunks)].total_rows = Len(rows)
  BY <1>13, <1>16, <1>20, Zenon
<1>26. ASSUME NEW j \in DOMAIN chunks
       PROVE  /\ chunks[j].columns = IF j = 1 THEN columns ELSE <<>>
              /\ chunks[j].is_last <=> j = Len(chunks)
              /\ chunks[j].total_rows = Len(upto[j])
              /\ Len(chunks[j].rows) <= chunk_size
  BY <1>20, <1>22, <1>24, Zenon DEF IsChunk
<1>27. /\ chunks # <<>>
       /\ Concats([j \in DOMAIN chunks |-> chunks[j].rows])[Len(chunks)] = query(result, max_rows).rows
       /\ \A i \in DOMAIN chunks :
            /\ chunks[i].columns = IF i = 1 THEN columns ELSE <<>>
            /\ chunks[i].is_last <=> i = Len(chunks)
            /\ chunks[i].total_rows = Len(Concats([j \in DOMAIN chunks |-> chunks[j].rows])[i])
            /\ Len(chunks[i].rows) <= chunk_size
       /\ chunks[Len(chunks)].total_rows = query(result, max_rows).total_rows
  BY <1>10, <1>20, <1>24, <1>25, <1>26, Zenon
<1> QED BY <1>27, Zenon DEF StreamAgreesWithQuery, chunks

(* What a reader of comma-separated lines has read, after every character, cell
   and line (print_delimited), and the JSON of every value (print_json). *)
LEMMA PrintedIsRead ==
  ASSUME WellOrdered
  PROVE  \A columns \in Seq(Seq(STRING)), rows \in Seq(Seq(Values)) :
           columns # <<>> /\ (\A r \in DOMAIN rows : Len(rows[r]) = Len(columns))
             => PrintedReadsBack(columns, rows)
<1> DEFINE
  Special == {"comma", "dq", "nl"}
  Chars == STRING \cup Special \cup {"null", "x'", "'"}
  Reader(m, f, r, all) == [mode |-> m, field |-> f, record |-> r, records |-> all]
  Turns(s, c, t) == ReadChar(s, c) = t
  (* Reading `text` leads the reader from s to t. *)
  Takes(text, s, t) ==
    \E g : /\ g[0] = s /\ g[Len(text)] = t
           /\ \A i \in 1..Len(text) : g[i] = ReadChar(g[i - 1], text[i])
<1> HIDE DEF Special, Reader, Turns, Takes, Chars
<1>Chars. "comma" \in Chars /\ "dq" \in Chars /\ "nl" \in Chars
  BY Zenon DEF Chars, Special

(* The reader takes one character. *)
<1>ReadPlain.
    ASSUME NEW m, NEW f, NEW r, NEW all, NEW c, m # "quoted", c \notin Special
    PROVE  Turns(Reader(m, f, r, all), c, Reader("plain", Append(f, c), r, all))
  <2> DEFINE s == Reader(m, f, r, all)
  <2>1. s = [mode |-> m, field |-> f, record |-> r, records |-> all] /\ s.mode = m /\ s.field = f
    BY <1>ReadPlain DEF Reader
  <2> HIDE DEF s
  <2>2. m # "quoted" /\ c # "comma" /\ c # "dq" /\ c # "nl"
    BY <1>ReadPlain DEF Special
  <2>3. ReadChar(s, c) = [s EXCEPT !.mode = "plain", !.field = Append(@, c)]
    BY <2>1, <2>2, Zenon DEF ReadChar
  <2>4. ReadChar(s, c) = [mode |-> "plain", field |-> Append(f, c), record |-> r, records |-> all]
    BY <2>1, <2>3, Zenon
  <2> QED BY <2>4, Zenon DEF Reader, Turns, s
<1>ReadOpening.
    ASSUME NEW f, NEW r, NEW all
    PROVE  ReadChar(Reader("start", f, r, all), "dq") = Reader("quoted", f, r, all)
  <2> DEFINE s == Reader("start", f, r, all)
  <2>1. s = [mode |-> "start", field |-> f, record |-> r, records |-> all] /\ s.mode = "start"
    BY DEF Reader
  <2> HIDE DEF s
  <2>2. ReadChar(s, "dq") = [s EXCEPT !.mode = "quoted"]
    BY <2>1, Zenon DEF ReadChar
  <2>3. ReadChar(s, "dq") = [mode |-> "quoted", field |-> f, record |-> r, records |-> all]
    BY <2>1, <2>2, Zenon
  <2> QED BY <2>3, Zenon DEF Reader, s
<1>ReadQuoted.
    ASSUME NEW f, NEW r, NEW all, NEW c, c # "dq"
    PROVE  ReadChar(Reader("quoted", f, r, all), c) = Reader("quoted", Append(f, c), r, all)
  <2> DEFINE s == Reader("quoted", f, r, all)
  <2>1. s = [mode |-> "quoted", field |-> f, record |-> r, records |-> all] /\ s.mode = "quoted" /\ s.field = f
    BY <1>ReadQuoted DEF Reader
  <2> HIDE DEF s
  <2>2. ReadChar(s, c) = [s EXCEPT !.field = Append(@, c)]
    BY <1>ReadQuoted, <2>1, Zenon DEF ReadChar
  <2>3. ReadChar(s, c) = [mode |-> "quoted", field |-> Append(f, c), record |-> r, records |-> all]
    BY <2>1, <2>2, Zenon
  <2> QED BY <2>3, Zenon DEF Reader, s
<1>ReadQuote.
    ASSUME NEW f, NEW r, NEW all
    PROVE  ReadChar(Reader("quoted", f, r, all), "dq") = Reader("closing", f, r, all)
  <2> DEFINE s == Reader("quoted", f, r, all)
  <2>1. s = [mode |-> "quoted", field |-> f, record |-> r, records |-> all] /\ s.mode = "quoted"
    BY DEF Reader
  <2> HIDE DEF s
  <2>2. ReadChar(s, "dq") = [s EXCEPT !.mode = "closing"]
    BY <2>1, Zenon DEF ReadChar
  <2>3. ReadChar(s, "dq") = [mode |-> "closing", field |-> f, record |-> r, records |-> all]
    BY <2>1, <2>2, Zenon
  <2> QED BY <2>3, Zenon DEF Reader, s
<1>ReadDoubled.
    ASSUME NEW f, NEW r, NEW all
    PROVE  ReadChar(Reader("closing", f, r, all), "dq") = Reader("quoted", Append(f, "dq"), r, all)
  <2> DEFINE s == Reader("closing", f, r, all)
  <2>1. s = [mode |-> "closing", field |-> f, record |-> r, records |-> all] /\ s.mode = "closing" /\ s.field = f
    BY DEF Reader
  <2> HIDE DEF s
  <2>2. ReadChar(s, "dq") = [s EXCEPT !.mode = "quoted", !.field = Append(@, "dq")]
    BY <2>1, Zenon DEF ReadChar
  <2>3. ReadChar(s, "dq") = [mode |-> "quoted", field |-> Append(f, "dq"), record |-> r, records |-> all]
    BY <2>1, <2>2, Zenon
  <2> QED BY <2>3, Zenon DEF Reader, s
<1>ReadComma.
    ASSUME NEW m, NEW f, NEW r, NEW all, m # "quoted"
    PROVE  Turns(Reader(m, f, r, all), "comma", Reader("start", <<>>, Append(r, f), all))
  <2> DEFINE s == Reader(m, f, r, all)
  <2>1. s = [mode |-> m, field |-> f, record |-> r, records |-> all] /\ s.mode = m /\ s.field = f
    BY <1>ReadComma DEF Reader
  <2> HIDE DEF s
  <2>2. ReadChar(s, "comma") = [s EXCEPT !.mode = "start", !.record = Append(@, s.field), !.field = <<>>]
    BY <1>ReadComma, <2>1, Zenon DEF ReadChar
  <2>3. ReadChar(s, "comma") = [mode |-> "start", field |-> <<>>, record |-> Append(r, f), records |-> all]
    BY <2>1, <2>2, Zenon
  <2> QED BY <2>3, Zenon DEF Reader, Turns, s
<1>ReadEnd.
    ASSUME NEW m, NEW f, NEW r, NEW all, m # "quoted"
    PROVE  ReadChar(Reader(m, f, r, all), "nl") = Reader("start", <<>>, <<>>, Append(all, Append(r, f)))
  <2> DEFINE s == Reader(m, f, r, all)
  <2>1. /\ s = [mode |-> m, field |-> f, record |-> r, records |-> all]
        /\ s.mode = m /\ s.field = f /\ s.record = r
    BY <1>ReadEnd DEF Reader
  <2> HIDE DEF s
  <2>2. ReadChar(s, "nl") = [s EXCEPT !.mode = "start", !.records = Append(@, Append(s.record, s.field)),
                                      !.record = <<>>, !.field = <<>>]
    BY <1>ReadEnd, <2>1, Zenon DEF ReadChar
  <2>3. ReadChar(s, "nl") = [mode |-> "start", field |-> <<>>, record |-> <<>>, records |-> Append(all, Append(r, f))]
    BY <2>1, <2>2, Zenon
  <2> QED BY <2>3, Zenon DEF Reader, s

(* The reader takes a text. *)
<1>TakesNone.
    ASSUME NEW s PROVE Takes(<<>>, s, s)
  <2>1. PICK g : g = [i \in {0} |-> s]
    BY Zenon
  <2>2. g[0] = s /\ Len(<<>>) = 0 /\ 1..0 = {}
    BY <2>1
  <2> QED BY <2>2, Zenon DEF Takes
<1>TakesOne.
    ASSUME NEW s, NEW c, NEW t, t = ReadChar(s, c) PROVE Takes(<<c>>, s, t)
  <2>1. PICK g : g = [i \in 0..1 |-> IF i = 0 THEN s ELSE t]
    BY Zenon
  <2>2. g[0] = s /\ g[1] = t
    BY <2>1
  <2>3. Len(<<c>>) = 1 /\ <<c>>[1] = c
    OBVIOUS
  <2>4. ASSUME NEW i \in 1..1 PROVE i = 1 /\ i - 1 = 0
    OBVIOUS
  <2> QED BY <1>TakesOne, <2>2, <2>3, <2>4, Zenon DEF Takes
<1>TakesJoin.
    ASSUME NEW A, NEW a \in Seq(A), NEW b \in Seq(A), NEW s, NEW t, NEW u, Takes(a, s, t), Takes(b, t, u)
    PROVE  Takes(a \o b, s, u)
  <2>1. PICK m \in Nat, n \in Nat : m = Len(a) /\ n = Len(b)
    BY LenTyped, Zenon
  <2>2. PICK f : f[0] = s /\ f[m] = t /\ \A i \in 1..m : f[i] = ReadChar(f[i - 1], a[i])
    BY <1>TakesJoin, <2>1, Zenon DEF Takes
  <2>3. PICK h : h[0] = t /\ h[n] = u /\ \A i \in 1..n : h[i] = ReadChar(h[i - 1], b[i])
    BY <1>TakesJoin, <2>1, Zenon DEF Takes
  <2>4. PICK ab : ab = a \o b
    BY Zenon
  <2>5. Len(ab) = m + n /\ (\A i \in 1..m : ab[i] = a[i]) /\ \A i \in 1..n : ab[m + i] = b[i]
    BY <2>1, <2>4
  <2>6. PICK g : g = [i \in 0..(m + n) |-> IF i <= m THEN f[i] ELSE h[i - m]]
    BY Zenon
  <2>7. (\A i \in 0..m : g[i] = f[i]) /\ \A i \in 1..n : g[m + i] = h[i]
    <3>1. ASSUME NEW i \in 0..m PROVE g[i] = f[i]
      <4>1. i \in 0..(m + n) /\ i <= m
        OBVIOUS
      <4> QED BY <2>6, <4>1, Zenon
    <3>2. ASSUME NEW i \in 1..n PROVE g[m + i] = h[i]
      <4>1. PICK k \in 0..(m + n) : k = m + i /\ ~(k <= m) /\ k - m = i
        OBVIOUS
      <4> QED BY <2>6, <4>1, Zenon
    <3> QED BY <3>1, <3>2, Zenon
  <2>8. \A i \in 0..n : g[m + i] = h[i]
    <3>1. g[m] = h[0]
      <4>1. m \in 0..m
        OBVIOUS
      <4> QED BY <2>2, <2>3, <2>7, <4>1, Zenon
    <3> QED BY <2>7, <3>1
  <2>9. g[0] = s /\ g[m + n] = u
    <3>1. 0 \in 0..m /\ n \in 0..n
      OBVIOUS
    <3> QED BY <2>2, <2>3, <2>7, <2>8, <3>1, Zenon
  <2>10. ASSUME NEW i \in 1..(m + n) PROVE g[i] = ReadChar(g[i - 1], ab[i])
    <3>1. CASE i <= m
      <4>1. i \in 1..m /\ i \in 0..m /\ i - 1 \in 0..m
        BY <3>1
      <4> QED BY <2>2, <2>5, <2>7, <4>1, Zenon
    <3>2. CASE ~(i <= m)
      <4>1. PICK j \in 1..n : j = i - m
        BY <3>2
      <4>2. j \in 0..n /\ j - 1 \in 0..n /\ i = m + j /\ i - 1 = m + (j - 1)
        BY <4>1
      <4>3. g[i] = h[j] /\ g[i - 1] = h[j - 1] /\ ab[i] = b[j]
        BY <2>5, <2>8, <4>2, Zenon
      <4> QED BY <2>3, <4>3, Zenon
    <3> QED BY <3>1, <3>2, Zenon
  <2>11. Takes(ab, s, u)
    BY <2>5, <2>9, <2>10, Zenon DEF Takes
  <2> QED BY <2>4, <2>11, Zenon
<1>TakesConcat.
    ASSUME NEW A, NEW parts \in Seq(Seq(A)), NEW n \in Nat, n = Len(parts), NEW h,
           \A i \in 1..n : Takes(parts[i], h[i - 1], h[i])
    PROVE  Takes(Concat(parts), h[0], h[n])
  <2>1. PICK upto : upto = Concats(parts)
    BY Zenon
  <2>2. /\ upto[0] = <<>> /\ (\A i \in 1..n : upto[i] = upto[i - 1] \o parts[i])
        /\ \A i \in 0..n : upto[i] \in Seq(A)
    BY <1>TakesConcat, <2>1, ConcatsIs, Zenon
  <2> DEFINE T == {i \in 0..n : Takes(upto[i], h[0], h[i])}
  <2>3. 0 \in T
    <3>1. 0 \in 0..n
      OBVIOUS
    <3> QED BY <2>2, <3>1, <1>TakesNone, Zenon
  <2>4. ASSUME NEW i \in 1..n, i - 1 \in T PROVE i \in T
    <3>1. PICK k \in 0..n : k = i - 1
      OBVIOUS
    <3>2. PICK a \in Seq(A), b \in Seq(A) : a = upto[k] /\ b = parts[i]
      <4>1. parts[i] \in Seq(A)
        BY <1>TakesConcat, SeqElement, Zenon
      <4> QED BY <2>2, <4>1, Zenon
    <3>3. Takes(a, h[0], h[k]) /\ Takes(b, h[k], h[i])
      BY <1>TakesConcat, <2>4, <3>1, <3>2, Zenon
    <3>4. Takes(a \o b, h[0], h[i])
      BY <3>3, <1>TakesJoin, Zenon
    <3>5. upto[i] = a \o b /\ i \in 0..n
      <4>1. i \in 0..n
        OBVIOUS
      <4> QED BY <2>2, <3>1, <3>2, <4>1, Zenon
    <3> QED BY <3>4, <3>5, Zenon
  <2>5. \A i \in 0..n : i \in T
    <3> HIDE DEF T
    <3> QED BY <2>3, <2>4, Upwards, Zenon
  <2>6. n \in 0..n
    OBVIOUS
  <2> QED BY <1>TakesConcat, <2>1, <2>5, <2>6, Zenon DEF Concat
<1>TakesAll.
    ASSUME NEW A, NEW text \in Seq(A), NEW all, NEW none, none = Reader("start", <<>>, <<>>, <<>>),
           Takes(text, none, Reader("start", <<>>, <<>>, all))
    PROVE  ReadCsv(text) = all
  <2>1. PICK n \in Nat : n = Len(text)
    BY LenTyped, Zenon
  <2>2. PICK g : /\ g[0] = none /\ g[n] = Reader("start", <<>>, <<>>, all)
                 /\ \A i \in 1..n : g[i] = ReadChar(g[i - 1], text[i])
    BY <1>TakesAll, <2>1, Zenon DEF Takes
  <2> DEFINE Step(f) == [i \in 0..n |-> IF i = 0 THEN none ELSE ReadChar(f[i - 1], text[i])]
  <2>3. PICK f : f = [i \in 0..n |-> g[i]]
    BY Zenon
  <2>4. f = Step(f)
    <3>1. \A i \in 0..n : f[i] = g[i]
      BY <2>3, Zenon
    <3>2. ASSUME NEW i \in 0..n PROVE g[i] = IF i = 0 THEN none ELSE ReadChar(f[i - 1], text[i])
      <4>1. CASE i = 0
        BY <2>2, <4>1, Zenon
      <4>2. CASE i # 0
        <5>1. i \in 1..n /\ i - 1 \in 0..n
          BY <4>2
        <5> QED BY <2>2, <3>1, <4>2, <5>1, Zenon
      <4> QED BY <4>1, <4>2, Zenon
    <3> QED BY <2>3, <3>2, Zenon
  <2>5. PICK r : r = Reading(text)
    BY Zenon
  <2>6. none = [mode |-> "start", field |-> <<>>, record |-> <<>>, records |-> <<>>]
    BY <1>TakesAll, Zenon DEF Reader
  <2>7. r = CHOOSE h : h = Step(h)
    BY <2>1, <2>5, <2>6, Zenon DEF Reading
  <2>8. r = Step(r)
    BY <2>4, <2>7, Zenon
  <2>9. r[0] = none /\ \A i \in 1..n : r[i] = ReadChar(r[i - 1], text[i])
    BY <2>8
  <2> DEFINE T == {i \in 0..n : r[i] = g[i]}
  <2>10. 0 \in T
    <3>1. 0 \in 0..n
      OBVIOUS
    <3> QED BY <2>2, <2>9, <3>1, Zenon
  <2>11. ASSUME NEW i \in 1..n, i - 1 \in T PROVE i \in T
    <3>1. i \in 0..n
      OBVIOUS
    <3> QED BY <2>2, <2>9, <2>11, <3>1, Zenon
  <2>12. \A i \in 0..n : i \in T
    <3> HIDE DEF T
    <3> QED BY <2>10, <2>11, Upwards, Zenon
  <2>13. r[n] = Reader("start", <<>>, <<>>, all)
    <3>1. n \in 0..n
      OBVIOUS
    <3> QED BY <2>2, <2>12, <3>1, Zenon
  <2>14. r[n].records = all
    BY <2>13 DEF Reader
  <2> QED BY <2>1, <2>5, <2>14, Zenon DEF ReadCsv


<1>One.
    ASSUME NEW A, NEW c \in A PROVE <<c>> \in Seq(A) /\ <<c, c>> \in Seq(A) /\ <<c>> \o <<c>> = <<c, c>>
  <2>1. <<c>> \in Seq(A)
    OBVIOUS
  <2>2. <<c, c>> \in Seq(A)
    OBVIOUS
  <2>3. PICK one \in Seq(A), two \in Seq(A) : one = <<c>> /\ two = <<c, c>>
    BY <2>1, <2>2, Zenon
  <2>5. Len(two) = 2 /\ two[1] = c /\ two[2] = c
    BY <2>3
  <2>6. PICK both \in Seq(A) : both = one \o one
    BY JoinIs, Zenon
  <2>7. Len(both) = 2 /\ both[1] = c /\ both[2] = c
    <3>1. Len(<<c>> \o <<c>>) = 2
      OBVIOUS
    <3>2. (<<c>> \o <<c>>)[1] = c
      OBVIOUS
    <3>3. (<<c>> \o <<c>>)[2] = c
      OBVIOUS
    <3> QED BY <2>3, <2>6, <3>1, <3>2, <3>3, Zenon
  <2>8. both = two
    BY <2>5, <2>7
  <2> QED BY <2>3, <2>6, <2>8, Zenon
<1>Single.
    ASSUME NEW A, NEW c \in A, NEW b \in Seq(A)
    PROVE  <<c>> \o <<>> = Append(<<>>, c) /\ SubSeq(b, 1, 0) = <<>> /\ SubSeq(b, 1, Len(b)) = b
  OBVIOUS
<1>Longer.
    ASSUME NEW A, NEW s \in Seq(A), NEW i \in 1..Len(s), NEW k, k = i - 1
    PROVE  Append(SubSeq(s, 1, k), s[i]) = SubSeq(s, 1, i)
  BY <1>Longer

(* The reader takes a cell, quoted where it has to be. *)
<1> DEFINE
  Quotes(w) == [i \in DOMAIN w |-> IF w[i] = "dq" THEN <<"dq", "dq">> ELSE <<w[i]>>]
  Quoted(w) == Range(w) \cap Special # {}
  Shown(w) == IF Quoted(w) THEN <<"dq">> \o Concat(Quotes(w)) \o <<"dq">> ELSE w
  End(w) == IF Quoted(w) THEN "closing" ELSE IF w = <<>> THEN "start" ELSE "plain"
  CellTaken(w, r, all) == Takes(Shown(w), Reader("start", <<>>, r, all), Reader(End(w), w, r, all))
<1> HIDE DEF Quotes, Quoted, Shown, End, CellTaken

<1>CellRead.
    ASSUME NEW w \in Seq(Chars), NEW r, NEW all
    PROVE  Shown(w) \in Seq(Chars) /\ CellTaken(w, r, all)
  <2>1. PICK n \in Nat : n = Len(w) /\ DOMAIN w = 1..n /\ SubSeq(w, 1, 0) = <<>> /\ SubSeq(w, 1, n) = w
    OBVIOUS
  <2>2. PICK s : s = Reader("start", <<>>, r, all)
    BY Zenon
  <2>3. CASE Quoted(w)
    <3>1. PICK q : q = Quotes(w)
      BY Zenon
    <3>2. PICK one \in Seq(Chars), two \in Seq(Chars) : one = <<"dq">> /\ two = <<"dq", "dq">> /\ two = one \o one
      <4>1. PICK c \in Chars : c = "dq"
        BY <1>Chars, Zenon
      <4> QED BY <4>1, <1>One, Zenon
    <3>3. q = [i \in 1..n |-> IF w[i] = "dq" THEN two ELSE <<w[i]>>]
      BY <2>1, <3>1, <3>2, Zenon DEF Quotes
    <3>4. q \in Seq(Seq(Chars)) /\ Len(q) = n
      <4>1. ASSUME NEW i \in 1..n PROVE <<w[i]>> \in Seq(Chars)
        BY <2>1
      <4>2. q \in [1..n -> Seq(Chars)]
        BY <3>3, <4>1, Zenon
      <4> QED BY <4>2, SeqFrom, Zenon
    <3>5. PICK h : h = [i \in 0..n |-> Reader("quoted", SubSeq(w, 1, i), r, all)]
      BY Zenon
    <3>6. ASSUME NEW i \in 1..n PROVE Takes(q[i], h[i - 1], h[i])
      <4>1. PICK k \in 0..n : k = i - 1
        OBVIOUS
      <4>2. PICK f, c : f = SubSeq(w, 1, k) /\ c = w[i]
        BY Zenon
      <4>3. Append(f, c) = SubSeq(w, 1, i)
        BY <2>1, <4>1, <4>2, <1>Longer, Zenon
      <4>4. h[k] = Reader("quoted", f, r, all) /\ h[i] = Reader("quoted", Append(f, c), r, all)
        <5>1. i \in 0..n
          OBVIOUS
        <5> QED BY <3>5, <4>2, <4>3, <5>1, Zenon
      <4>5. CASE c = "dq"
        <5>1. q[i] = one \o one
          BY <3>2, <3>3, <4>2, <4>5, Zenon
        <5>2. PICK m : m = Reader("closing", f, r, all)
          BY Zenon
        <5>3. m = ReadChar(h[k], "dq")
          <6>1. PICK a : a = h[k] /\ a = Reader("quoted", f, r, all)
            BY <4>4, Zenon
          <6>2. ReadChar(Reader("quoted", f, r, all), "dq") = m
            BY <5>2, <1>ReadQuote, Zenon
          <6> QED BY <6>1, <6>2, Zenon
        <5>4. h[i] = ReadChar(m, "dq")
          <6>1. ReadChar(Reader("closing", f, r, all), "dq") = Reader("quoted", Append(f, "dq"), r, all)
            BY <1>ReadDoubled, Zenon
          <6> QED BY <4>4, <4>5, <5>2, <6>1, Zenon
        <5>5. Takes(one, h[k], m) /\ Takes(one, m, h[i])
          BY <3>2, <5>3, <5>4, <1>TakesOne, Zenon
        <5>6. Takes(one \o one, h[k], h[i])
          BY <5>5, <1>TakesJoin, Zenon
        <5> QED BY <4>1, <5>1, <5>6, Zenon
      <4>6. CASE c # "dq"
        <5>1. q[i] = <<c>>
          BY <3>3, <4>2, <4>6, Zenon
        <5>2. h[i] = ReadChar(h[k], c)
          <6>1. PICK a : a = h[k] /\ a = Reader("quoted", f, r, all)
            BY <4>4, Zenon
          <6>2. ReadChar(Reader("quoted", f, r, all), c) = Reader("quoted", Append(f, c), r, all)
            BY <4>6, <1>ReadQuoted, Zenon
          <6> QED BY <4>4, <6>1, <6>2, Zenon
        <5> QED BY <4>1, <5>1, <5>2, <1>TakesOne, Zenon
      <4> QED BY <4>5, <4>6, Zenon
    <3>7. PICK text \in Seq(Chars) : text = Concat(q)
      <4>1. <<>> \in Seq(Chars)
        OBVIOUS
      <4> QED BY <3>4, <4>1, ConcatAppend, Zenon
    <3>8. Takes(text, h[0], h[n])
      BY <3>4, <3>6, <3>7, <1>TakesConcat, Zenon
    <3>9. h[0] = Reader("quoted", <<>>, r, all) /\ h[n] = Reader("quoted", w, r, all)
      <4>1. 0 \in 0..n /\ n \in 0..n
        OBVIOUS
      <4> QED BY <2>1, <3>5, <4>1, Zenon
    <3>10. PICK e : e = Reader("closing", w, r, all)
      BY Zenon
    <3>11. Takes(one, s, h[0]) /\ Takes(one, h[n], e)
      <4>1. h[0] = ReadChar(s, "dq")
        BY <2>2, <3>9, <1>ReadOpening, Zenon
      <4>2. e = ReadChar(h[n], "dq")
        BY <3>9, <3>10, <1>ReadQuote, Zenon
      <4> QED BY <3>2, <4>1, <4>2, <1>TakesOne, Zenon
    <3>12. PICK opened \in Seq(Chars) : opened = one \o text
      BY JoinIs, Zenon
    <3>13. Takes(opened, s, h[n])
      BY <3>8, <3>11, <3>12, <1>TakesJoin, Zenon
    <3>14. Takes(opened \o one, s, e) /\ opened \o one \in Seq(Chars)
      BY <3>11, <3>13, <1>TakesJoin, JoinIs, Zenon
    <3>15. Shown(w) = opened \o one /\ End(w) = "closing"
      BY <2>3, <3>1, <3>2, <3>7, <3>12, Zenon DEF Shown, End
    <3> QED BY <2>2, <3>10, <3>14, <3>15, Zenon DEF CellTaken
  <2>4. CASE ~Quoted(w)
    <3>1. Shown(w) = w
      BY <2>4, Zenon DEF Shown
    <3>2. ASSUME NEW i \in 1..n PROVE w[i] \notin Special
      BY <2>1, <2>4, Zenon DEF Quoted, Range
    <3>3. PICK h : h = [i \in 0..n |-> IF i = 0 THEN s ELSE Reader("plain", SubSeq(w, 1, i), r, all)]
      BY Zenon
    <3>4. ASSUME NEW i \in 1..n PROVE h[i] = ReadChar(h[i - 1], w[i])
      <4>1. PICK k \in 0..n : k = i - 1
        OBVIOUS
      <4>2. PICK f, c : f = SubSeq(w, 1, k) /\ c = w[i]
        BY Zenon
      <4>3. Append(f, c) = SubSeq(w, 1, i)
        BY <2>1, <4>1, <4>2, <1>Longer, Zenon
      <4>4. h[i] = Reader("plain", Append(f, c), r, all)
        <5>1. i \in 0..n /\ i # 0
          OBVIOUS
        <5> QED BY <3>3, <4>3, <5>1, Zenon
      <4>5. PICK m \in {"start", "plain"} : h[k] = Reader(m, f, r, all)
        <5>1. CASE k = 0
          BY <2>1, <2>2, <3>3, <4>2, <5>1, Zenon
        <5>2. CASE k # 0
          BY <3>3, <4>2, <5>2, Zenon
        <5> QED BY <5>1, <5>2, Zenon
      <4>6. ReadChar(h[k], c) = Reader("plain", Append(f, c), r, all)
        <5>2. c \notin Special
          BY <3>2, <4>2, Zenon
        <5>3. Turns(Reader(m, f, r, all), c, Reader("plain", Append(f, c), r, all))
          <6>1. m # "quoted"
            BY <4>5, Zenon
          <6> QED BY <5>2, <6>1, <1>ReadPlain, Zenon
        <5> QED BY <4>5, <5>3, Zenon DEF Turns
      <4> QED BY <4>1, <4>2, <4>4, <4>6, Zenon
    <3>5. h[0] = s /\ h[n] = Reader(End(w), w, r, all)
      <4>1. 0 \in 0..n /\ n \in 0..n /\ (w = <<>> <=> n = 0)
        BY <2>1
      <4>2. CASE n = 0
        <5>1. End(w) = "start" /\ w = <<>>
          BY <2>4, <4>1, <4>2, Zenon DEF End
        <5> QED BY <2>2, <3>3, <4>1, <4>2, <5>1, Zenon
      <4>3. CASE n # 0
        <5>1. End(w) = "plain"
          BY <2>4, <4>1, <4>3, Zenon DEF End
        <5> QED BY <2>1, <3>3, <4>1, <4>3, <5>1, Zenon
      <4> QED BY <4>2, <4>3, Zenon
    <3>6. Takes(w, s, Reader(End(w), w, r, all))
      BY <2>1, <3>4, <3>5, Zenon DEF Takes
    <3> QED BY <2>2, <3>1, <3>6, Zenon DEF CellTaken
  <2> QED BY <2>3, <2>4, Zenon

(* The reader takes a line. *)
<1> DEFINE
  PrintedLine(ws) == Joined([i \in DOMAIN ws |-> Shown(ws[i])], "comma") \o <<"nl">>
  LineTaken(ws, all) ==
    Takes(PrintedLine(ws), Reader("start", <<>>, <<>>, all), Reader("start", <<>>, <<>>, Append(all, ws)))
<1> HIDE DEF PrintedLine, LineTaken

<1>LineRead.
    ASSUME NEW ws \in Seq(Seq(Chars)), ws # <<>>, NEW all
    PROVE  PrintedLine(ws) \in Seq(Chars) /\ LineTaken(ws, all)
  <2>1. PICK n \in Nat : n = Len(ws) /\ DOMAIN ws = 1..n /\ n # 0 /\ SubSeq(ws, 1, 0) = <<>> /\ SubSeq(ws, 1, n) = ws
    BY <1>LineRead
  <2>2. \A i \in 1..n : ws[i] \in Seq(Chars)
    BY <2>1, SeqElement, Zenon
  <2>3. PICK cells : cells = [i \in 1..n |-> Shown(ws[i])]
    BY Zenon
  <2>4. PICK comma \in Seq(Chars), nl \in Seq(Chars) : comma = <<"comma">> /\ nl = <<"nl">>
    BY <1>Chars, <1>One, Zenon
  <2>5. PICK parts : parts = [i \in 1..n |-> IF i = 1 THEN cells[i] ELSE comma \o cells[i]]
    BY Zenon
  <2>6. \A i \in 1..n : cells[i] = Shown(ws[i]) /\ cells[i] \in Seq(Chars)
    BY <2>2, <2>3, <1>CellRead, Zenon
  <2>7. parts \in Seq(Seq(Chars)) /\ Len(parts) = n
    <3>1. ASSUME NEW i \in 1..n PROVE comma \o cells[i] \in Seq(Chars)
      <4>1. PICK cell \in Seq(Chars) : cell = cells[i]
        BY <2>6, Zenon
      <4> QED BY <4>1, JoinIs, Zenon
    <3>2. parts \in [1..n -> Seq(Chars)]
      BY <2>5, <2>6, <3>1, Zenon
    <3> QED BY <3>2, SeqFrom, Zenon
  <2>8. PICK s : s = Reader("start", <<>>, <<>>, all)
    BY Zenon
  <2>9. PICK h : h = [i \in 0..n |-> IF i = 0 THEN s ELSE Reader(End(ws[i]), ws[i], SubSeq(ws, 1, i - 1), all)]
    BY Zenon
  <2>10. h[0] = s /\ \A i \in 1..n : h[i] = Reader(End(ws[i]), ws[i], SubSeq(ws, 1, i - 1), all)
    BY <2>9
  <2>11. \A i \in 1..n : End(ws[i]) # "quoted"
    BY Zenon DEF End
  <2>12. ASSUME NEW i \in 1..n PROVE Takes(parts[i], h[i - 1], h[i])
    <3>1. PICK w \in Seq(Chars), cell \in Seq(Chars) : w = ws[i] /\ cell = Shown(w) /\ cell = cells[i]
      BY <2>2, <2>6, Zenon
    <3>2. PICK r : r = SubSeq(ws, 1, i - 1)
      BY Zenon
    <3>3. Takes(cell, Reader("start", <<>>, r, all), h[i])
      <4>1. CellTaken(w, r, all)
        BY <1>CellRead, Zenon
      <4>2. h[i] = Reader(End(w), w, r, all)
        BY <2>10, <3>1, <3>2, Zenon
      <4> QED BY <3>1, <4>1, <4>2, Zenon DEF CellTaken
    <3>4. CASE i = 1
      <4>1. i - 1 = 0 /\ r = <<>>
        <5>1. i - 1 = 0
          BY <3>4
        <5> QED BY <2>1, <3>2, <5>1, Zenon
      <4>2. parts[i] = cell /\ h[0] = Reader("start", <<>>, r, all)
        BY <2>5, <2>8, <2>10, <3>1, <3>4, <4>1, Zenon
      <4> QED BY <3>3, <4>1, <4>2, Zenon
    <3>5. CASE i # 1
      <4>1. PICK k \in 1..n : k = i - 1
        BY <3>5
      <4>2. PICK q : q = SubSeq(ws, 1, k - 1)
        BY Zenon
      <4>3. PICK v, m : v = ws[k] /\ m = End(v)
        BY Zenon
      <4>m. m # "quoted"
        BY <2>11, <4>3, Zenon
      <4>4. PICK a : a = h[k] /\ a = Reader(m, v, q, all)
        BY <2>10, <4>2, <4>3, Zenon
      <4>5. Append(q, v) = r
        <5>1. k \in 1..Len(ws)
          BY <2>1, Zenon
        <5>2. Append(SubSeq(ws, 1, k - 1), ws[k]) = SubSeq(ws, 1, k)
          BY <5>1, <1>Longer, Zenon
        <5> QED BY <3>2, <4>1, <4>2, <4>3, <5>2, Zenon
      <4>6. PICK b : b = Reader("start", <<>>, r, all)
        BY Zenon
      <4>7. Turns(Reader(m, v, q, all), "comma", Reader("start", <<>>, Append(q, v), all))
        BY <4>m, <1>ReadComma, Zenon
      <4>8. b = ReadChar(a, "comma")
        BY <4>4, <4>5, <4>6, <4>7, Zenon DEF Turns
      <4>9. Takes(comma, a, b)
        BY <2>4, <4>8, <1>TakesOne, Zenon
      <4>10. Takes(cell, b, h[i])
        BY <3>3, <4>6, Zenon
      <4>11. Takes(comma \o cell, a, h[i])
        BY <4>9, <4>10, <1>TakesJoin, Zenon
      <4>12. parts[i] = comma \o cell
        BY <2>5, <3>1, <3>5, Zenon
      <4> QED BY <4>1, <4>4, <4>11, <4>12, Zenon
    <3> QED BY <3>4, <3>5, Zenon
  <2>13. PICK text \in Seq(Chars) : text = Concat(parts)
    <3>1. <<>> \in Seq(Chars)
      OBVIOUS
    <3> QED BY <2>7, <3>1, ConcatAppend, Zenon
  <2>14. Takes(text, s, h[n])
    BY <2>7, <2>10, <2>12, <2>13, <1>TakesConcat, Zenon
  <2>15. PICK e : e = Reader("start", <<>>, <<>>, Append(all, ws))
    BY Zenon
  <2>16. e = ReadChar(h[n], "nl")
    <3>1. PICK w, r, m : w = ws[n] /\ r = SubSeq(ws, 1, n - 1) /\ m = End(w)
      BY Zenon
    <3>2. n \in 1..n /\ n \in 1..Len(ws)
      BY <2>1
    <3>3. m # "quoted"
      BY <2>11, <3>1, <3>2, Zenon
    <3>4. PICK a : a = h[n] /\ a = Reader(m, w, r, all)
      BY <2>10, <3>1, <3>2, Zenon
    <3>5. Append(r, w) = ws
      <4>1. Append(SubSeq(ws, 1, n - 1), ws[n]) = SubSeq(ws, 1, n)
        BY <3>2, <1>Longer, Zenon
      <4> QED BY <2>1, <3>1, <4>1, Zenon
    <3>6. ReadChar(Reader(m, w, r, all), "nl") = Reader("start", <<>>, <<>>, Append(all, Append(r, w)))
      BY <3>3, <1>ReadEnd, Zenon
    <3> QED BY <2>15, <3>4, <3>5, <3>6, Zenon
  <2>17. Takes(nl, h[n], e)
    BY <2>4, <2>16, <1>TakesOne, Zenon
  <2>18. Takes(text \o nl, s, e) /\ text \o nl \in Seq(Chars)
    BY <2>14, <2>17, <1>TakesJoin, JoinIs, Zenon
  <2>19. PrintedLine(ws) = text \o nl
    <3>1. cells = [i \in DOMAIN ws |-> Shown(ws[i])] /\ DOMAIN cells = 1..n
      BY <2>1, <2>3, Zenon
    <3>2. Joined(cells, "comma") = text
      BY <2>4, <2>5, <2>13, <3>1, Zenon DEF Joined
    <3> QED BY <2>4, <3>1, <3>2, Zenon DEF PrintedLine
  <2> QED BY <2>8, <2>15, <2>18, <2>19, Zenon DEF LineTaken

(* The reader takes the lines of a table. *)
<1> DEFINE ReadsAs(names, table, lines) == ReadCsv(PrintedLine(names) \o Concat(lines)) = <<names>> \o table
<1> HIDE DEF ReadsAs

<1>TableRead.
    ASSUME NEW table \in Seq(Seq(Seq(Chars)) \ {<<>>}), NEW n \in Nat, n = Len(table),
           NEW names \in Seq(Seq(Chars)), names # <<>>, NEW lines, lines = [i \in 1..n |-> PrintedLine(table[i])]
    PROVE  ReadsAs(names, table, lines)
  <2>1. \A i \in 1..n : table[i] \in Seq(Seq(Chars)) /\ table[i] # <<>>
    <3>1. \A i \in 1..n : table[i] \in Seq(Seq(Chars)) \ {<<>>}
      BY <1>TableRead, SeqElement, Zenon
    <3> QED BY <3>1, Zenon
  <2>2. \A i \in 1..n : PrintedLine(table[i]) \in Seq(Chars)
    BY <2>1, <1>LineRead, Zenon
  <2>3. lines \in Seq(Seq(Chars)) /\ Len(lines) = n
    <3>1. lines \in [1..n -> Seq(Chars)]
      BY <1>TableRead, <2>2, Zenon
    <3> QED BY <3>1, SeqFrom, Zenon
  <2> DEFINE Sofar(i) == <<names>> \o SubSeq(table, 1, i)
  <2>4. PICK h : h = [i \in 0..n |-> Reader("start", <<>>, <<>>, Sofar(i))]
    BY Zenon
  <2>5. ASSUME NEW i \in 1..n PROVE Takes(lines[i], h[i - 1], h[i])
    <3>1. PICK k \in 0..n : k = i - 1
      OBVIOUS
    <3>2. Append(Sofar(k), table[i]) = Sofar(i)
      <4>1. PICK part \in Seq(Seq(Seq(Chars))), ws \in Seq(Seq(Chars)), one \in Seq(Seq(Seq(Chars))) :
              part = SubSeq(table, 1, k) /\ ws = table[i] /\ one = <<names>>
        <5>1. SubSeq(table, 1, k) \in Seq(Seq(Seq(Chars)))
          BY <1>TableRead, <3>1
        <5> QED BY <2>1, <5>1, <1>TableRead, <1>One, Zenon
      <4>2. Append(part, ws) = SubSeq(table, 1, i)
        BY <1>TableRead, <3>1, <4>1, <1>Longer, Zenon
      <4>3. one \o Append(part, ws) = Append(one \o part, ws)
        <5>1. PICK A : A = Seq(Seq(Chars))
          BY Zenon
        <5>2. one \in Seq(A) /\ part \in Seq(A) /\ ws \in A
          BY <5>1, Zenon
        <5> QED BY <5>2
      <4> QED BY <4>1, <4>2, <4>3, Zenon
    <3>3. i \in 0..n
      OBVIOUS
    <3>4. PICK all, ws : all = Sofar(k) /\ ws = table[i]
      BY Zenon
    <3>5. h[k] = Reader("start", <<>>, <<>>, all) /\ h[i] = Reader("start", <<>>, <<>>, Append(all, ws))
      BY <2>4, <3>2, <3>3, <3>4, Zenon
    <3>6. LineTaken(ws, all)
      BY <2>1, <3>4, <1>LineRead, Zenon
    <3>7. lines[i] = PrintedLine(ws)
      BY <1>TableRead, <3>4, Zenon
    <3> QED BY <3>1, <3>5, <3>6, <3>7, Zenon DEF LineTaken
  <2>6. PICK text \in Seq(Chars) : text = Concat(lines)
    <3>1. <<>> \in Seq(Chars)
      OBVIOUS
    <3> QED BY <2>3, <3>1, ConcatAppend, Zenon
  <2>7. Takes(text, h[0], h[n])
    BY <2>3, <2>5, <2>6, <1>TakesConcat, Zenon
  <2>8. h[0] = Reader("start", <<>>, <<>>, Append(<<>>, names)) /\ h[n] = Reader("start", <<>>, <<>>, <<names>> \o table)
    <3>1. 0 \in 0..n /\ n \in 0..n
      OBVIOUS
    <3>2. Sofar(0) = Append(<<>>, names) /\ Sofar(n) = <<names>> \o table
      <4>1. PICK A : A = Seq(Seq(Chars)) \ {<<>>}
        BY Zenon
      <4>2. names \in A /\ table \in Seq(A)
        BY <1>TableRead, <4>1, Zenon
      <4>3. <<names>> \o <<>> = Append(<<>>, names) /\ SubSeq(table, 1, 0) = <<>> /\ SubSeq(table, 1, Len(table)) = table
        BY <4>2, <1>Single, Zenon
      <4> QED BY <1>TableRead, <4>3, Zenon
    <3> HIDE DEF Sofar
    <3> QED BY <2>4, <3>1, <3>2, Zenon
  <2>9. PICK head \in Seq(Chars) : head = PrintedLine(names)
    BY <1>TableRead, <1>LineRead, Zenon
  <2>s. PICK s : s = Reader("start", <<>>, <<>>, <<>>)
    BY Zenon
  <2>10. Takes(head, s, h[0])
    <3>1. LineTaken(names, <<>>)
      BY <1>TableRead, <1>LineRead, Zenon
    <3> QED BY <2>8, <2>9, <2>s, <3>1, Zenon DEF LineTaken
  <2>11. PICK whole \in Seq(Chars) : whole = head \o text
    BY JoinIs, Zenon
  <2>12. Takes(whole, s, h[n])
    BY <2>7, <2>10, <2>11, <1>TakesJoin, Zenon
  <2>13. PICK all : all = <<names>> \o table
    BY Zenon
  <2>14. Takes(whole, s, Reader("start", <<>>, <<>>, all))
    BY <2>8, <2>12, <2>13, Zenon
  <2>15. ReadCsv(whole) = all
    BY <2>s, <2>14, <1>TakesAll, Zenon
  <2> QED BY <2>6, <2>9, <2>11, <2>13, <2>15, Zenon DEF ReadsAs

(* A value and its text. *)
<1> DEFINE
  Text(v) == IF v = Null THEN <<>> ELSE format_sql_value(v)
  Infinite(v) == v[1] = "float" /\ Unsigned(v[2]) = <<"inf">>
<1> HIDE DEF Text, Infinite

<1>TextChars.
    ASSUME NEW s \in Seq(STRING) PROVE s \in Seq(Chars)
  <2>1. STRING \subseteq Chars
    BY Zenon DEF Chars
  <2> QED BY <2>1, SeqWider, Zenon
<1>ValueKinds.
    ASSUME NEW v \in Values
    PROVE  \/ v = Null
           \/ v[1] \in {"int", "float", "text"} /\ v[2] \in Seq(STRING) /\ v # Null
           \/ v[1] = "blob" /\ v[2] \in Seq(0..(Len(HexDigits) * Len(HexDigits) - 1)) /\ v # Null
  <2>1. CASE v = Null
    BY <2>1, Zenon
  <2>2. ASSUME NEW k \in {"int", "float", "text"}, NEW s \in Seq(STRING), v = <<k, s>>
        PROVE  v[1] \in {"int", "float", "text"} /\ v[2] \in Seq(STRING) /\ v # Null
    <3>1. v[1] = k /\ v[2] = s /\ k # "null"
      BY <2>2
    <3>2. Null[1] = "null"
      BY DEF Null
    <3> QED BY <3>1, <3>2, Zenon
  <2>3. ASSUME NEW b \in Seq(0..(Len(HexDigits) * Len(HexDigits) - 1)), v = <<"blob", b>>
        PROVE  v[1] = "blob" /\ v[2] \in Seq(0..(Len(HexDigits) * Len(HexDigits) - 1)) /\ v # Null
    <3>1. v[1] = "blob" /\ v[2] = b
      BY <2>3, Zenon
    <3>2. Null[1] = "null"
      BY DEF Null
    <3> QED BY <3>1, <3>2, Zenon
  <2> QED BY <2>1, <2>2, <2>3, Zenon DEF Values
<1>HexTyped.
    ASSUME NEW b \in Seq(0..(Len(HexDigits) * Len(HexDigits) - 1)) PROVE hex_encode(b) \in Seq(Chars)
  <2>1. PICK l \in Nat \ {0} : l = Len(HexDigits)
    BY ResultsAssumption
  <2>2. PICK digits \in Seq(Chars) : digits = HexDigits
    BY ResultsAssumption, <1>TextChars, Zenon
  <2>3. PICK n \in Nat : n = Len(b) /\ DOMAIN b = 1..n
    OBVIOUS
  <2>4. ASSUME NEW i \in 1..n
        PROVE  <<HexDigits[(b[i] \div l) + 1], HexDigits[(b[i] % l) + 1]>> \in Seq(Chars)
    <3>1. PICK x \in 0..(l * l - 1) : x = b[i]
      BY <2>1, <2>3, SeqElement, Zenon
    <3>2. PICK q \in Nat, r \in 0..(l - 1) : q = x \div l /\ r = x % l /\ x = q * l + r
      <4>1. x \in Nat
        OBVIOUS
      <4> QED BY <4>1, Division, Zenon
    <3>3. q < l
      <4>1. SUFFICES ASSUME q >= l PROVE FALSE
        BY <3>2
      <4>2. PICK big \in Nat, all \in Nat : big = l * l /\ all = q * l /\ all >= big
        BY <4>1
      <4>3. x <= big - 1 /\ x = all + r /\ r >= 0
        BY <3>2, <4>2
      <4> QED BY <4>2, <4>3
    <3>4. q + 1 \in 1..Len(digits) /\ r + 1 \in 1..Len(digits)
      BY <2>1, <2>2, <3>2, <3>3
    <3>5. PICK c \in Chars, d \in Chars : c = HexDigits[q + 1] /\ d = HexDigits[r + 1]
      BY <2>2, <3>4, SeqElement, Zenon
    <3>6. <<c, d>> \in Seq(Chars)
      OBVIOUS
    <3> QED BY <3>1, <3>2, <3>5, <3>6, Zenon
  <2>5. PICK parts : parts = [i \in 1..n |-> <<HexDigits[(b[i] \div l) + 1], HexDigits[(b[i] % l) + 1]>>]
    BY Zenon
  <2>6. parts \in Seq(Seq(Chars))
    <3>1. parts \in [1..n -> Seq(Chars)]
      BY <2>4, <2>5, Zenon
    <3> QED BY <3>1, SeqFrom, Zenon
  <2>7. hex_encode(b) = Concat(parts)
    BY <2>1, <2>3, <2>5, Zenon DEF hex_encode
  <2>8. <<>> \in Seq(Chars)
    OBVIOUS
  <2> QED BY <2>6, <2>7, <2>8, ConcatAppend, Zenon
<1>TextTyped.
    ASSUME NEW v \in Values PROVE Text(v) \in Seq(Chars)
  <2>1. CASE v = Null
    <3>1. <<>> \in Seq(Chars)
      OBVIOUS
    <3> QED BY <2>1, <3>1, Zenon DEF Text
  <2>2. CASE v[1] \in {"int", "float", "text"} /\ v[2] \in Seq(STRING) /\ v # Null
    <3>1. v[1] # "null" /\ v[1] # "blob"
      BY <2>2
    <3>2. format_sql_value(v) = v[2]
      BY <2>2, <3>1, Zenon DEF format_sql_value
    <3>3. v[2] \in Seq(Chars)
      BY <2>2, <1>TextChars, Zenon
    <3> QED BY <2>2, <3>2, <3>3, Zenon DEF Text
  <2>3. CASE v[1] = "blob" /\ v[2] \in Seq(0..(Len(HexDigits) * Len(HexDigits) - 1)) /\ v # Null
    <3>1. v[1] # "null" /\ v[1] \notin {"int", "float", "text"}
      BY <2>3
    <3>2. format_sql_value(v) = <<"x'">> \o hex_encode(v[2]) \o <<"'">>
      BY <2>3, <3>1, Zenon DEF format_sql_value
    <3>3. PICK open \in Seq(Chars), hex \in Seq(Chars), close \in Seq(Chars) :
            open = <<"x'">> /\ hex = hex_encode(v[2]) /\ close = <<"'">>
      <4>1. "x'" \in Chars /\ "'" \in Chars
        BY Zenon DEF Chars
      <4> QED BY <2>3, <4>1, <1>HexTyped, <1>One, Zenon
    <3>4. PICK some \in Seq(Chars) : some = open \o hex
      BY JoinIs, Zenon
    <3>5. some \o close \in Seq(Chars)
      BY JoinIs, Zenon
    <3> QED BY <2>3, <3>2, <3>3, <3>4, <3>5, Zenon DEF Text
  <2> QED BY <2>1, <2>2, <2>3, <1>ValueKinds, Zenon
<1>CellIs.
    ASSUME NEW v PROVE DelimitedCell(v, "comma") = Shown(Text(v))
  <2>1. CASE v = Null
    <3>1. DOMAIN <<>> = {}
      OBVIOUS
    <3>2. Range(<<>>) \cap Special = {}
      BY <3>1, Zenon DEF Range
    <3>3. Text(v) = <<>> /\ DelimitedCell(v, "comma") = <<>>
      BY <2>1, Zenon DEF Text, DelimitedCell
    <3> QED BY <3>2, <3>3, Zenon DEF Shown, Quoted
  <2>2. CASE v # Null
    <3>1. Text(v) = format_sql_value(v)
      BY <2>2, Zenon DEF Text
    <3>2. DelimitedCell(v, "comma") =
            IF Range(format_sql_value(v)) \cap {"comma", "dq", "nl"} # {}
            THEN <<"dq">> \o Concat([i \in DOMAIN format_sql_value(v) |->
                                        IF format_sql_value(v)[i] = "dq" THEN <<"dq", "dq">>
                                        ELSE <<format_sql_value(v)[i]>>]) \o <<"dq">>
            ELSE format_sql_value(v)
      BY <2>2, Zenon DEF DelimitedCell
    <3> QED BY <3>1, <3>2, Zenon DEF Shown, Quoted, Quotes, Special
  <2> QED BY <2>1, <2>2, Zenon
<1>JsonAgrees.
    ASSUME NEW v \in Values PROVE Text(sql_value_to_json(v)) = Text(v) \/ Infinite(v)
  <2>1. SUFFICES ASSUME ~Infinite(v) PROVE Text(sql_value_to_json(v)) = Text(v)
    BY Zenon
  <2>2. CASE v[1] = "blob" /\ v # Null
    <3>1. v[1] # "float"
      BY <2>2
    <3>2. PICK j : j = sql_value_to_json(v)
      BY Zenon
    <3>3. j = <<"text", format_sql_value(v)>>
      BY <2>2, <3>1, <3>2, Zenon DEF sql_value_to_json
    <3>4. j[1] = "text" /\ j[2] = format_sql_value(v)
      BY <3>3, Zenon
    <3>5. Null[1] = "null"
      BY DEF Null
    <3>6. j # Null
      BY <3>4, <3>5, Zenon
    <3>7. format_sql_value(j) = j[2]
      BY <3>4, Zenon DEF format_sql_value
    <3> QED BY <2>2, <3>2, <3>4, <3>6, <3>7, Zenon DEF Text
  <2>3. CASE v[1] # "blob"
    <3>1. sql_value_to_json(v) = v
      BY <2>1, <2>3, Zenon DEF sql_value_to_json, Infinite
    <3> QED BY <3>1, Zenon
  <2>4. v[1] = "blob" => v # Null
    <3>1. Null[1] = "null"
      BY DEF Null
    <3> QED BY <3>1, Zenon
  <2> QED BY <2>2, <2>3, <2>4, Zenon

<1> SUFFICES ASSUME NEW columns \in Seq(Seq(STRING)), NEW rows \in Seq(Seq(Values)),
                    columns # <<>>, \A r \in DOMAIN rows : Len(rows[r]) = Len(columns)
             PROVE  PrintedReadsBack(columns, rows)
  BY Zenon
<1> DEFINE plain == \A i \in DOMAIN columns : Range(columns[i]) \cap {"comma", "dq", "nl"} = {}
           distinct == \A i, j \in DOMAIN columns : columns[i] = columns[j] => i = j
           shown == [r \in DOMAIN rows |-> [c \in DOMAIN columns |-> Text(rows[r][c])]]
<1>1. PICK m \in Nat \ {0} : m = Len(columns) /\ DOMAIN columns = 1..m
  OBVIOUS
<1>2. PICK n \in Nat : n = Len(rows) /\ DOMAIN rows = 1..n
  OBVIOUS
<1>3. \A r \in 1..n : rows[r] \in Seq(Values) /\ DOMAIN rows[r] = 1..m
  <2>1. ASSUME NEW r \in 1..n PROVE rows[r] \in Seq(Values) /\ DOMAIN rows[r] = 1..m
    <3>1. PICK row \in Seq(Values) : row = rows[r]
      BY <1>2, SeqElement, Zenon
    <3>2. Len(row) = m
      BY <1>1, <1>2, <3>1, Zenon
    <3>3. DOMAIN row = 1..m
      BY <3>2
    <3> QED BY <3>1, <3>3, Zenon
  <2> QED BY <2>1, Zenon
<1>4. \A r \in 1..n, c \in 1..m : rows[r][c] \in Values
  <2>1. ASSUME NEW r \in 1..n, NEW c \in 1..m PROVE rows[r][c] \in Values
    <3>1. PICK row \in Seq(Values) : row = rows[r] /\ DOMAIN row = 1..m
      BY <1>3, Zenon
    <3>2. c \in 1..Len(row)
      BY <3>1
    <3> QED BY <3>1, <3>2, SeqElement, Zenon
  <2> QED BY <2>1, Zenon
<1>5. shown = [r \in 1..n |-> [c \in 1..m |-> Text(rows[r][c])]]
  BY <1>1, <1>2, Zenon
<1>6. shown \in Seq(Seq(Seq(Chars)) \ {<<>>}) /\ Len(shown) = n
  <2>1. ASSUME NEW r \in 1..n PROVE [c \in 1..m |-> Text(rows[r][c])] \in Seq(Seq(Chars)) \ {<<>>}
    <3>1. PICK ws : ws = [c \in 1..m |-> Text(rows[r][c])]
      BY Zenon
    <3>2. ws \in [1..m -> Seq(Chars)]
      BY <1>4, <3>1, <1>TextTyped, Zenon
    <3>3. ws \in Seq(Seq(Chars)) /\ Len(ws) = m
      BY <3>2, SeqFrom, Zenon
    <3>4. ws # <<>>
      BY <3>3
    <3> QED BY <3>1, <3>3, <3>4, Zenon
  <2>2. shown \in [1..n -> Seq(Seq(Chars)) \ {<<>>}]
    BY <1>5, <2>1, Zenon
  <2> HIDE DEF shown
  <2> QED BY <2>2, SeqFrom, Zenon
<1>7. columns \in Seq(Seq(Chars))
  <2>1. \A i \in 1..m : columns[i] \in Seq(Chars)
    BY <1>1, SeqElement, <1>TextChars, Zenon
  <2>2. PICK ws : ws = [i \in 1..m |-> columns[i]]
    BY Zenon
  <2>3. ws \in [1..m -> Seq(Chars)]
    BY <2>1, <2>2, Zenon
  <2>4. columns = ws
    BY <1>1, <2>2
  <2> QED BY <2>3, <2>4, SeqFrom, Zenon
<1>8. PICK lines : lines = [r \in 1..n |-> PrintedLine(shown[r])]
  BY Zenon
<1>9. ASSUME plain PROVE print_delimited(columns, rows, "comma") = PrintedLine(columns) \o Concat(lines)
  <2>1. PrintedLine(columns) = Joined(columns, "comma") \o <<"nl">>
    <3>1. \A i \in 1..m : Shown(columns[i]) = columns[i]
      BY <1>1, <1>9, Zenon DEF Shown, Quoted, Special
    <3>2. PICK ws : ws = [i \in DOMAIN columns |-> Shown(columns[i])]
      BY Zenon
    <3>3. columns = ws
      BY <1>1, <3>1, <3>2
    <3> QED BY <3>2, <3>3, Zenon DEF PrintedLine
  <2>2. ASSUME NEW r \in 1..n
        PROVE  Joined([c \in DOMAIN rows[r] |-> DelimitedCell(rows[r][c], "comma")], "comma") \o <<"nl">> = lines[r]
    <3>1. PICK ws : ws = shown[r]
      BY Zenon
    <3>2. ws = [c \in 1..m |-> Text(rows[r][c])]
      BY <1>5, <3>1, Zenon
    <3>3. [c \in DOMAIN rows[r] |-> DelimitedCell(rows[r][c], "comma")] = [i \in DOMAIN ws |-> Shown(ws[i])]
      <4>1. \A c \in 1..m : DelimitedCell(rows[r][c], "comma") = Shown(ws[c])
        BY <3>2, <1>CellIs, Zenon
      <4>2. DOMAIN ws = 1..m /\ DOMAIN rows[r] = 1..m
        BY <1>3, <3>2, Zenon
      <4> QED BY <4>1, <4>2, Zenon
    <3>4. lines[r] = PrintedLine(ws)
      BY <1>8, <3>1, Zenon
    <3> QED BY <3>3, <3>4, Zenon DEF PrintedLine
  <2>3. lines = [r \in DOMAIN rows |->
                   Joined([c \in DOMAIN rows[r] |-> DelimitedCell(rows[r][c], "comma")], "comma") \o <<"nl">>]
    <3> HIDE DEF shown
    <3>1. lines = [r \in 1..n |-> lines[r]]
      BY <1>8
    <3> QED BY <1>2, <2>2, <3>1, Zenon
  <2> QED BY <2>1, <2>3, Zenon DEF print_delimited
<1>10. ASSUME plain PROVE ReadCsv(print_delimited(columns, rows, "comma")) = <<columns>> \o shown
  <2> HIDE DEF shown
  <2>1. PICK table \in Seq(Seq(Seq(Chars)) \ {<<>>}) : table = shown /\ n = Len(table)
    BY <1>6, Zenon
  <2>2. lines = [r \in 1..n |-> PrintedLine(table[r])]
    BY <1>8, <2>1, Zenon
  <2>3. ReadsAs(columns, table, lines)
    BY <1>7, <2>1, <2>2, <1>TableRead, Zenon
  <2> USE DEF ReadsAs
  <2> QED BY <1>9, <1>10, <2>1, <2>3, Zenon
<1>11. ASSUME distinct, NEW r \in DOMAIN rows, NEW c \in DOMAIN columns
       PROVE  \/ Text(print_json(columns, rows)[r][columns[c]]) = shown[r][c]
              \/ rows[r][c][1] = "float" /\ Unsigned(rows[r][c][2]) = <<"inf">>
  <2>1. PICK places : places = {i \in DOMAIN columns : columns[i] = columns[c]}
    BY Zenon
  <2>2. Max(places) = c
    <3>1. places \subseteq 0..m /\ places # {}
      BY <1>1, <2>1
    <3>2. Max(places) \in places
      BY <3>1, LastPlace, Zenon
    <3> QED BY <1>11, <2>1, <3>2, Zenon
  <2>3. columns[c] \in Range(columns)
    BY Zenon DEF Range
  <2>4. PICK v \in Values : v = rows[r][c]
    BY <1>1, <1>2, <1>4, Zenon
  <2>5. print_json(columns, rows)[r][columns[c]] = sql_value_to_json(v)
    <3>1. print_json(columns, rows)[r] =
            [name \in Range(columns) |-> sql_value_to_json(rows[r][Max({i \in DOMAIN columns : columns[i] = name})])]
      BY Zenon DEF print_json
    <3>2. print_json(columns, rows)[r][columns[c]]
            = sql_value_to_json(rows[r][Max({i \in DOMAIN columns : columns[i] = columns[c]})])
      BY <2>3, <3>1, Zenon
    <3> QED BY <2>1, <2>2, <2>4, <3>2, Zenon
  <2>6. shown[r][c] = Text(v)
    BY <2>4, Zenon
  <2>7. Text(sql_value_to_json(v)) = Text(v) \/ Infinite(v)
    BY <1>JsonAgrees, Zenon
  <2> HIDE DEF shown
  <2> QED BY <2>4, <2>5, <2>6, <2>7, Zenon DEF Infinite
<1> QED BY <1>10, <1>11, Zenon DEF PrintedReadsBack, Text

-----------------------------------------------------------------------------
(* The delays *)

(* The powers of two up to the n-th, in a row. *)
Doubling(g, n) == g[0] = 1 /\ \A i \in 1..n : g[i] = 2 * g[i - 1]

(* The powers of two up to the cap of the exponent. *)
LEMMA PowersExist ==
  ASSUME NEW n \in Nat
  PROVE  \E g \in [0..n -> Nat \ {0}] : Doubling(g, n)
<1> DEFINE Wrong == {m \in Nat : ~\E g \in [0..m -> Nat \ {0}] : Doubling(g, m)}
<1>1. SUFFICES ASSUME Wrong # {} PROVE FALSE
  BY Zenon
<1>2. PICK m \in Wrong : \A k \in Wrong : m <= k
  <2>1. Wrong \subseteq Nat
    BY Zenon
  <2> HIDE DEF Wrong
  <2> QED BY NumbersWellOrdered, <1>1, <2>1, SmallestOf, Zenon
<1>3. m \in Nat /\ ~\E g \in [0..m -> Nat \ {0}] : Doubling(g, m)
  BY <1>2, Zenon
<1>4. CASE m = 0
  <2>1. PICK g : g = [i \in 0..0 |-> 1]
    BY Zenon
  <2>2. g \in [0..0 -> Nat \ {0}] /\ Doubling(g, 0)
    BY <2>1 DEF Doubling
  <2> QED BY <1>3, <1>4, <2>2
<1>5. CASE m # 0
  <2>1. m - 1 \in Nat /\ ~(m <= m - 1)
    BY <1>3, <1>5
  <2>2. PICK g \in [0..(m - 1) -> Nat \ {0}] : Doubling(g, m - 1)
    BY <1>2, <2>1, Zenon
  <2>3. PICK h : h = [i \in 0..m |-> IF i = m THEN 2 * g[m - 1] ELSE g[i]]
    BY Zenon
  <2>4. \A i \in 0..m : h[i] = IF i = m THEN 2 * g[m - 1] ELSE g[i]
    BY <2>3
  <2>5. g[m - 1] \in Nat \ {0} /\ 2 * g[m - 1] \in Nat \ {0}
    BY <1>3, <1>5, <2>2
  <2>6. h \in [0..m -> Nat \ {0}]
    <3>1. ASSUME NEW i \in 0..m, i # m PROVE g[i] \in Nat \ {0}
      BY <1>3, <3>1, <2>2
    <3> QED BY <2>3, <2>5, <3>1
  <2>7. Doubling(h, m)
    <3>1. h[0] = 1
      BY <1>3, <1>5, <2>2, <2>4 DEF Doubling
    <3>2. ASSUME NEW i \in 1..m PROVE h[i] = 2 * h[i - 1]
      <4>1. h[i - 1] = g[i - 1]
        BY <1>3, <2>4
      <4>2. CASE i = m
        BY <1>3, <2>4, <4>1, <4>2
      <4>3. CASE i # m
        <5>1. h[i] = g[i] /\ i \in 1..(m - 1)
          BY <1>3, <2>4, <4>3
        <5> QED BY <2>2, <4>1, <5>1 DEF Doubling
      <4> QED BY <4>2, <4>3
    <3> QED BY <3>1, <3>2, Zenon DEF Doubling
  <2> QED BY <1>3, <2>6, <2>7, Zenon
<1> QED BY <1>4, <1>5

(* Two such rows agree as far as both go. *)
LEMMA PowersAgree ==
  ASSUME NEW n \in Nat, NEW g, NEW h, Doubling(g, n), Doubling(h, n), NEW i \in 0..n
  PROVE  g[i] = h[i]
<1> DEFINE Wrong == {k \in 0..n : g[k] # h[k]}
<1>1. SUFFICES ASSUME Wrong # {} PROVE FALSE
  OBVIOUS
<1>2. PICK w \in Wrong : \A k \in Wrong : w <= k
  <2>1. Wrong \subseteq Nat
    OBVIOUS
  <2> HIDE DEF Wrong
  <2> QED BY NumbersWellOrdered, <1>1, <2>1, SmallestOf, Zenon
<1>3. w \in 0..n /\ g[w] # h[w]
  BY <1>2
<1>4. w # 0
  BY <1>3 DEF Doubling
<1>5. w \in 1..n /\ w - 1 \in 0..n /\ ~(w <= w - 1)
  BY <1>3, <1>4
<1>6. g[w - 1] = h[w - 1]
  BY <1>2, <1>5
<1>7. g[w] = 2 * g[w - 1] /\ h[w] = 2 * h[w - 1]
  BY <1>5 DEF Doubling
<1> QED BY <1>3, <1>6, <1>7

(* The factor of the code is what its recursive definition says. *)
LEMMA FactorDoubles ==
  /\ Factor[0] = 1
  /\ \A n \in Nat : Factor[n] \in Nat \ {0} /\ Factor[n + 1] = 2 * Factor[n]
<1> DEFINE Row(n) == CHOOSE g \in [0..n -> Nat \ {0}] : Doubling(g, n)
           F == [n \in Nat |-> Row(n)[n]]
           Step(f) == [n \in Nat |-> IF n = 0 THEN 1 ELSE 2 * f[n - 1]]
<1>1. ASSUME NEW n \in Nat PROVE Row(n) \in [0..n -> Nat \ {0}] /\ Doubling(Row(n), n)
  BY PowersExist, Zenon
<1> HIDE DEF Row
<1>2. ASSUME NEW n \in Nat PROVE F[n] \in Nat \ {0} /\ F[n] = Row(n)[n]
  BY <1>1
<1>3. F[0] = 1
  <2>1. Row(0)[0] = 1
    BY <1>1 DEF Doubling
  <2> QED BY <2>1
<1>4. ASSUME NEW n \in Nat PROVE F[n + 1] = 2 * F[n]
  <2>1. PICK g : g = Row(n + 1)
    BY Zenon
  <2>2. g[n + 1] = 2 * g[n] /\ Doubling(g, n)
    <3>1. n + 1 \in Nat
      OBVIOUS
    <3>2. Doubling(g, n + 1)
      BY <1>1, <2>1, <3>1, Zenon
    <3>3. n + 1 \in 1..(n + 1) /\ (n + 1) - 1 = n /\ 1..n \subseteq 1..(n + 1)
      OBVIOUS
    <3> QED BY <3>2, <3>3 DEF Doubling
  <2>3. g[n] = Row(n)[n]
    <3>1. n \in 0..n /\ Doubling(Row(n), n)
      BY <1>1
    <3> QED BY <2>2, <3>1, PowersAgree, Zenon
  <2> QED BY <1>2, <2>1, <2>2, <2>3
<1> HIDE DEF F
<1>5. F = Step(F)
  <2>1. F = [n \in Nat |-> F[n]]
    BY DEF F
  <2>2. ASSUME NEW n \in Nat PROVE F[n] = IF n = 0 THEN 1 ELSE 2 * F[n - 1]
    <3>1. CASE n = 0
      BY <1>3, <3>1
    <3>2. CASE n # 0
      <4>1. PICK k \in Nat : n = k + 1 /\ n - 1 = k
        BY <3>2
      <4> QED BY <1>4, <3>2, <4>1
    <3> QED BY <3>1, <3>2
  <2> QED BY <2>1, <2>2, Zenon
<1>6. Factor = Step(Factor)
  <2>1. \E f : f = Step(f)
    BY <1>5
  <2> QED BY <2>1, Zenon DEF Factor
<1>7. \A n \in Nat : Factor[n] = IF n = 0 THEN 1 ELSE 2 * Factor[n - 1]
  BY <1>6
<1>8. Factor[0] = 1 /\ \A n \in Nat : Factor[n + 1] = 2 * Factor[n]
  BY <1>7
<1>9. ASSUME NEW n \in Nat PROVE Factor[n] = F[n]
  <2>1. Doubling(Factor, n)
    BY <1>7 DEF Doubling
  <2>2. Doubling(F, n)
    <3>1. ASSUME NEW i \in 1..n PROVE F[i] = 2 * F[i - 1]
      <4>1. PICK k \in Nat : i = k + 1 /\ i - 1 = k
        OBVIOUS
      <4> QED BY <1>4, <4>1
    <3> QED BY <1>3, <3>1 DEF Doubling
  <2> QED BY <2>1, <2>2, PowersAgree
<1> QED BY <1>2, <1>8, <1>9

(* What jitter makes of a delay: it moves it by no more than the span. *)
Moves(delay, span, jittered) ==
  /\ jittered \in Nat
  /\ jittered <= delay + span
  /\ jittered + span >= delay

(* Jitter moves a delay by its span at most (retry_delay_for_attempt_core). *)
LEMMA JitterMoves ==
  ASSUME NEW delay \in Nat, NEW pct \in Nat, NEW entropy \in Nat
  PROVE  LET span == JitterSpan(delay, pct)
             shifted == delay + (entropy % (2 * span + 1)) IN
         /\ span \in Nat /\ 100 * span <= delay * pct
         /\ Moves(delay, span, IF shifted > span THEN shifted - span ELSE 0)
<1>1. PICK p \in Nat : p = delay * pct
  OBVIOUS
<1>2. PICK span \in Nat : span = JitterSpan(delay, pct) /\ 100 * span <= p
  BY <1>1 DEF JitterSpan
<1>3. PICK r \in 0..(2 * span) : r = entropy % (2 * span + 1)
  <2>1. PICK d \in Nat \ {0} : d = 2 * span + 1
    OBVIOUS
  <2>2. entropy % d \in 0..(d - 1)
    OBVIOUS
  <2> QED BY <2>1, <2>2
<1>4. Moves(delay, span, IF delay + r > span THEN delay + r - span ELSE 0)
  BY DEF Moves
<1>5. JitterSpan(delay, pct) \in Nat /\ 100 * JitterSpan(delay, pct) <= delay * pct
  BY <1>1, <1>2, Zenon
<1>6. Moves(delay, span, IF delay + (entropy % (2 * span + 1)) > span
                         THEN delay + (entropy % (2 * span + 1)) - span ELSE 0)
  BY <1>3, <1>4, Zenon
<1>7. JitterSpan(delay, pct) = span
  BY <1>2, Zenon
<1> QED BY <1>5, <1>6, <1>7

(* A capped delay. *)
LEMMA CappedDelay ==
  ASSUME NEW plain \in Nat, NEW max \in Nat
  PROVE  /\ Capped(plain, max) \in Nat
         /\ Capped(plain, max) = IF max > 0 /\ max < plain THEN max ELSE plain
         /\ max > 0 => Capped(plain, max) <= max
BY DEF Capped, Lesser

(* The delay before an attempt: the capped one, moved, and cut to u64. *)
Delayed(due, pct, delay) ==
  \E span, jittered \in Nat :
    /\ 100 * span <= due * pct /\ Moves(due, span, jittered)
    /\ delay = Lesser(jittered, DelayCap)

(* A delay is the capped doubling of the base, moved by jitter, and capped
   again. *)
LEMMA DelayIs ==
  ASSUME NEW base \in Nat, NEW max \in Nat, NEW pct \in Nat, NEW entropy \in Nat,
         NEW attempts \in Nat \ {0}, attempts - 1 <= ExponentCap
  PROVE  Delayed(Capped(base * Factor[attempts - 1], max), pct,
                 retry_delay_for_attempt_core(base, max, pct, attempts, entropy))
<1>1. Lesser(attempts - 1, ExponentCap) = attempts - 1
  BY BackoffAssumption DEF Lesser
<1>2. base * Factor[attempts - 1] \in Nat
  BY FactorDoubles
<1>3. PICK due \in Nat : due = Capped(base * Factor[attempts - 1], max)
  BY <1>2, CappedDelay, Zenon
<1>4. Exponential(base, max, attempts) = due
  BY <1>1, <1>3 DEF Exponential
<1> DEFINE span == JitterSpan(due, pct)
           shifted == due + (entropy % (2 * span + 1))
           jittered == IF shifted > span THEN shifted - span ELSE 0
<1>5. span \in Nat /\ 100 * span <= due * pct /\ Moves(due, span, jittered)
  BY JitterMoves, Zenon
<1>6. jittered \in Nat
  BY <1>5, Zenon DEF Moves
<1>7. retry_delay_for_attempt_core(base, max, pct, attempts, entropy) = Lesser(jittered, DelayCap)
  BY <1>4, Zenon DEF retry_delay_for_attempt_core
<1> HIDE DEF span, jittered
<1>8. Delayed(due, pct, retry_delay_for_attempt_core(base, max, pct, attempts, entropy))
  BY <1>5, <1>6, <1>7, Zenon DEF Delayed
<1> QED BY <1>3, <1>8, Zenon

(* The delays of a retry for every base, maximum, percentage and clock, up to the
   attempt at which the doubling stops: no delay is off the doubled and capped
   base by more than the jitter's percentage, none exceeds the maximum without
   jitter, and with jitter of up to a third none is shorter than the one before it
   while the maximum is not reached (retry_delay_for_attempt_core). *)
LEMMA DelaysStay ==
  \A base, max, pct, entropy, next_entropy \in Nat, attempts \in Nat \ {0} :
    DelaysStayInBand(base, max, pct, attempts, entropy, next_entropy)
<1> SUFFICES ASSUME NEW base \in Nat, NEW max \in Nat, NEW pct \in Nat, NEW entropy \in Nat,
                    NEW next_entropy \in Nat, NEW attempts \in Nat \ {0}
             PROVE  DelaysStayInBand(base, max, pct, attempts, entropy, next_entropy)
  OBVIOUS
<1> DEFINE plain == base * Factor[attempts - 1]
           due == IF max > 0 /\ max < plain THEN max ELSE plain
           delay == retry_delay_for_attempt_core(base, max, pct, attempts, entropy)
           after == retry_delay_for_attempt_core(base, max, pct, attempts + 1, next_entropy)
<1> SUFFICES ASSUME attempts <= ExponentCap
             PROVE  /\ delay <= DelayCap
                    /\ 100 * delay <= due * (100 + pct)
                    /\ 100 * delay + due * pct >= 100 * Lesser(due, DelayCap)
                    /\ pct = 0 /\ max > 0 => delay <= max
                    /\ pct <= 33 /\ (max = 0 \/ 2 * plain <= max) => after >= delay
  BY Zenon DEF DelaysStayInBand
<1>1. DelayCap \in Nat /\ ExponentCap \in Nat
  BY BackoffAssumption
<1>2. plain \in Nat /\ base * Factor[attempts] = 2 * plain
  <2>1. PICK k \in Nat : attempts = k + 1 /\ attempts - 1 = k
    OBVIOUS
  <2>2. PICK f \in Nat : f = Factor[k] /\ Factor[k + 1] = 2 * f
    BY FactorDoubles
  <2>3. base * (2 * f) = 2 * (base * f) /\ base * f \in Nat
    OBVIOUS
  <2> QED BY <2>1, <2>2, <2>3
<1>3. due \in Nat /\ due = Capped(plain, max) /\ (max > 0 => due <= max)
  <2>1. plain \in Nat
    BY <1>2
  <2> HIDE DEF plain
  <2>2. /\ Capped(plain, max) \in Nat /\ Capped(plain, max) = due
        /\ max > 0 => Capped(plain, max) <= max
    BY <2>1, CappedDelay
  <2> HIDE DEF due
  <2> QED BY <2>2
<1>4. Delayed(due, pct, delay)
  <2>1. attempts - 1 <= ExponentCap
    BY <1>1
  <2>2. Delayed(Capped(plain, max), pct, delay)
    BY <2>1, DelayIs, Zenon
  <2> HIDE DEF plain, due, delay
  <2> QED BY <1>3, <2>2, Zenon
<1>5. Delayed(Capped(2 * plain, max), pct, after)
  <2>1. attempts + 1 \in Nat \ {0} /\ (attempts + 1) - 1 = attempts
    OBVIOUS
  <2>2. (attempts + 1) - 1 <= ExponentCap
    BY <2>1
  <2>3. Delayed(Capped(base * Factor[(attempts + 1) - 1], max), pct, after)
    BY <2>1, <2>2, DelayIs, Zenon
  <2> HIDE DEF plain, after
  <2> QED BY <1>2, <2>1, <2>3, Zenon
<1> HIDE DEF plain, due, delay, after
<1>6. PICK span \in Nat, jittered \in Nat :
         /\ 100 * span <= due * pct /\ Moves(due, span, jittered)
         /\ delay = Lesser(jittered, DelayCap)
  BY <1>4, Zenon DEF Delayed
<1>7. PICK next_span \in Nat, next_jittered \in Nat :
         /\ 100 * next_span <= Capped(2 * plain, max) * pct
         /\ Moves(Capped(2 * plain, max), next_span, next_jittered)
         /\ after = Lesser(next_jittered, DelayCap)
  BY <1>5, Zenon DEF Delayed
<1>8. delay \in Nat /\ delay <= DelayCap /\ delay <= due + span
  BY <1>1, <1>3, <1>6 DEF Lesser, Moves
<1>9. PICK P \in Nat : P = due * pct /\ due * (100 + pct) = 100 * due + P
  BY <1>3
<1>10. 100 * delay <= due * (100 + pct)
  BY <1>3, <1>6, <1>8, <1>9
<1>11. 100 * delay + due * pct >= 100 * Lesser(due, DelayCap)
  <2>1. Lesser(due, DelayCap) <= delay + span /\ Lesser(due, DelayCap) \in Nat
    BY <1>1, <1>3, <1>6 DEF Lesser, Moves
  <2> QED BY <1>6, <1>8, <1>9, <2>1
<1>12. ASSUME pct = 0, max > 0 PROVE delay <= max
  <2>1. span = 0
    BY <1>3, <1>6, <1>12
  <2> QED BY <1>3, <1>8, <1>12, <2>1
<1>13. ASSUME pct <= 33, max = 0 \/ 2 * plain <= max PROVE after >= delay
  <2>1. due = plain /\ Capped(2 * plain, max) = 2 * plain
    BY <1>2, <1>3, <1>13 DEF Capped, Lesser
  <2>2. 100 * span <= plain * pct /\ 100 * next_span <= (2 * plain) * pct
    BY <1>6, <1>7, <2>1
  <2>3. plain * pct <= 33 * plain /\ (2 * plain) * pct <= 66 * plain
    BY <1>2, <1>13
  <2>4. span + next_span <= plain
    BY <1>2, <2>2, <2>3
  <2>5. jittered <= plain + span /\ next_jittered + next_span >= 2 * plain
    BY <1>6, <1>7, <2>1, Zenon DEF Moves
  <2>6. next_jittered >= jittered
    BY <1>2, <2>4, <2>5
  <2>7. Lesser(jittered, DelayCap) <= Lesser(next_jittered, DelayCap)
    BY <1>1, <2>6 DEF Lesser
  <2>8. delay <= after
    BY <1>6, <1>7, <2>7, Zenon
  <2>9. after \in Nat
    BY <1>1, <1>7 DEF Lesser
  <2> QED BY <1>8, <2>8, <2>9
<1> QED BY <1>8, <1>10, <1>11, <1>12, <1>13

-----------------------------------------------------------------------------
(* The probes, and what a node says of its lease *)

(* Whole parts: q of them, of size d, are in n. *)
LEMMA WholeParts ==
  ASSUME NEW n \in Nat, NEW d \in Nat \ {0}
  PROVE  /\ n \div d \in Nat /\ n % d \in Nat /\ n - (n % d) = (n \div d) * d
         /\ (n \div d) * d <= n /\ n < (n \div d) * d + d
OBVIOUS

(* A quotient is bounded by what it is a quotient of. *)
LEMMA FewerParts ==
  ASSUME NEW a \in Nat, NEW b \in Nat, NEW d \in Nat \ {0}, a * d < b * d + d
  PROVE  a <= b
<1>1. SUFFICES ASSUME a >= b + 1 PROVE FALSE
  OBVIOUS
<1>2. a * d >= (b + 1) * d
  BY <1>1
<1>3. (b + 1) * d = b * d + d
  OBVIOUS
<1> QED BY <1>2, <1>3

(* Between two times cut to whole parts lie no more than k parts, if between the
   times did not. *)
LEMMA CutTimes ==
  ASSUME NEW last \in Nat, NEW at \in Nat, NEW k \in Nat, NEW d \in Nat \ {0},
         at <= last + k * d
  PROVE  at \div d <= (last \div d) + k
<1>1. PICK p \in Nat : p = last \div d /\ p * d <= last /\ last < p * d + d
  BY WholeParts
<1>2. PICK q \in Nat : q = at \div d /\ q * d <= at /\ at < q * d + d
  BY WholeParts
<1>3. (p + k) * d = p * d + k * d /\ p * d \in Nat /\ q * d \in Nat /\ k * d \in Nat
  OBVIOUS
<1>4. q * d < (p + k) * d + d
  BY <1>1, <1>2, <1>3
<1>5. q <= p + k
  BY <1>4, FewerParts
<1> QED BY <1>1, <1>2, <1>5

(* /healthz at every time, for every interval of the loop and every tolerance,
   though heartbeat and clock are cut to seconds (run_readiness_http_server): a
   loop that is only slow is healthy. *)
LEMMA HealthFollowsTheLoop ==
  \A last, at, interval \in Nat : SlowTicksStayHealthy(last, at, interval)
<1> SUFFICES ASSUME NEW last \in Nat, NEW at \in Nat, NEW interval \in Nat
             PROVE  SlowTicksStayHealthy(last, at, interval)
  OBVIOUS
<1> DEFINE T == healthz_stale_after(interval)
           answer == probe("/healthz", FALSE, last_tick_secs(last), at, interval)
<1> SUFFICES ASSUME last >= Second, at <= last + T - (T % Second)
             PROVE  answer = 200
  BY Zenon DEF SlowTicksStayHealthy
<1>1. Second \in Nat \ {0} /\ MinInterval \in Nat /\ MinStale \in Nat
  BY ProbesAssumption
<1>2. T \in Nat
  BY <1>1 DEF healthz_stale_after, Greater
<1>3. PICK k \in Nat : k = T \div Second /\ T - (T % Second) = k * Second /\ k * Second <= T
                       /\ T % Second \in Nat
  <2> HIDE DEF T
  <2> QED BY <1>1, <1>2, WholeParts, Zenon
<1>4. PICK p \in Nat \ {0} : p = last \div Second
  <2>1. PICK p \in Nat : p = last \div Second /\ last < p * Second + Second
    BY <1>1, WholeParts
  <2>2. p # 0
    BY <1>1, <2>1
  <2> QED BY <2>1, <2>2
<1>5. PICK q \in Nat : q = at \div Second
  BY <1>1, WholeParts
<1>6. answer = IF q > p + k THEN 503 ELSE 200
  <2>1. probe("/healthz", FALSE, p, at, interval)
          = IF p = 0 \/ Since(q, p) > k THEN 503 ELSE 200
    BY <1>3, <1>5 DEF probe
  <2>2. Since(q, p) > k <=> q > p + k
    BY DEF Since
  <2>3. p # 0 /\ last_tick_secs(last) = p
    BY <1>4, Zenon DEF last_tick_secs
  <2>4. answer = probe("/healthz", FALSE, p, at, interval)
    BY <2>3, Zenon
  <2>5. p = 0 \/ Since(q, p) > k <=> q > p + k
    BY <2>2, <2>3, Zenon
  <2> HIDE DEF answer
  <2>6. CASE q > p + k
    <3>1. p = 0 \/ Since(q, p) > k
      BY <2>5, <2>6, Zenon
    <3>2. answer = 503
      BY <2>1, <2>4, <3>1, Zenon
    <3> QED BY <2>6, <3>2, Zenon
  <2>7. CASE ~(q > p + k)
    <3>1. ~(p = 0 \/ Since(q, p) > k)
      BY <2>5, <2>7, Zenon
    <3>2. answer = 200
      BY <2>1, <2>4, <3>1, Zenon
    <3> QED BY <2>7, <3>2, Zenon
  <2> QED BY <2>6, <2>7, Zenon
<1> HIDE DEF T, answer
<1>7. at <= last + k * Second => q <= p + k
  BY <1>1, <1>4, <1>5, CutTimes
<1>8. q <= p + k
  <2>1. last + T - (T % Second) = last + k * Second /\ k * Second \in Nat
    BY <1>1, <1>2, <1>3
  <2> QED BY <1>7, <2>1
<1> QED BY <1>6, <1>8

(* What `status` shows of any lease, at any time and with any delay of the answer,
   can be acted on, also where the sums saturate (get_cluster_status,
   print_cluster_status). *)
LEMMA StatusCanBeActedOn ==
  \A lease_shown \in [renewed : Nat, ttl : Nat], at, delay \in Nat :
    ShownLeaseAgrees(lease_shown, at, delay)
<1> SUFFICES ASSUME NEW l \in [renewed : Nat, ttl : Nat], NEW at \in Nat, NEW delay \in Nat
             PROVE  ShownLeaseAgrees(l, at, delay)
  OBVIOUS
<1>1. PICK last \in Nat : last = ends(l) /\ last <= l.renewed + l.ttl
  BY ProbesAssumption DEF ends, Smaller
<1>2. get_cluster_status(l, at) = [lease |-> l, is_expired |-> at > last]
  BY <1>1 DEF get_cluster_status
<1>3. print_cluster_status(get_cluster_status(l, at), at + delay)
        = [remaining |-> Since(last, at + delay), expired |-> at > last]
  <2>1. PICK s : s = get_cluster_status(l, at)
    BY Zenon
  <2>2. s.lease = l /\ s.is_expired = (at > last)
    BY <1>2, <2>1
  <2>3. print_cluster_status(s, at + delay)
          = [remaining |-> Since(ends(s.lease), at + delay), expired |-> s.is_expired]
    BY Zenon DEF print_cluster_status
  <2> QED BY <1>1, <2>1, <2>2, <2>3, Zenon
<1>4. /\ at > last => Since(last, at + delay) = 0
      /\ Since(last, at + delay) > 0 => at + delay + Since(last, at + delay) = last
  BY DEF Since
<1>5. Since(last, at + delay) > 0 => at + delay + Since(last, at + delay) <= l.renewed + l.ttl
  BY <1>1, <1>4
<1> DEFINE shown == [remaining |-> Since(last, at + delay), expired |-> at > last]
<1>6. /\ shown.expired => shown.remaining = 0
      /\ ~shown.expired => at <= last
      /\ shown.remaining > 0 => at + delay + shown.remaining <= l.renewed + l.ttl
  <2>1. shown.expired = (at > last) /\ shown.remaining = Since(last, at + delay)
    OBVIOUS
  <2>2. ~(at > last) => at <= last
    OBVIOUS
  <2> QED BY <1>4, <1>5, <2>1, <2>2, Zenon
<1>7. print_cluster_status(get_cluster_status(l, at), at + delay) = shown
  BY <1>3, Zenon
<1> HIDE DEF shown
<1> QED BY <1>1, <1>6, <1>7, Zenon DEF ShownLeaseAgrees

-----------------------------------------------------------------------------
(* The invariants *)

(* Every input is made of the pieces of its kind. *)
Built == given \in Given(kind) /\ input \in Seq(Alphabet(kind))

(* An input is always a sequence of pieces of its kind. *)
LEMMA AlwaysBuilt == Spec => []Built
<1>1. Init => Built
  BY DEF Init, Built
<1>2. Built /\ [Next]_vars => Built'
  BY DEF Built, Next, Extend, vars
<1> QED BY <1>1, <1>2, PTL DEF Spec

(* The argument of a sync, whatever its characters (Endpoint::parse). *)
THEOREM ArgumentsAreKept == Spec => []ArgumentsStayLocal
<1>1. Built => ArgumentsStayLocal
  <2> SUFFICES ASSUME Built, kind = "endpoint" PROVE PathsStayLocal(given \o input)
    BY Zenon DEF ArgumentsStayLocal
  <2>1. given \in Given("endpoint") /\ input \in Seq(Alphabet("endpoint"))
    BY Zenon DEF Built
  <2>2. PICK A, G : A = Alphabet("endpoint") /\ G = Given("endpoint")
    BY Zenon
  <2>3. A \subseteq STRING /\ G \subseteq Seq(STRING)
    BY <2>2, InputsAssumption, Zenon
  <2>4. given \o input \in Seq(STRING)
    <3>1. given \in Seq(STRING) /\ input \in Seq(STRING)
      BY <2>1, <2>2, <2>3
    <3> QED BY <3>1
  <2> QED BY NumbersWellOrdered, <2>4, EndpointsKept, Zenon
<1> QED BY <1>1, AlwaysBuilt, PTL

(* The names of a database, whatever their characters (resolve_db_path,
   get_db_lock). *)
THEOREM SpellingsShare == Spec => []SpellingsShareALock
<1>1. Built => SpellingsShareALock
  BY NumbersWellOrdered, LockOfFile, Zenon DEF Built, SpellingsShareALock
<1> QED BY <1>1, AlwaysBuilt, PTL

(* The list of the databases and a round of replication, for every walk of a
   data directory, whatever its files answer, and every state of the replica
   (list_databases, default-replica-sync.sh). *)
THEOREM ReplicasKeep == Spec => []ReplicasKeepDatabases
<1>1. Built => ReplicasKeepDatabases
  <2> SUFFICES ASSUME Built, kind \in {"listing", "round"}
               PROVE  ListingIsComplete(input) /\ RoundLosesNothing(input, given)
    BY Zenon DEF ReplicasKeepDatabases
  <2>1. PICK A, F : A = Alphabet(kind) /\ F = FileOf(Seq(STRING))
    BY Zenon
  <2>2. A \subseteq F
    BY <2>1, InputsAssumption, Zenon
  <2>3. input \in Seq(A)
    BY <2>1, Zenon DEF Built
  <2>4. input \in Seq(F)
    BY <2>2, <2>3
  <2>5. input \in Seq(FileOf(Seq(STRING)))
    BY <2>1, <2>4, Zenon
  <2> QED BY NumbersWellOrdered, <2>5, ListsComplete, RoundKeeps, Zenon
<1> QED BY <1>1, AlwaysBuilt, PTL

(* The statements of a script, whatever its characters, all of them or none
   (split_sql_statements, batch). *)
THEOREM ScriptsRunAsRead == Spec => []ScriptsRunWhole
<1>1. Built => ScriptsRunWhole
  BY NumbersWellOrdered, ScriptsRun, Zenon DEF Built, ScriptsRunWhole
<1> QED BY <1>1, AlwaysBuilt, PTL

(* The target of a command, for all options, and the calls of an interactive
   session, however long (to_client_target, run_repl). *)
THEOREM CommandsReach == Spec => []CommandsReachTheirTarget
<1>1. Built => CommandsReachTheirTarget
  <2> SUFFICES ASSUME Built
               PROVE  /\ kind = "options" => TargetFollowsOptions(given)
                      /\ kind = "session" => SessionActsAsCommands("a", given, input)
    BY Zenon DEF CommandsReachTheirTarget
  <2>1. ASSUME kind = "options" PROVE TargetFollowsOptions(given)
    <3>1. given \in Given("options")
      BY <2>1, Zenon DEF Built
    <3>2. OptionsFilled(given)
      BY <3>1, InputsAssumption, Zenon
    <3> QED BY <3>2, OptionsFollowed, Zenon
  <2>2. SessionActsAsCommands("a", given, input)
    BY NumbersWellOrdered, SessionsAct, Zenon DEF Built
  <2> QED BY <2>1, <2>2, Zenon
<1> QED BY <1>1, AlwaysBuilt, PTL

(* The delays of the retries, for all settings (retry_delay_for_attempt_core). *)
THEOREM DelaysAreInBand == Spec => []DelaysInBand
<1>1. Built => DelaysInBand
  <2> SUFFICES ASSUME Built, kind = "delay"
               PROVE  DelaysStayInBand(given.base, given.max, given.pct, given.attempt,
                                       given.entropy, given.next_entropy)
    BY Zenon DEF DelaysInBand
  <2>1. given \in [base : Nat, max : Nat, pct : Nat, attempt : Nat \ {0},
                   entropy : Nat, next_entropy : Nat]
    BY InputsAssumption, Zenon DEF Built
  <2>2. /\ given.base \in Nat /\ given.max \in Nat /\ given.pct \in Nat
        /\ given.attempt \in Nat \ {0} /\ given.entropy \in Nat /\ given.next_entropy \in Nat
    BY <2>1
  <2> QED BY <2>2, DelaysStay, Zenon
<1> QED BY <1>1, AlwaysBuilt, PTL

(* /healthz at every time and for every interval of the loop, though heartbeat
   and clock are cut to seconds (run_readiness_http_server), and the lease that
   `status` shows, also where the sums saturate (get_cluster_status,
   print_cluster_status). *)
THEOREM StatusIsTrue == Spec => []StatusTells
<1>1. Built => StatusTells
  <2> SUFFICES ASSUME Built
               PROVE  /\ kind = "probe" => SlowTicksStayHealthy(given.last, given.now, given.interval)
                      /\ kind = "lease" => ShownLeaseAgrees([renewed |-> given.renewed, ttl |-> given.ttl],
                                                            given.now, given.delay)
    BY Zenon DEF StatusTells
  <2>1. ASSUME kind = "probe" PROVE SlowTicksStayHealthy(given.last, given.now, given.interval)
    <3>1. given \in [last : Nat, now : Nat, interval : Nat]
      BY <2>1, InputsAssumption, Zenon DEF Built
    <3>2. given.last \in Nat /\ given.now \in Nat /\ given.interval \in Nat
      BY <3>1
    <3> QED BY <3>2, HealthFollowsTheLoop, Zenon
  <2>2. ASSUME kind = "lease"
        PROVE  ShownLeaseAgrees([renewed |-> given.renewed, ttl |-> given.ttl], given.now, given.delay)
    <3>1. given \in [renewed : Nat, ttl : Nat, now : Nat, delay : Nat]
      BY <2>2, InputsAssumption, Zenon DEF Built
    <3>2. PICK l : l = [renewed |-> given.renewed, ttl |-> given.ttl]
      BY Zenon
    <3>3. l \in [renewed : Nat, ttl : Nat] /\ given.now \in Nat /\ given.delay \in Nat
      BY <3>1, <3>2
    <3>4. ShownLeaseAgrees(l, given.now, given.delay)
      BY <3>3, StatusCanBeActedOn, Zenon
    <3> QED BY <3>2, <3>4, Zenon
  <2> QED BY <2>1, <2>2, Zenon
<1> QED BY <1>1, AlwaysBuilt, PTL

(* A lease or a ledger that is read while it is written, for every holder and all
   numbers (parse_lease_record, parse_freshness_ledger). *)
THEOREM TornRecordsStay == Spec => []TornRecordsAreNoBetter
<1>1. Built => TornRecordsAreNoBetter
  <2> SUFFICES ASSUME Built, kind = "record", Len(input) = 3
               PROVE  TornIsNoBetter(given, input[1], input[2], input[3])
    BY Zenon DEF TornRecordsAreNoBetter
  <2>1. given \in Given("record") /\ input \in Seq(Alphabet("record"))
    BY Zenon DEF Built
  <2>2. given \in Seq(Nat) /\ given # <<>>
    BY <2>1, InputsAssumption, Zenon
  <2>3. PICK A : A = Alphabet("record")
    BY Zenon
  <2>4. input[1] \in A /\ input[2] \in A /\ input[3] \in A
    <3>1. input \in Seq(A)
      BY <2>1, <2>3, Zenon
    <3>2. 1 \in 1..Len(input) /\ 2 \in 1..Len(input) /\ 3 \in 1..Len(input)
      OBVIOUS
    <3> QED BY <3>1, <3>2, SeqElement, Zenon
  <2>5. ASSUME NEW text \in A PROVE text \in Seq(Nat) /\ IsU64(text)
    <3>1. text \in Seq(Digits) /\ IsU64(text)
      BY <2>3, InputsAssumption, Zenon
    <3>2. Digits \subseteq Nat
      BY RecordsAssumption DEF Digits
    <3>3. text \in Seq(Nat)
      BY <3>1, <3>2, SeqWider, Zenon
    <3> QED BY <3>1, <3>3, Zenon
  <2> QED BY NumbersWellOrdered, <2>2, <2>4, <2>5, RecordsSurvive, Zenon
<1> QED BY <1>1, AlwaysBuilt, PTL

(* What a read returns are bytes. *)
LEMMA ReadsTyped ==
  ASSUME NEW payloads \in Seq(Sendable), NEW sizes \in Seq(Nat)
  PROVE  Reads(payloads, sizes) \in Seq(Seq(Byte))
<1>1. PICK stream : stream = Frame(payloads, Len(payloads)) /\ stream \in Seq(Byte)
  <2>1. PICK n \in Nat : n = Len(payloads) /\ n \in 0..n
    BY LenTyped
  <2>2. Framed(payloads, Concats(Encoded(payloads)))
    BY NumbersWellOrdered, FramesAre, Zenon
  <2> QED BY <2>1, <2>2, Zenon DEF Framed, Frame, Encoded
<1>2. PICK l \in Nat : l = Len(stream)
  BY <1>1, LenTyped, Zenon
<1>3. PICK n \in Nat : n = Len(sizes) /\ DOMAIN sizes = 1..n
  OBVIOUS
<1>4. PICK upto : upto = Numbers(sizes, 1) /\ \A i \in 0..n : upto[i] \in Nat
  <2>1. 1 \in Nat
    OBVIOUS
  <2> QED BY NumbersWellOrdered, <1>3, <2>1, NumbersAre, Zenon
<1>5. PICK reads : reads = [i \in 1..n |-> SubSeq(stream, upto[i - 1] + 1, Lesser(upto[i], l))]
  BY Zenon
<1>6. ASSUME NEW i \in 1..n PROVE reads[i] \in Seq(Byte)
  <2>1. i - 1 \in 0..n /\ i \in 0..n
    OBVIOUS
  <2>2. PICK a \in Nat, b \in Nat : a = upto[i - 1] /\ b = upto[i]
    BY <1>4, <2>1, Zenon
  <2>3. a + 1 \in Nat \ {0} /\ Lesser(b, l) \in 0..l
    BY DEF Lesser
  <2>4. SubSeq(stream, a + 1, Lesser(b, l)) \in Seq(Byte)
    BY <1>1, <1>2, <2>3, CutTyped, Zenon
  <2> QED BY <1>5, <2>2, <2>4, Zenon
<1>7. reads \in [1..n -> Seq(Byte)]
  BY <1>5, <1>6, Zenon
<1>8. reads = Reads(payloads, sizes)
  BY <1>1, <1>2, <1>3, <1>4, <1>5, Zenon DEF Reads
<1> QED BY <1>7, <1>8, SeqFrom, Zenon

(* Messages on a stream and over gRPC, for every sequence of payloads of less than
   2^32 bytes, every way to cut the stream into reads and every run of hash bytes
   (encode, decode, try_take_framed_message, TryFrom<SyncMessage>). *)
THEOREM MessagesArrive == Spec => []MessagesSurvive
<1>1. Built => MessagesSurvive
  <2> SUFFICES ASSUME Built PROVE MessagesSurvive
    OBVIOUS
  <2>1. ASSUME kind = "frames" PROVE FramesSurvive(given, Reads(given, input))
    <3>1. given \in Given("frames") /\ input \in Seq(Alphabet("frames"))
      BY <2>1, Zenon DEF Built
    <3>2. input \in Seq(Nat)
      <4>1. Alphabet("frames") \subseteq Nat
        BY InputsAssumption, Zenon
      <4> QED BY <3>1, <4>1, SeqWider, Zenon
    <3>3. given \in Seq(Seq(Byte))
      BY <3>1, InputsAssumption, Zenon DEF Byte
    <3>4. PICK n \in Nat : n = Len(given) /\ DOMAIN given = 1..n /\ given \in [1..n -> Seq(Byte)]
      BY <3>3
    <3>5. \A i \in 1..n : given[i] \in Sendable
      <4>1. \A i \in 1..n : Len(given[i]) < Radix * Radix * Radix * Radix
        BY <3>1, <3>4, InputsAssumption, Zenon
      <4>2. \A i \in 1..n : given[i] \in Seq(Byte)
        BY <3>4, Zenon
      <4> QED BY <4>1, <4>2, Zenon DEF Sendable
    <3>6. given \in [1..n -> Sendable]
      BY <3>4, <3>5, Zenon
    <3>7. given \in Seq(Sendable)
      BY <3>6, SeqFrom, Zenon
    <3> QED BY NumbersWellOrdered, <3>2, <3>7, ReadsTyped, FramesArrive, Zenon
  <2>2. ASSUME kind = "packed"
        PROVE  PackedAgrees([kind |-> given.kind, nos |-> given.nos, hashes |-> input])
    <3>1. given \in Given("packed") /\ input \in Seq(Alphabet("packed"))
      BY <2>2, Zenon DEF Built
    <3>2. given.nos \in Seq(Nat)
      BY <3>1, InputsAssumption, Zenon
    <3> QED BY NumbersWellOrdered, <3>1, <3>2, PackedAgree, Zenon
  <2> QED BY <2>1, <2>2, Zenon DEF MessagesSurvive
<1> QED BY <1>1, AlwaysBuilt, PTL

(* The rows of a query on their way to the reader, for every result, limit and size
   of a chunk (stream_query_chunks), and printed for two columns of any names and
   all values (print_delimited, print_json). *)
THEOREM ResultsAreRead == Spec => []ResultsArrive
<1>1. Built => ResultsArrive
  <2> SUFFICES ASSUME Built PROVE ResultsArrive
    OBVIOUS
  <2>1. ASSUME kind = "stream"
        PROVE  StreamAgreesWithQuery(<<"c">>, input, given.max_rows, given.chunk_size)
    <3>1. given \in Given("stream") /\ input \in Seq(Alphabet("stream"))
      BY <2>1, Zenon DEF Built
    <3>2. given \in [max_rows : Nat, chunk_size : Nat \ {0}]
      BY <3>1, InputsAssumption, Zenon
    <3>3. given.max_rows \in Nat /\ given.chunk_size \in Nat \ {0}
      BY <3>2, Zenon
    <3> QED BY NumbersWellOrdered, <3>1, <3>3, StreamsAgree, Zenon
  <2>2. ASSUME kind = "printed"
        PROVE  PrintedReadsBack(given, [r \in 1..(Len(input) \div 2) |-> <<input[2 * r - 1], input[2 * r]>>])
    <3>1. given \in Given("printed") /\ input \in Seq(Alphabet("printed"))
      BY <2>2, Zenon DEF Built
    <3>2. given \in Seq(Seq(STRING)) /\ Len(given) = 2
      BY <3>1, InputsAssumption, Zenon
    <3>3. PICK cells \in Seq(Values) : cells = input
      BY <3>1, InputsAssumption, SeqWider, Zenon
    <3>4. PICK n \in Nat : n = Len(cells) \div 2 /\ 2 * n <= Len(cells)
      OBVIOUS
    <3>5. PICK rows : rows = [r \in 1..n |-> <<cells[2 * r - 1], cells[2 * r]>>]
      BY Zenon
    <3>6. ASSUME NEW r \in 1..n
          PROVE  <<cells[2 * r - 1], cells[2 * r]>> \in Seq(Values) /\ Len(<<cells[2 * r - 1], cells[2 * r]>>) = 2
      <4>1. 2 * r - 1 \in 1..Len(cells) /\ 2 * r \in 1..Len(cells)
        BY <3>4
      <4>2. PICK u \in Values, v \in Values : u = cells[2 * r - 1] /\ v = cells[2 * r]
        BY <4>1, SeqElement, Zenon
      <4>3. <<u, v>> \in Seq(Values) /\ Len(<<u, v>>) = 2
        OBVIOUS
      <4> QED BY <4>2, <4>3, Zenon
    <3>7. rows \in [1..n -> Seq(Values)] /\ \A r \in 1..n : Len(rows[r]) = 2
      BY <3>5, <3>6, Zenon
    <3>8. rows \in Seq(Seq(Values)) /\ DOMAIN rows = 1..n
      BY <3>7, SeqFrom, Zenon
    <3>9. given # <<>>
      BY <3>2
    <3>10. PrintedReadsBack(given, rows)
      BY NumbersWellOrdered, <3>2, <3>7, <3>8, <3>9, PrintedIsRead, Zenon
    <3> QED BY <3>3, <3>4, <3>5, <3>10, Zenon
  <2> QED BY <2>1, <2>2, Zenon DEF ResultsArrive
<1> QED BY <1>1, AlwaysBuilt, PTL
=============================================================================
