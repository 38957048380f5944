------------------------------ MODULE Results -------------------------------
(* Parameters and rows on their way between the command line and SQLite: the
   parameters of a command (cli/client.rs), their binding and the rows of a
   query or a stream (gateway/engine.rs, db.rs), and what is printed.

   A text is a sequence of characters: digits, ".", "-", "=", letters, "sp" for a
   blank, "comma", "dq" for the double quote, "nl" for a line feed; "null" stands
   for the word in any case, "inf" for the name of an infinite float, "x'" and "'"
   for the ends of a blob literal.  A value is <<kind, content>>; an integer and a float have their
   decimal text for content, a blob its bytes. *)
EXTENDS Integers, Texts

CONSTANTS
  HexDigits,  \* "0" to "f", in order
  MaxI64      \* i64::MAX

ASSUME ResultsAssumption == HexDigits \in Seq(STRING) /\ Len(HexDigits) >= 10 /\ MaxI64 \in Nat

Decimals == SubSeq(HexDigits, 1, 10)
Null == <<"null", <<>>>>
Values ==
  {Null} \cup ({"int", "float", "text"} \X Seq(STRING))
    \cup ({"blob"} \X Seq(0..(Len(HexDigits) * Len(HexDigits) - 1)))
-----------------------------------------------------------------------------
(* parse_cli_parameters, parse_string_to_value *)

IsBlank(c) == c \in {"sp", "nl"}
Trim(text) ==
  LET ink == {i \in DOMAIN text : ~IsBlank(text[i])} IN
  IF ink = {} THEN <<>> ELSE SubSeq(text, Min(ink), Max(ink))

DigitOf(c) == CHOOSE i \in 0..(Len(HexDigits) - 1) : HexDigits[i + 1] = c
Unsigned(text) == IF text # <<>> /\ text[1] = "-" THEN Tail(text) ELSE text
AllDigits(text) == text # <<>> /\ Range(text) \subseteq Range(Decimals)
NumberOf(text) == Number([i \in DOMAIN text |-> DigitOf(text[i])], 10)

IsI64(text) ==
  LET body == Unsigned(text) IN
  AllDigits(body) /\ NumberOf(body) <= (IF body = text THEN MaxI64 ELSE MaxI64 + 1)

(* f64::from_str: digits with at most one point, or the name of infinity. *)
IsF64(text) ==
  LET body == Unsigned(text) IN
  body = <<"inf">> \/ \E i \in 0..Len(body) :
    /\ i > 0 => body[i] = "."
    /\ AllDigits(SubSeq(body, 1, i - 1) \o SubSeq(body, i + 1, Len(body)))

(* The shortest text of the number a text stands for. *)
Canonical(text) ==
  LET body == Unsigned(text)
      points == {i \in DOMAIN body : body[i] = "."}
      point == IF points = {} THEN Len(body) + 1 ELSE Min(points)
      whole == SubSeq(body, 1, point - 1)
      part == SubSeq(body, point + 1, Len(body))
      first == Min({i \in DOMAIN whole : whole[i] # "0"} \cup {Len(whole)})
      last == Max({i \in DOMAIN part : part[i] # "0"} \cup {0})
      shown == (IF whole = <<>> THEN <<"0">> ELSE SubSeq(whole, first, Len(whole)))
                 \o (IF last = 0 THEN <<>> ELSE <<".">> \o SubSeq(part, 1, last)) IN
  IF body = text THEN shown ELSE <<"-">> \o shown

(* i64 has no negative zero; f64 prints its own as "-0". *)
IntegerOf(text) == <<"int", IF Canonical(text) = <<"-", "0">> THEN <<"0">> ELSE Canonical(text)>>
FloatOf(text) == <<"float", IF Unsigned(text) = <<"inf">> THEN text ELSE Canonical(text)>>

IsBlobLiteral(text) == Len(text) > 1 /\ Head(text) = "x'" /\ text[Len(text)] = "'"
BytesOf(hex) ==
  [i \in 1..(Len(hex) \div 2) |->
     DigitOf(hex[2 * i - 1]) * Len(HexDigits) + DigitOf(hex[2 * i])]

(* {} is an error. *)
blob_literal(hex) ==
  IF Range(hex) \subseteq Range(HexDigits) /\ Len(hex) % 2 = 0
  THEN {<<"blob", BytesOf(hex)>>} ELSE {}

parse_string_to_value(text) ==
  CASE text = <<"null">> -> {Null}
    [] IsI64(text) -> {IntegerOf(text)}
    [] ~IsI64(text) /\ IsF64(text) -> {FloatOf(text)}
    [] IsBlobLiteral(text) -> blob_literal(SubSeq(text, 2, Len(text) - 1))
    [] OTHER -> {<<"text", text>>}

IsNamed(raw) == "=" \in Range(raw)
EqualsAt(raw) == Min({i \in DOMAIN raw : raw[i] = "="})
NameOf(raw) == Trim(SubSeq(raw, 1, EqualsAt(raw) - 1))
TextOf(raw) == Trim(IF IsNamed(raw) THEN SubSeq(raw, EqualsAt(raw) + 1, Len(raw)) ELSE raw)
ValueGiven(raw) == parse_string_to_value(TextOf(raw))

Unnamed(raws) == At(raws, {i \in DOMAIN raws : ~IsNamed(raws[i])})

(* The values without a name and those with one, each in the order given. *)
parse_cli_parameters(raws) ==
  IF \E i \in DOMAIN raws : ValueGiven(raws[i]) = {} THEN {}
  ELSE LET value(raw) == CHOOSE v \in ValueGiven(raw) : TRUE
           positional == Unnamed(raws)
           named == At(raws, {i \in DOMAIN raws : IsNamed(raws[i])}) IN
       {[positional |-> [i \in DOMAIN positional |-> value(positional[i])],
         named |-> [i \in DOMAIN named |->
                      [name |-> NameOf(named[i]), value |-> value(named[i])]]]}
-----------------------------------------------------------------------------
(* Binding.  A statement is the sequence of the names of its parameters. *)

(* The name itself, then with each of the prefixes SQLite has. *)
candidates(name) == <<name, <<":">> \o name, <<"@">> \o name, <<"$">> \o name>>

(* Mutant: a bare name is not looked for. *)
bind_parameter_index_exact(stmt, name) ==
  IF name \in Range(stmt) THEN Min({i \in DOMAIN stmt : stmt[i] = name}) ELSE 0
(* The index of the first candidate the statement has, 0 for None. *)
bind_parameter_index(stmt, name) ==
  LET found == {c \in 1..4 : candidates(name)[c] \in Range(stmt)} IN
  IF found = {} THEN 0
  ELSE Min({i \in DOMAIN stmt : stmt[i] = candidates(name)[Min(found)]})

(* bind_null, bind_int64, bind_double, bind_text, bind_blob: SQLITE_RANGE for an
   index the statement does not have.  A bound statement is {} after an error. *)
bind_proto_value(bound, index, value) ==
  {[b EXCEPT ![index] = value] : b \in {b \in bound : index \in DOMAIN b}}

(* Positional parameters first, then the named ones over them. *)
bind_positional(stmt, positional) ==
  LET after[i \in 0..Len(positional)] ==
        IF i = 0 THEN {[j \in DOMAIN stmt |-> Null]}
        ELSE bind_proto_value(after[i - 1], i, positional[i]) IN after
bind_named(stmt, bound, named) ==
  LET after[i \in 0..Len(named)] ==
        IF i = 0 THEN bound
        ELSE bind_proto_value(after[i - 1], bind_parameter_index(stmt, named[i].name),
                              named[i].value) IN after
bind_parameters(stmt, params) ==
  LET bound == bind_positional(stmt, params.positional)[Len(params.positional)] IN
  bind_named(stmt, bound, params.named)[Len(params.named)]

Bound(stmt, raws) == UNION {bind_parameters(stmt, p) : p \in parse_cli_parameters(raws)}
-----------------------------------------------------------------------------
(* Rows.  result: the rows SQLite would step through. *)

query(result, max_rows) ==
  LET n == IF max_rows > 0 /\ Len(result) > max_rows THEN max_rows ELSE Len(result) IN
  [rows |-> SubSeq(result, 1, n), total_rows |-> n]

Chunk(columns, rows, is_last, total_rows) ==
  [columns |-> columns, rows |-> rows, is_last |-> is_last, total_rows |-> total_rows]

(* Mutant: the rows left over are sent only if there are any. *)
FinalChunk_nonempty(s, columns) ==
  IF s.rows = <<>> THEN <<>> ELSE <<Chunk(IF s.first THEN columns ELSE <<>>, s.rows, TRUE, s.total)>>
FinalChunk(s, columns) == <<Chunk(IF s.first THEN columns ELSE <<>>, s.rows, TRUE, s.total)>>

(* One row; a full chunk is sent at once. *)
StreamRow(s, columns, row, chunk_size) ==
  LET rows == Append(s.rows, row) IN
  IF Len(rows) < chunk_size THEN [s EXCEPT !.rows = rows, !.total = @ + 1]
  ELSE [s EXCEPT !.rows = <<>>, !.total = @ + 1, !.first = FALSE,
        !.chunks = Append(@, Chunk(IF s.first THEN columns ELSE <<>>, rows, FALSE, s.total + 1))]

Streaming(columns, result, max_rows, chunk_size) ==
  LET after[i \in 0..Len(result)] ==
        IF i = 0 THEN [chunks |-> <<>>, rows |-> <<>>, total |-> 0, first |-> TRUE]
        ELSE IF max_rows > 0 /\ after[i - 1].total >= max_rows THEN after[i - 1]
        ELSE StreamRow(after[i - 1], columns, result[i], chunk_size) IN after
stream_query_chunks(columns, result, max_rows, chunk_size) ==
  LET s == Streaming(columns, result, max_rows, chunk_size)[Len(result)] IN
  s.chunks \o FinalChunk(s, columns)
-----------------------------------------------------------------------------
(* Printing *)

hex_encode(bytes) ==
  Concat([i \in DOMAIN bytes |-> <<HexDigits[(bytes[i] \div Len(HexDigits)) + 1],
                                    HexDigits[(bytes[i] % Len(HexDigits)) + 1]>>])

format_sql_value(v) ==
  CASE v[1] = "null" -> <<"null">>
    [] v[1] = "blob" -> <<"x'">> \o hex_encode(v[2]) \o <<"'">>
    [] v[1] \in {"int", "float", "text"} -> v[2]

DelimitedCell(v, delimiter) ==
  LET s == format_sql_value(v) IN
  IF v = Null THEN <<>>
  ELSE IF delimiter = "comma" /\ Range(s) \cap {"comma", "dq", "nl"} # {}
  THEN <<"dq">> \o Concat([i \in DOMAIN s |-> IF s[i] = "dq" THEN <<"dq", "dq">> ELSE <<s[i]>>])
         \o <<"dq">>
  ELSE s

Joined(cells, delimiter) ==
  Concat([i \in DOMAIN cells |-> IF i = 1 THEN cells[i] ELSE <<delimiter>> \o cells[i]])

(* The names of the columns, which are never quoted, then a line for each row. *)
print_delimited(columns, rows, delimiter) ==
  LET line(cells) == Joined(cells, delimiter) \o <<"nl">> IN
  line(columns) \o
  Concat([r \in DOMAIN rows |->
            line([c \in DOMAIN rows[r] |-> DelimitedCell(rows[r][c], delimiter)])])

(* An infinite float is no JSON number. *)
sql_value_to_json(v) ==
  CASE v[1] = "float" /\ Unsigned(v[2]) = <<"inf">> -> Null
    [] v[1] = "blob" -> <<"text", format_sql_value(v)>>
    [] OTHER -> v

(* print_json: an object for each row; of two columns with one name the last
   counts. *)
print_json(columns, rows) ==
  [r \in DOMAIN rows |->
     [n \in Range(columns) |->
        sql_value_to_json(rows[r][Max({i \in DOMAIN columns : columns[i] = n})])]]
-----------------------------------------------------------------------------
(* What is printed can be given back (parse_string_to_value, format_sql_value):
   the text of a parameter's value, given again, is the same value with the same
   type; only a float without decimals comes back as the integer it equals. *)
ParametersReadBack(raw) ==
  \A v \in ValueGiven(raw) :
    parse_string_to_value(format_sql_value(v))
      = {IF v[1] = "float" /\ IsI64(v[2]) THEN IntegerOf(v[2]) ELSE v}

(* Every parameter gets the value meant for it (parse_cli_parameters,
   bind_parameters, bind_parameter_index): the last one given under its name,
   with or without its prefix, or else the one at its place among those without
   a name, wherever named ones stand between them, or else NULL; and a command
   is refused exactly for a malformed literal, a name the statement does not
   have or a value too many.  Two parameters of the statement that differ only
   in their prefix are left out: a bare name is taken for the first kind. *)
ParametersLand(stmt, raws) ==
  LET base(name) == IF Head(name) \in {":", "@", "$"} THEN Tail(name) ELSE name
      unnamed == Unnamed(raws)
      naming(i) == {k \in DOMAIN raws : IsNamed(raws[k]) /\ NameOf(raws[k]) \in {stmt[i], base(stmt[i])}}
      meant(i) == IF naming(i) # {} THEN ValueGiven(raws[Max(naming(i))])
                  ELSE IF i <= Len(unnamed) THEN ValueGiven(unnamed[i]) ELSE {Null}
      refused == \/ \E k \in DOMAIN raws : ValueGiven(raws[k]) = {}
                 \/ Len(unnamed) > Len(stmt)
                 \/ \E k \in DOMAIN raws : IsNamed(raws[k]) /\ \A i \in DOMAIN stmt : k \notin naming(i) IN
  (\A i, j \in DOMAIN stmt : base(stmt[i]) = base(stmt[j]) => i = j)
    => Bound(stmt, raws) = IF refused THEN {} ELSE {[i \in DOMAIN stmt |-> CHOOSE v \in meant(i) : TRUE]}

(* A stream carries what a query returns (stream_query_chunks, query): the rows
   of its chunks are those of the query under the same limit, the columns come
   with the first chunk only, the last chunk and no other says that it is, also
   when the rows end with a full chunk or there are none, and each chunk counts
   the rows so far. *)
StreamAgreesWithQuery(columns, result, max_rows, chunk_size) ==
  LET chunks == stream_query_chunks(columns, result, max_rows, chunk_size)
      upto(i) == Concats([j \in DOMAIN chunks |-> chunks[j].rows])[i] IN
  /\ chunks # <<>>
  /\ upto(Len(chunks)) = query(result, max_rows).rows
  /\ \A i \in DOMAIN chunks :
       /\ chunks[i].columns = IF i = 1 THEN columns ELSE <<>>
       /\ chunks[i].is_last <=> i = Len(chunks)
       /\ chunks[i].total_rows = Len(upto(i))
       /\ Len(chunks[i].rows) <= chunk_size
  /\ chunks[Len(chunks)].total_rows = query(result, max_rows).total_rows

(* A reader of comma-separated lines: records of fields, a quoted field with
   doubled quotes. *)
ReadChar(s, c) ==
  CASE s.mode = "quoted" /\ c = "dq" -> [s EXCEPT !.mode = "closing"]
    [] s.mode = "quoted" /\ c # "dq" -> [s EXCEPT !.field = Append(@, c)]
    [] s.mode = "closing" /\ c = "dq" -> [s EXCEPT !.mode = "quoted", !.field = Append(@, c)]
    [] s.mode = "start" /\ c = "dq" -> [s EXCEPT !.mode = "quoted"]
    [] s.mode # "quoted" /\ c = "comma" ->
         [s EXCEPT !.mode = "start", !.record = Append(@, s.field), !.field = <<>>]
    [] s.mode # "quoted" /\ c = "nl" ->
         [s EXCEPT !.mode = "start", !.records = Append(@, Append(s.record, s.field)),
                   !.record = <<>>, !.field = <<>>]
    [] OTHER -> [s EXCEPT !.mode = "plain", !.field = Append(@, c)]

Reading(text) ==
  LET after[i \in 0..Len(text)] ==
        IF i = 0 THEN [mode |-> "start", field |-> <<>>, record |-> <<>>, records |-> <<>>]
        ELSE ReadChar(after[i - 1], text[i]) IN after
ReadCsv(text) == Reading(text)[Len(text)].records

(* Printed rows read back (print_delimited, print_json): a reader of
   comma-separated lines gets every cell, whatever its text holds, in its row
   and column, with NULL as the empty text; and the JSON object of a row agrees
   with them, but for an infinite float.  The names of the columns must be plain
   and distinct: neither form protects them. *)
PrintedReadsBack(columns, rows) ==
  LET cell(v) == IF v = Null THEN <<>> ELSE format_sql_value(v)
      plain == \A i \in DOMAIN columns : Range(columns[i]) \cap {"comma", "dq", "nl"} = {}
      distinct == \A i, j \in DOMAIN columns : columns[i] = columns[j] => i = j
      shown == [r \in DOMAIN rows |-> [c \in DOMAIN columns |-> cell(rows[r][c])]] IN
  plain /\ distinct =>
    /\ ReadCsv(print_delimited(columns, rows, "comma")) = <<columns>> \o shown
    /\ \A r \in DOMAIN rows, c \in DOMAIN columns :
         \/ cell(print_json(columns, rows)[r][columns[c]]) = shown[r][c]
         \/ rows[r][c][1] = "float" /\ Unsigned(rows[r][c][2]) = <<"inf">>
=============================================================================
