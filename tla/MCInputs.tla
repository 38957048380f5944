------------------------------ MODULE MCInputs ------------------------------
(* Small inputs: every case of the code within a few pieces. *)
EXTENDS Inputs

MCKinds == {"frames", "packed", "record", "endpoint", "name", "listing", "script", "options",
            "session", "value", "parameters", "stream", "printed", "delay", "probe",
            "round", "lease"}

MCHexDigits == <<"0", "1", "2", "3", "4", "5", "6", "7", "8", "9", "a", "b", "c", "d", "e", "f">>
MCAddresses == {<<"1", ".", "1">>, <<":", ":", "1">>}
MCLocalhost == <<"localhost">>

(* Streams with an empty message, one made of zeros, one longer than
   MaxMessageSize. *)
Streams == {<< <<1>>, <<>>, <<0, 0>> >>, << <<2, 1>>, <<1, 1, 1>>, <<2>> >>, << <<>>, <<1, 2>> >>}

Rows(waits) == [waits |-> waits, wait |-> "busy", then |-> "row"]
File(path, what, page_size, page_count) ==
  [path |-> path, kind |-> what, page_size |-> page_size, page_count |-> page_count]
Database(path, waits) == File(path, "file", Rows(0), Rows(waits))
Files ==
  {Database(<<"x">>, waits) : waits \in 0..2}
  \cup {File(<<"y">>, "file", Rows(2), Rows(0)), File(<<"z">>, "sidecar", Rows(0), Rows(0)),
        File(<<"y">>, "file", Rows(1), [Rows(1) EXCEPT !.then = "error"]),
        File(<<"x">>, "file", Rows(0), [Rows(2) EXCEPT !.wait = "done"]),
        File(<<"w">>, "closed", Rows(0), Rows(0)),
        Database(<<"z", "x">>, 0), Database(<<"w", "x">>, 2), Database(<<"w", "z">>, 0),
        File(<<"w", "x", "y">>, "file", [Rows(0) EXCEPT !.then = "busy"], Rows(0))}

Held == {{}, {<<"x">>}, {<<"x">>, <<"y">>, <<"z">>}, {<<"w", "z">>, <<"y">>}}
Rounds ==
  [token : {TRUE}, holder : {"writer"}, configured : {{}, {<<"x">>}},
   status : {"answers", "fails", "garbled"}, local : Held, failing : Held,
   spared : {{}, {<<"y">>}}, stuck : {{}, {<<"x">>}}]
  \cup [token : BOOLEAN, holder : {"", "self"}, configured : {{}}, status : {"answers"},
        local : {{<<"y">>}}, failing : {{}}, spared : {{}}, stuck : {{}}]

Cmd(what, arg) == [kind |-> what, arg |-> arg]
SessionLines ==
  {Cmd(k, "") : k \in {"tables", "schema", "status", "help", "blank", "interrupt", "quit", "eof"}}
  \cup {Cmd("database", db) : db \in {"", "b"}}
  \cup {Cmd("mode", f) : f \in {"", "csv", "bogus"}}
  \cup {Cmd("read", f) : f \in {"", "nofile", "empty", "script"}}
SqlLines == {Cmd("sql", [word |-> w]) : w \in {"SELECT", "WITH", "INSERT"}}

Options ==
  {o \in [mode : {"auto", "local", "cluster"}, data_dir : {"", "dir"}, endpoint : {"", "e"},
          endpoints : {"", "e,f"}, kube_lease : {"", "lease"}, env_dir : {"", "dir"},
          env_remote : BOOLEAN] : OptionsFilled(o)}

Statement == {<<>>, << <<":", "a">> >>, << <<":", "a">>, <<"@", "b">> >>, << <<"?">>, <<"$", "a">> >>,
              << <<":", "a">>, <<"@", "a">> >>}
Cells == {Null, <<"int", <<"1">>>>, <<"float", <<"inf">>>>, <<"text", <<>>>>, <<"text", <<"comma">>>>,
          <<"text", <<"dq", "comma">>>>, <<"text", <<"nl">>>>, <<"blob", <<171>>>>}

MCGiven(k) ==
  CASE k = "frames" -> Streams
    [] k = "packed" -> [kind : {"GroupHashes", "PageHashes", "Init", "none"}, nos : {<<>>, <<1>>, <<1, 0>>}]
    [] k = "record" -> {<<7>>, <<7, 8>>}
    [] k = "endpoint" -> {<<>>, <<"grpc">>}
    [] k = "options" -> Options
    [] k = "session" -> {"table", "json"}
    [] k = "parameters" -> Statement
    [] k = "stream" -> [max_rows : 0..4, chunk_size : 1..3]
    [] k = "printed" -> {<<<<"a">>, <<"b">>>>, <<<<"a">>, <<"a">>>>, <<<<"a", "comma">>, <<"b">>>>}
    [] k = "delay" -> [base : 0..3, max : {0, 2, 5}, pct : {0, 25, 33, 100}, attempt : 1..4,
                       entropy : 0..6, next_entropy : 0..6]
    [] k = "probe" -> [last : 4..9, now : 0..40, interval : 0..4]
    [] k = "round" -> Rounds
    [] k = "lease" -> [renewed : 0..6, ttl : 0..4, now : 0..8, delay : 0..2]
    [] OTHER -> {<<>>}

MCAlphabet(k) ==
  CASE k = "frames" -> {1, 2, 4, 5, 7}
    [] k = "packed" -> {0, 1}
    [] k = "record" -> {<<0>>, <<1>>, <<1, 2>>, <<2, 0>>}
    [] k = "endpoint" -> {"a", "1", ".", "/", ":", "@", "[", "]", "localhost"}
    [] k = "name" -> {"a", ".", "/", "sp"}
    [] k \in {"listing", "round"} -> Files
    [] k = "script" -> {"a", "'", "dq", "semi", "--", "nl", "/*", "*/", "[", "]"}
    [] k = "session" -> SessionLines \cup SqlLines
    [] k = "value" -> {"0", "1", ".", "-", "=", "sp", "x'", "'", "null", "inf", "a"}
    [] k = "parameters" -> {<<"1">>, <<"null">>, <<"x'", "1", "'">>, <<"a", "=", "1">>,
                            <<":", "a", "=", "0">>, <<"b", "=", "a">>, <<"c", "=", "1">>}
    [] k = "stream" -> {1, 2}
    [] k = "printed" -> Cells
    [] OTHER -> {}

MCLength(k) ==
  CASE k \in {"record", "listing", "parameters"} -> 3
    [] k \in {"value", "session", "printed"} -> 4
    [] k \in {"frames", "packed", "endpoint", "name", "stream", "script"} -> 5
    [] k = "round" -> 2
    [] OTHER -> 0
=============================================================================
