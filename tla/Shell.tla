------------------------------- MODULE Shell --------------------------------
(* The command-line client (cli/client.rs): which target its options select,
   how a script is split into statements, what a command and a session of the
   interactive shell send to the gateway or to the local engine.

   A script is a sequence of characters, with one for each class that is told
   apart: "a" for the text of statements, "sp" and "nl" for white space, "'",
   "dq", "bt" (a backtick), "[" and "]" for the quotes of SQL, "semi" for the
   semicolon and "--", "/*" and "*/" for the ends of a comment.  The body of a
   trigger, which holds semicolons of its own, is not modelled: the shell cuts it
   at them. *)
EXTENDS Texts

-----------------------------------------------------------------------------
(* split_sql_statements *)

Blanks == {"sp", "nl"}
Push(stmts, text) == IF Range(text) \subseteq Blanks THEN stmts ELSE Append(stmts, text)
Keep(s, ch) == [s EXCEPT !.current = Append(@, ch)]

(* Mutant: double quotes do not hide a semicolon. *)
split_char_single(s, ch) ==
  CASE ch = "'" -> [Keep(s, ch) EXCEPT !.single = ~@]
    [] ch = "semi" /\ ~s.single -> [s EXCEPT !.stmts = Push(@, s.current), !.current = <<>>]
    [] OTHER -> Keep(s, ch)
split_char(s, ch) ==
  CASE ch = "'" /\ ~s.double -> [Keep(s, ch) EXCEPT !.single = ~@]
    [] ch = "dq" /\ ~s.single -> [Keep(s, ch) EXCEPT !.double = ~@]
    [] ch = "semi" /\ ~s.single /\ ~s.double ->
         [s EXCEPT !.stmts = Push(@, s.current), !.current = <<>>]
    [] OTHER -> Keep(s, ch)

Unsplit == [single |-> FALSE, double |-> FALSE, current |-> <<>>, stmts |-> <<>>]
Splitting(sql) ==
  LET after[i \in 0..Len(sql)] ==
        IF i = 0 THEN Unsplit ELSE split_char(after[i - 1], sql[i]) IN after

split_sql_statements(sql) ==
  LET s == Splitting(sql)[Len(sql)] IN Push(s.stmts, s.current)

(* SQLite's own reading of a text: comments and white space are skipped outside
   quotes, and a semicolon outside both ends a statement.  What opens a quote or a
   comment, and what closes it. *)
Closer == [ch \in {"'", "dq", "bt", "[", "--", "/*"} |->
             CASE ch = "[" -> "]" [] ch = "--" -> "nl" [] ch = "/*" -> "*/" [] OTHER -> ch]
Comments == {"--", "/*"}
lex_code(s, ch) ==
  CASE ch \in Comments -> [s EXCEPT !.mode = ch]
    [] ch = "semi" -> [s EXCEPT !.stmts = Push(@, s.current), !.current = <<>>]
    [] ch \in Blanks -> s
    [] OTHER -> [s EXCEPT !.current = Append(@, ch), !.mode = IF ch \in DOMAIN Closer THEN ch ELSE @]
lex(s, ch) ==
  IF s.mode = "code" THEN lex_code(s, ch)
  ELSE [s EXCEPT !.current = IF s.mode \in Comments THEN @ ELSE Append(@, ch),
                 !.mode = IF ch = Closer[s.mode] THEN "code" ELSE @]

Unlexed == [mode |-> "code", current |-> <<>>, stmts |-> <<>>]
Lexing(sql) ==
  LET after[i \in 0..Len(sql)] == IF i = 0 THEN Unlexed ELSE lex(after[i - 1], sql[i]) IN after
Lexed(sql) == Lexing(sql)[Len(sql)]
Statements(sql) == Push(Lexed(sql).stmts, Lexed(sql).current)

(* PreparedStatement::new compiles the first statement of a text; of a text with
   comments only it makes a null statement, <<>>. *)
prepare(sql) == IF Statements(sql) = <<>> THEN <<>> ELSE <<Head(Statements(sql))>>

(* What a batch in a transaction leaves behind when no statement of it fails by
   itself (gateway/engine.rs): the step of a null statement is an error, after
   which stop_on_error rolls everything back; else the batch goes on and commits. *)
batch_keeps(stmts, stop_on_error) ==
  IF stop_on_error /\ \E i \in DOMAIN stmts : prepare(stmts[i]) = <<>> THEN <<>>
  ELSE Concat([i \in DOMAIN stmts |-> prepare(stmts[i])])
-----------------------------------------------------------------------------
(* Options.  "" is an option that is missing, or blank where the code trims it: of
   --data-dir it does not, so that a directory named by blanks is one. *)

(* to_client_config: how the writer is found. *)
discovery(o) ==
  IF o.endpoint # "" THEN <<"direct", o.endpoint>>
  ELSE IF o.kube_lease # "" THEN <<"custom", o.kube_lease>>
  ELSE IF o.endpoints # "" THEN <<"candidates", o.endpoints>>
  ELSE <<"direct", "localhost">>

(* data_dir is --data-dir, env_dir RSQLITE_DATA_DIR, env_remote tells whether
   one of the RSQLITE_ variables for remote targets is set. *)
to_client_target(o) ==
  LET dir == IF o.data_dir # "" THEN o.data_dir ELSE o.env_dir
      remote == o.endpoint # "" \/ o.endpoints # "" \/ o.kube_lease # ""
      env_blocks == o.data_dir = "" /\ o.env_remote IN
  CASE o.mode = "local" -> IF dir = "" THEN <<"error", "">> ELSE <<"local", dir>>
    [] o.mode = "cluster" -> discovery(o)
    [] o.mode = "auto" ->
         IF ~remote /\ dir # "" /\ ~env_blocks THEN <<"local", dir>> ELSE discovery(o)
-----------------------------------------------------------------------------
(* Commands and sessions.  A call is what reaches the unified client: its kind,
   the database, the text and the format of the answer. *)

Call(op, db, text, format) == [op |-> op, db |-> db, text |-> text, format |-> format]

(* Of a statement, the first word in upper case. *)
is_query_sql(sql) == sql.word \in {"SELECT", "PRAGMA", "EXPLAIN", "WITH"}

(* run_sql_shorthand, and a line of SQL in the shell. *)
run_sql(db, sql, format) ==
  Call(IF is_query_sql(sql) THEN "query" ELSE "execute", db, sql, format)

confirm_drop_database(answer) == answer \in {"y", "yes"}

status(format) == Call("status", "", [word |-> ""], format)

(* .tables and .schema read the catalog. *)
catalog(db, format) == Call("query", db, [word |-> "SELECT"], format)

(* A script is "nofile", which cannot be read, "empty", or some statements. *)
batch(db, script, stop_on_error, format) ==
  Call("batch", db, [script |-> script, stop_on_error |-> stop_on_error], format)

(* run_client_command: the calls of a command, none when its input is refused. *)
run_client_command(c) ==
  CASE c.kind \in {"exec", "query"} ->
         IF c.params = "malformed" THEN <<>>
         ELSE <<Call(IF c.kind = "exec" THEN "execute" ELSE "query", c.db, c.sql, c.format)>>
    [] c.kind = "batch" ->
         IF c.script \in {"nofile", "empty"} THEN <<>>
         ELSE <<batch(c.db, c.script, c.stop_on_error, c.format)>>
    [] c.kind = "status" -> <<status(c.format)>>
    [] c.kind = "drop" ->
         IF c.yes \/ confirm_drop_database(c.answer)
         THEN <<Call("drop", c.db, [word |-> ""], c.format)>> ELSE <<>>
    [] c.kind = "sql" -> <<run_sql(c.db, c.sql, c.format)>>

(* Client: the engine of this process, with generation 1, or the client crate.
   The status of a local target is made from its list of databases. *)
perform(target, call) ==
  IF target[1] = "local"
  THEN [by |-> "engine", op |-> IF call.op = "status" THEN "list_databases" ELSE call.op]
  ELSE [by |-> "gateway", op |-> call.op]

(* A command with its options: without a target nothing is sent. *)
Sent(o, c) ==
  IF to_client_target(o)[1] = "error" THEN <<>>
  ELSE [i \in DOMAIN run_client_command(c) |->
          perform(to_client_target(o), run_client_command(c)[i])]

Formats == {"table", "json", "csv", "tsv", "raw"}

(* Mutant: an unknown format selects the default one. *)
handle_metacommand_default(s, line) ==
  CASE line.kind = "quit" -> [s EXCEPT !.over = TRUE]
    [] line.kind \in {"tables", "schema"} -> [s EXCEPT !.calls = Append(@, catalog(s.db, s.format))]
    [] line.kind = "database" /\ line.arg # "" -> [s EXCEPT !.db = line.arg]
    [] line.kind = "mode" /\ line.arg # "" ->
         [s EXCEPT !.format = IF line.arg \in Formats THEN line.arg ELSE "table"]
    [] line.kind = "status" -> [s EXCEPT !.calls = Append(@, status(s.format))]
    [] line.kind = "read" /\ line.arg \notin {"", "nofile"} ->
         [s EXCEPT !.calls = Append(@, batch(s.db, line.arg, TRUE, s.format))]
    [] OTHER -> s
(* handle_metacommand.  s: the session with its calls so far; a line is
   [kind, arg], arg "" if it is missing. *)
handle_metacommand(s, line) ==
  CASE line.kind = "quit" -> [s EXCEPT !.over = TRUE]
    [] line.kind \in {"tables", "schema"} -> [s EXCEPT !.calls = Append(@, catalog(s.db, s.format))]
    [] line.kind = "database" /\ line.arg # "" -> [s EXCEPT !.db = line.arg]
    [] line.kind = "mode" /\ line.arg \in Formats -> [s EXCEPT !.format = line.arg]
    [] line.kind = "status" -> [s EXCEPT !.calls = Append(@, status(s.format))]
    [] line.kind = "read" /\ line.arg \notin {"", "nofile"} ->
         [s EXCEPT !.calls = Append(@, batch(s.db, line.arg, TRUE, s.format))]
    [] OTHER -> s

(* run_repl.  The answer to a call, an error included, is printed and the
   session goes on; so it does after an interrupt. *)
run_repl_line(s, line) ==
  IF s.over THEN s
  ELSE IF line.kind \in {"eof", "readline_error"} THEN [s EXCEPT !.over = TRUE]
  ELSE IF line.kind \in {"blank", "interrupt"} THEN s
  ELSE IF line.kind = "sql"
  THEN [s EXCEPT !.calls = Append(@, run_sql(s.db, line.arg, s.format))]
  ELSE handle_metacommand(s, line)

Session(db, format, lines) ==
  LET after[i \in 0..Len(lines)] ==
        IF i = 0 THEN [db |-> db, format |-> format, over |-> FALSE, calls |-> <<>>]
        ELSE run_repl_line(after[i - 1], lines[i]) IN after
run_repl(db, format, lines) == Session(db, format, lines)[Len(lines)]

-----------------------------------------------------------------------------
(* A script of plain statements runs whole or not at all (split_sql_statements, one
   prepare for each piece, batch): when its comments, and its names in brackets or
   backticks, hold no quote and no semicolon and all its quotes are closed, what a
   batch keeps that goes on after errors are the statements SQLite reads in the
   text, in order, none lost, cut in two or run together.  One that stops at errors,
   as .read does, keeps the same or nothing; nothing only if the script has a
   comment, which may be a piece by itself. *)
ScriptRunsWhole(script) ==
  LET mode(i) == Lexing(script)[i - 1].mode
      last == mode(Len(script) + 1)
      plain == \A i \in DOMAIN script :
                 mode(i) \notin {"code", "'", "dq"} => script[i] \notin {"'", "dq", "semi"}
      noted == \E i \in 1..(Len(script) + 1) : mode(i) \in Comments
      kept(stop_on_error) == batch_keeps(split_sql_statements(script), stop_on_error) IN
  plain /\ last \in {"code"} \cup Comments =>
    /\ kept(FALSE) = Statements(script)
    /\ kept(TRUE) \in {<<>>, Statements(script)}
    /\ ~noted => kept(TRUE) = Statements(script)

(* Options as clap fills them, which takes a missing one from its variable. *)
OptionsFilled(o) ==
  /\ o.mode \in {"auto", "local", "cluster"}
  /\ o.env_dir # "" => o.data_dir # ""
  /\ o.env_remote => o.endpoint # "" \/ o.endpoints # "" \/ o.kube_lease # ""

(* The target follows the options (README, "Auto-Detection Hierarchy"): the local
   engine opens a data directory only if one is given and the mode is local, or
   no remote option is; cluster mode never opens a file; an endpoint wins over a
   lease and a lease over candidates; and a command reaches the engine of this
   process in the first case only, and nothing without a target. *)
TargetFollowsOptions(o) ==
  LET target == to_client_target(o)
      given == {f \in {"endpoint", "endpoints", "kube_lease"} : o[f] # ""} IN
  /\ target[1] = "local" <=> o.data_dir # "" /\ (o.mode = "local" \/ (o.mode = "auto" /\ given = {}))
  /\ target[1] = "local" => target[2] = o.data_dir
  /\ target[1] = "error" <=> o.mode = "local" /\ o.data_dir = ""
  /\ target[1] = "custom" => "endpoint" \notin given /\ target[2] = o.kube_lease
  /\ target[1] = "candidates" => given = {"endpoints"}
  /\ target[1] = "direct" => target[2] = IF given = {} THEN "localhost" ELSE o.endpoint
  /\ LET sent == Sent(o, [kind |-> "drop", yes |-> TRUE, db |-> "a", format |-> "table"]) IN
       IF target[1] = "error" THEN sent = <<>>
       ELSE sent = <<[by |-> IF target[1] = "local" THEN "engine" ELSE "gateway", op |-> "drop"]>>

(* The calls of the command that does what a line of a session does, with the
   database and the format of the session; none for a line that only changes the
   session. *)
AsCommand(line, db, format) ==
  CASE line.kind = "sql" ->
         run_client_command([kind |-> "sql", db |-> db, sql |-> line.arg, format |-> format])
    [] line.kind \in {"tables", "schema"} ->
         run_client_command([kind |-> "query", params |-> "ok", db |-> db,
                             sql |-> [word |-> "SELECT"], format |-> format])
    [] line.kind = "status" -> run_client_command([kind |-> "status", format |-> format])
    [] line.kind = "read" /\ line.arg # "" ->
         run_client_command([kind |-> "batch", db |-> db, script |-> line.arg,
                             stop_on_error |-> TRUE, format |-> format])
    [] OTHER -> <<>>

(* A session does what its lines do as commands, one by one, on the database
   chosen last and in the format chosen last, and nothing after its end
   (run_repl, handle_metacommand, run_client_command, run_sql_shorthand).  The
   one line without its like is .read of an empty script: the shell sends an
   empty batch, the command says there is nothing to do. *)
SessionActsAsCommands(db, format, lines) ==
  LET ends == {i \in DOMAIN lines : lines[i].kind \in {"quit", "eof", "readline_error"}}
      live == {i \in DOMAIN lines : \A j \in ends : i < j}
      chosen(i, kind, valid) ==
        {j \in 1..(i - 1) : lines[j].kind = kind /\ lines[j].arg \in valid}
      latest(i, kind, valid, start) ==
        IF chosen(i, kind, valid) = {} THEN start ELSE lines[Max(chosen(i, kind, valid))].arg
      dbs == {lines[j].arg : j \in {j \in DOMAIN lines : lines[j].kind = "database"}} \ {""}
      sent == run_repl(db, format, lines).calls IN
  At(sent, {i \in DOMAIN sent : sent[i].op = "batch" => sent[i].text.script # "empty"})
    = Concat([i \in DOMAIN lines |->
                IF i \in live THEN AsCommand(lines[i], latest(i, "database", dbs, db),
                                             latest(i, "mode", Formats, format))
                ELSE <<>>])
=============================================================================
