------------------------------ MODULE DbLocks -------------------------------
(***************************************************************************)
(* The calls a gateway node serves for one database at the same time:      *)
(* execute, batch and drop_database (src/gateway/server.rs and engine.rs), *)
(* and a replication session that pushes pages into the database           *)
(* (src/gateway/replication.rs).  Each checks the write fence when it      *)
(* arrives, looks up the mutex of its database, waits for it, and works    *)
(* under it.  The mutexes are tokio's: first come, first served.           *)
(***************************************************************************)
EXTENDS Naturals, Sequences

CONSTANTS
  Executes, Batches, Drops, Pushes,   \* the calls of each kind
  Statements,                         \* statements of a batch
  PushedPages                         \* pages a push writes

Calls == Executes \cup Batches \cup Drops \cup Pushes

ASSUME LocksAssumption ==
  /\ {Statements, PushedPages} \subseteq Nat \ {0}
  /\ Batches \cap (Executes \cup Drops \cup Pushes) = {}

VARIABLES
  writer,   \* HaSharedState::is_writer of this node
  entry,    \* the mutex db_mutexes holds for the database, 0 if none
  queue,    \* per mutex made so far: the calls at it, the first one owns it
  pc,       \* per call: "new", "lookup", "wait", "in", "unmap" or "done"
  mutex,    \* per call: the mutex it has looked up
  mode,     \* per batch: is there a transaction, does an error stop it
  done,     \* per call: statements run, or pages written
  failed,   \* per batch: a statement has failed
  open,     \* per batch: statements of its open transaction
  file,     \* the database file: each drop makes the next call start a new one
  opened,   \* per call: the file its connection has open
  rows,     \* statements whose effect is in the database
  reply     \* per call: "none" or its answer

vars == <<writer, entry, queue, pc, mutex, mode, done, failed, open, file, opened, rows, reply>>

-----------------------------------------------------------------------------
(* Arrival: check_write_access, or the refusal of a push to a writer *)

Admitted(c) == IF c \in Pushes THEN ~writer ELSE writer

Arrive(c) ==
  /\ pc[c] = "new"
  /\ Admitted(c)
  /\ pc' = [pc EXCEPT ![c] = "lookup"]
  /\ UNCHANGED <<writer, entry, queue, mutex, mode, done, failed, open, file, opened, rows, reply>>

Refuse(c) ==
  /\ pc[c] = "new"
  /\ ~Admitted(c)
  /\ pc' = [pc EXCEPT ![c] = "done"]
  /\ reply' = [reply EXCEPT ![c] = "not_leader"]
  /\ UNCHANGED <<writer, entry, queue, mutex, mode, done, failed, open, file, opened, rows>>

(* Mutant: every call gets a mutex of its own. *)
LockOfFresh == Len(queue) + 1
(* get_db_lock: the entry of the map, or a new one. *)
LockOf == IF entry = 0 THEN Len(queue) + 1 ELSE entry

Lookup(c) ==
  /\ pc[c] = "lookup"
  /\ entry' = LockOf
  /\ mutex' = [mutex EXCEPT ![c] = LockOf]
  /\ queue' = IF LockOf > Len(queue) THEN Append(queue, <<c>>)
              ELSE [queue EXCEPT ![LockOf] = Append(@, c)]
  /\ pc' = [pc EXCEPT ![c] = "wait"]
  /\ UNCHANGED <<writer, mode, done, failed, open, file, opened, rows, reply>>

Enter(c) ==
  /\ pc[c] = "wait"
  /\ Head(queue[mutex[c]]) = c
  /\ pc' = [pc EXCEPT ![c] = "in"]
  /\ opened' = [opened EXCEPT ![c] = file]
  /\ UNCHANGED <<writer, entry, queue, mutex, mode, done, failed, open, file, rows, reply>>

(* The answer, with the guard dropped. *)
Leave(c, answer) ==
  /\ pc' = [pc EXCEPT ![c] = "done"]
  /\ queue' = [queue EXCEPT ![mutex[c]] = Tail(@)]
  /\ reply' = [reply EXCEPT ![c] = answer]

-----------------------------------------------------------------------------
(* What the database holds after c has written: a file that was removed meanwhile
   takes the effect with it. *)
Written(c, effect) == IF opened[c] = file THEN rows \cup effect ELSE rows

(* DatabaseEngine::execute, and the errors on the way to a statement's step. *)

Execute(c) ==
  /\ c \in Executes /\ pc[c] = "in"
  /\ \/ rows' = Written(c, {<<c, 1>>}) /\ Leave(c, "ok")
     \/ rows' = rows /\ Leave(c, "error")
  /\ UNCHANGED <<writer, entry, mutex, mode, done, failed, open, file, opened>>

(* DatabaseEngine::batch: one statement.  A failing one ends the loop or is passed
   over. *)
BatchStatement(c) ==
  LET s == done[c] + 1 IN
  /\ c \in Batches /\ pc[c] = "in" /\ done[c] < Statements
  /\ \/ /\ IF mode[c].tx THEN open' = [open EXCEPT ![c] = @ \cup {<<c, s>>}] /\ rows' = rows
           ELSE rows' = Written(c, {<<c, s>>}) /\ open' = open
        /\ done' = [done EXCEPT ![c] = s]
        /\ UNCHANGED failed
     \/ /\ failed' = [failed EXCEPT ![c] = TRUE]
        /\ done' = [done EXCEPT ![c] = IF mode[c].stop THEN Statements ELSE s]
        /\ UNCHANGED <<rows, open>>
  /\ UNCHANGED <<writer, entry, queue, pc, mutex, mode, file, opened, reply>>

(* The connection cannot be opened, or the transaction cannot begin. *)
BatchFails(c) ==
  /\ c \in Batches /\ pc[c] = "in" /\ done[c] = 0
  /\ Leave(c, "error")
  /\ UNCHANGED <<writer, entry, mutex, mode, done, failed, open, file, opened, rows>>

(* Mutant: the transaction is committed whatever happened. *)
RollsBackNever(c) == FALSE
RollsBack(c) == failed[c] /\ mode[c].stop

BatchEnd(c) ==
  /\ c \in Batches /\ pc[c] = "in" /\ done[c] = Statements
  /\ open' = [open EXCEPT ![c] = {}]
  /\ \/ ~mode[c].tx /\ rows' = rows /\ Leave(c, IF failed[c] THEN "uncommitted" ELSE "committed")
     \/ mode[c].tx /\ ~RollsBack(c) /\ rows' = Written(c, open[c]) /\ Leave(c, "committed")
     \/ mode[c].tx /\ rows' = rows /\ Leave(c, "uncommitted")
  /\ UNCHANGED <<writer, entry, mutex, mode, done, failed, file, opened>>

(* DatabaseEngine::drop_database: the files, then the entry of the map. *)
DropFiles(c) ==
  /\ c \in Drops /\ pc[c] = "in"
  /\ \/ rows' = {} /\ file' = file + 1
        /\ pc' = [pc EXCEPT ![c] = "unmap"] /\ UNCHANGED <<queue, reply>>
     \/ rows' = {} /\ file' = file + 1 /\ Leave(c, "error")
     \/ UNCHANGED <<rows, file>> /\ Leave(c, "error")
  /\ UNCHANGED <<writer, entry, mutex, mode, done, failed, open, opened>>

DropUnmap(c) ==
  /\ pc[c] = "unmap"
  /\ entry' = 0
  /\ Leave(c, "ok")
  /\ UNCHANGED <<writer, mutex, mode, done, failed, open, file, opened, rows>>

(* The replica side of a pushed sync, as far as it gets. *)
PushPage(c) ==
  /\ c \in Pushes /\ pc[c] = "in" /\ done[c] < PushedPages
  /\ done' = [done EXCEPT ![c] = @ + 1]
  /\ UNCHANGED <<writer, entry, queue, pc, mutex, mode, failed, open, file, opened, rows, reply>>

PushEnds(c) ==
  /\ c \in Pushes /\ pc[c] = "in"
  /\ Leave(c, IF done[c] = PushedPages THEN "ok" ELSE "error")
  /\ UNCHANGED <<writer, entry, mutex, mode, done, failed, open, file, opened, rows>>

(* Mutant: a session without a time limit. *)
PushTimesOutNever(c) == FALSE /\ UNCHANGED vars
(* DEFAULT_REPLICATION_TIMEOUT *)
PushTimesOut(c) ==
  /\ c \in Pushes /\ pc[c] = "in"
  /\ Leave(c, "timeout")
  /\ UNCHANGED <<writer, entry, mutex, mode, done, failed, open, file, opened, rows>>

(* The control loop promotes or demotes the node. *)
RoleChanges ==
  /\ writer' = ~writer
  /\ UNCHANGED <<entry, queue, pc, mutex, mode, done, failed, open, file, opened, rows, reply>>

-----------------------------------------------------------------------------
Init ==
  /\ writer \in BOOLEAN
  /\ entry = 0
  /\ queue = <<>>
  /\ pc = [c \in Calls |-> "new"]
  /\ mutex = [c \in Calls |-> 0]
  /\ mode \in [Batches -> [tx : BOOLEAN, stop : BOOLEAN]]
  /\ done = [c \in Calls |-> 0]
  /\ failed = [c \in Batches |-> FALSE]
  /\ open = [c \in Batches |-> {}]
  /\ file = 1
  /\ opened = [c \in Calls |-> 0]
  /\ rows = {}
  /\ reply = [c \in Calls |-> "none"]

(* What a call does without waiting for anybody but the mutex. *)
Proceed(c) ==
  \/ Lookup(c) \/ Enter(c) \/ Execute(c)
  \/ BatchStatement(c) \/ BatchFails(c) \/ BatchEnd(c)
  \/ DropFiles(c) \/ DropUnmap(c) \/ PushTimesOut(c)

(* What is up to the client or to the origin at the other end. *)
Prompted(c) == Arrive(c) \/ Refuse(c) \/ PushPage(c) \/ PushEnds(c)

Next == RoleChanges \/ \E c \in Calls : Proceed(c) \/ Prompted(c)

Spec == Init /\ [][Next]_vars

(* Blocking threads and tasks are scheduled, and timers fire. *)
FairSpec == Spec /\ \A c \in Calls : WF_vars(Proceed(c))

-----------------------------------------------------------------------------
(* Properties *)

(* Type invariant: calls refer to mutexes that exist, and no call runs more
   statements or writes more pages than it has (batch, replica::run). *)
TypeOK ==
  /\ writer \in BOOLEAN
  /\ queue \in Seq(Seq(Calls))
  /\ entry \in 0..Len(queue)
  /\ pc \in [Calls -> {"new", "lookup", "wait", "in", "unmap", "done"}]
  /\ mutex \in [Calls -> 0..Len(queue)]
  /\ mode \in [Batches -> [tx : BOOLEAN, stop : BOOLEAN]]
  /\ done \in [Calls -> Nat]
  /\ \A c \in Calls : done[c] <= IF c \in Pushes THEN PushedPages ELSE Statements
  /\ failed \in [Batches -> BOOLEAN]
  /\ open \in [Batches -> SUBSET (Calls \X Nat)]
  /\ file \in Nat
  /\ opened \in [Calls -> Nat]
  /\ rows \subseteq Calls \X Nat
  /\ reply \in [Calls -> {"none", "not_leader", "ok", "error", "committed",
                          "uncommitted", "timeout"}]

Inside(c) == pc[c] \in {"in", "unmap"}

(* engine.rs: get_db_lock is "for coordinating concurrent writes or
   replications".  Two calls work on the database at the same time only after
   drop_database has removed the mutex one of them has. *)
OneInside ==
  \A c, d \in Calls :
    Inside(c) /\ Inside(d) /\ c # d =>
      mutex[c] # mutex[d] /\ \E x \in Drops : reply[x] = "ok"

(* A batch in a transaction that stops at errors leaves all of its statements
   in the database, and says "committed", or none (engine.rs: "atomically"),
   unless the database was dropped under it. *)
AllOrNothing ==
  [][\A c \in Batches :
       reply[c] = "none" /\ reply'[c] # "none" /\ mode[c].tx /\ mode[c].stop
       /\ opened[c] \in {0, file} =>
         LET mine == {s \in 1..Statements : <<c, s>> \in rows'} IN
         mine = IF reply'[c] = "committed" THEN 1..Statements ELSE {}]_vars

(* Every call that is let in gets its answer, even if the other end of a push
   goes silent while it holds the mutex (the push has a time limit). *)
CallsEnd == \A c \in Calls : pc[c] = "lookup" ~> pc[c] = "done"
=============================================================================
