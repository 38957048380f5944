----------------------------- MODULE Databases ------------------------------
(* Names and files of the databases of a gateway (gateway/engine.rs): the path
   and the lock a name leads to, and the list of the databases, which
   replication works from.  A name is a sequence of characters: letters, ".",
   "/" and "sp" for a blank. *)
EXTENDS Texts

CONSTANTS
  MaxRetries,  \* MAX_RETRIES of query_pragma_u32
  DbFiles      \* the file names that *.db matches

ASSUME DatabasesAssumption == MaxRetries \in Nat

trim(name) ==
  LET ink == {i \in DOMAIN name : name[i] # "sp"} IN
  IF ink = {} THEN <<>> ELSE SubSeq(name, Min(ink), Max(ink))

(* Path::components: empty parts and dots after the first part are skipped; the
   root, a leading dot and ".." are components that are not Normal. *)
Starts(name) == {i \in 1..(Len(name) + 1) : i = 1 \/ name[i - 1] = "/"}
Part(name, i) ==
  SubSeq(name, i, Min({j \in i..Len(name) : name[j] = "/"} \cup {Len(name) + 1}) - 1)
components(name) ==
  At([i \in 1..(Len(name) + 1) |-> Part(name, i)],
     {i \in Starts(name) : Part(name, i) \notin {<<>>, <<".">>}})
AllNormal(name) ==
  Part(name, 1) \notin {<<>>, <<".">>} /\ \A i \in Starts(name) : Part(name, i) # <<".", ".">>

(* The file, as the components below the data directory; {} is an error. *)
resolve_db_path(name) ==
  IF trim(name) = <<>> \/ ~AllNormal(trim(name)) THEN {} ELSE {components(trim(name))}

(* Mutant: the name is not trimmed. *)
get_db_lock_untrimmed(name) == name
(* The key of the lock. *)
get_db_lock(name) == trim(name)
-----------------------------------------------------------------------------
(* Listing.  A walk is what collect_databases finds below the data directory, in
   the order it comes to it, the files of a directory one after the other where
   read_dir gives the directory: a "file", a "sidecar" (-wal, -shm, -journal) or a
   "closed" directory, which cannot be read.  A file answers two PRAGMAs: for the
   first `waits` attempts step comes to a lock or to no row ("done"), `wait` is the
   last of these answers; the next attempt ends in `then`, a row or an error.  The
   error may be BUSY too, when it is prepare that meets the lock. *)
Answers == [waits : Nat, wait : {"busy", "done"}, then : {"row", "busy", "error"}]
FileOf(paths) ==
  [path : paths, kind : {"file", "sidecar", "closed"}, page_size : Answers, page_count : Answers]
Within(path, n) == IF n < Len(path) THEN SubSeq(path, 1, n) ELSE <<>>
IsWalk(walk) ==
  /\ \A i, j \in DOMAIN walk : i # j => ~IsPrefixOf(walk[i].path, walk[j].path)
  /\ \A i, j, k \in DOMAIN walk : i < j /\ j < k =>
       \A n \in 1..Len(walk[i].path) :
         Within(walk[i].path, n) \in {<<>>, Within(walk[j].path, n)}
           \/ Within(walk[i].path, n) # Within(walk[k].path, n)

(* The outcome of a PRAGMA: only the answers of step are retried. *)
query_pragma_u32(answers) == IF answers.waits <= MaxRetries THEN answers.then ELSE answers.wait

(* Connection::open, which asks for page_size (any other error of it counts as one
   of that PRAGMA), then page_count. *)
open_and_count(file) ==
  IF query_pragma_u32(file.page_size) = "row" THEN query_pragma_u32(file.page_count)
  ELSE query_pragma_u32(file.page_size)

(* Mutant: a locked database is skipped like an unreadable one. *)
ListFile_skip(list, file) ==
  CASE file.kind = "closed" -> [list EXCEPT !.error = TRUE]
    [] file.kind = "file" /\ open_and_count(file) = "row" -> [list EXCEPT !.names = @ \cup {file.path}]
    [] OTHER -> list
(* A file that gives another error than a lock is skipped, a database or not. *)
ListFile(list, file) ==
  CASE file.kind = "closed" -> [list EXCEPT !.error = TRUE]
    [] file.kind = "file" /\ open_and_count(file) = "row" -> [list EXCEPT !.names = @ \cup {file.path}]
    [] file.kind = "file" /\ open_and_count(file) = "busy" -> [list EXCEPT !.error = TRUE]
    [] OTHER -> list

(* The first error ends the listing. *)
collect_databases(walk) ==
  LET after[i \in 0..Len(walk)] ==
        IF i = 0 THEN [names |-> {}, error |-> FALSE]
        ELSE IF after[i - 1].error THEN after[i - 1]
        ELSE ListFile(after[i - 1], walk[i]) IN after

(* The list is sorted by name: a set of paths, or {} with an error. *)
list_databases(walk) ==
  LET list == collect_databases(walk)[Len(walk)] IN
  IF list.error THEN [names |-> {}, error |-> TRUE] ELSE list

(* GetClusterStatus cannot say that the listing failed: the list is empty then. *)
status_databases(walk) == list_databases(walk).names

(* One round of a replica: the script that pulls what RSQLITE_DATABASES or else
   the status of the writer names (default-replica-sync.sh of the k3s example).
   A round is: `token`, whether there is one; `holder` of the lease ("self": this
   pod, "": nobody); `configured`, the names of RSQLITE_DATABASES, {} if it is not
   set; how the `status` comes, which may be "garbled", no JSON with databases;
   the `local` databases of the replica; `failing`, whose pulls fail; `stuck`,
   which rm cannot remove; and `spared`, not reached by the removal, which ends
   when the pod is promoted and at a file that is stuck. *)
Listed(round, databases) ==
  IF round.configured # {} THEN round.configured
  ELSE IF round.status = "garbled" THEN {} ELSE databases

(* Only *.db files directly in the data directory are removed. *)
Stale(held, listed) == {path \in held : Len(path) = 1 /\ path[1] \in DbFiles} \ listed

Untouched(exit) == [exit |-> exit, pulled |-> {}, removed |-> {}]
Pull(round, listed) ==
  LET ok == listed \cap round.failing = {}
      stale == Stale(round.local, listed) IN
  [exit |-> IF ok /\ (stale \cap round.stuck) \ round.spared = {} THEN 0 ELSE 1,
   pulled |-> listed \ round.failing,
   removed |-> IF ok THEN stale \ (round.spared \cup round.stuck) ELSE {}]

default_replica_sync(round, databases) ==
  IF ~round.token THEN Untouched(1)
  ELSE IF round.holder \in {"", "self"} THEN Untouched(0)
  ELSE IF round.configured = {} /\ round.status = "fails" THEN Untouched(1)
  ELSE IF Listed(round, databases) = {} THEN Untouched(0)
  ELSE Pull(round, Listed(round, databases))
-----------------------------------------------------------------------------
(* Calls on one file take one lock (execute, batch, drop_database and the
   replicator, resolve_db_path and get_db_lock): a name without a directory
   leads to the file its lock is named after, so two spellings of a file share
   the lock.  With a directory that is not so: "a//b" and "a/./b" are the file
   "a/b" under locks of their own. *)
OneLockPerFile(name) ==
  "/" \notin Range(name) => \A path \in resolve_db_path(name) : path = <<get_db_lock(name)>>

(* The files SQLite can read; those that stay locked when they are read; and those
   that are locked at worst, never unreadable, whatever the attempts come to. *)
CanBeRead(file) ==
  file.kind = "file" /\ \A q \in {file.page_size, file.page_count} :
                         q.waits <= MaxRetries /\ q.then = "row"
StaysLocked(file) ==
  file.kind = "file" /\ \E q \in {file.page_size, file.page_count} :
                         "busy" = IF q.waits <= MaxRetries THEN q.then ELSE q.wait
LockedAtWorst(file) ==
  file.kind = "file" /\ \A q \in {file.page_size, file.page_count} :
                         q.wait = "busy" /\ q.then # "error"
Paths(walk, Holds(_)) == {walk[i].path : i \in {i \in DOMAIN walk : Holds(walk[i])}}

(* A list of databases is complete or it is an error (collect_databases,
   query_pragma_u32), in whatever order the directories are read: a list that
   succeeds has read every directory and names the files that SQLite can read, no
   other, so that a database goes missing from it for another error than a lock
   only; and one that fails met a lock that stayed or a directory it cannot read. *)
ListingIsComplete(walk) ==
  LET list == list_databases(walk) IN
  IF list.error THEN \E i \in DOMAIN walk : walk[i].kind = "closed" \/ StaysLocked(walk[i])
  ELSE /\ \A i \in DOMAIN walk : walk[i].kind # "closed"
       /\ list.names = Paths(walk, CanBeRead)
       /\ Paths(walk, LockedAtWorst) \subseteq list.names

(* A round loses nothing (default-replica-sync.sh, GetClusterStatus): unless it is
   told what to pull, it never removes a database of the writer that is locked at
   worst, though a writer whose listing failed reports none; it removes something
   only after it has pulled all it was told or, else, all the writer can read; and
   a round that pulled something and succeeded leaves the replica with all of
   these and, unless the pod was promoted meanwhile, no other *.db file in its
   data directory. *)
RoundLosesNothing(walk, round) ==
  LET wanted == IF round.configured # {} THEN round.configured ELSE Paths(walk, CanBeRead)
      r == default_replica_sync(round, status_databases(walk))
      held == (round.local \cup r.pulled) \ r.removed IN
  /\ round.configured = {} => r.removed \cap Paths(walk, LockedAtWorst) = {}
  /\ r.removed # {} => r.pulled = wanted
  /\ r.exit = 0 /\ r.pulled # {} =>
       wanted \subseteq held /\ Stale(held, wanted) \subseteq round.spared
=============================================================================
