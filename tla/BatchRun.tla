------------------------------ MODULE BatchRun ------------------------------
(* One invocation of the command line that copies databases (main.rs: run,
   run_batch_mode; batch.rs): a single ORIGIN/REPLICA sync or a manifest of
   entries, worked off by a pool of jobs with a number of attempts, a time
   limit and a backoff per entry.

   A session is reduced to what overlapping sessions can tell apart: it takes a
   snapshot, compares it with the replica and writes the pages that differ one
   by one (PageSync has the protocol).  An attempt that fails or times out is a
   dropped future.  A local copy or a pull stops writing with it.  A push leaves
   a process behind on the other side, which may still write the pages it has
   received; behind a gateway it holds the mutex of its database meanwhile
   (replication.rs), behind ssh it holds nothing. *)
EXTENDS Naturals, Sequences, FiniteSets, Backoff

CONSTANTS
  Invocations,  \* command lines and manifests that may be given
  Replicas,     \* names of replica databases
  Pages,        \* page numbers, the same for all databases
  MaxEntries,   \* bound: entries of a manifest
  MaxChanges,   \* bound: number of the last commit to the origin
  Unset         \* an option that is not given

ASSUME BatchAssumption ==
  /\ Pages \subseteq Nat
  /\ MaxEntries \in Nat
  /\ MaxChanges \in Nat \ {0}
  /\ \A i \in Invocations :
       /\ Len(i.manifest) \in 0..MaxEntries
       /\ \A e \in 1..Len(i.manifest) :
            /\ i.manifest[e].target \in Replicas
            /\ i.manifest[e].retries # Unset => i.manifest[e].retries \in Nat
       /\ i.args.jobs \in Nat /\ i.args.retries \in Nat

VARIABLES
  args,      \* the command line
  manifest,  \* the entries: of the manifest file, or the one of ORIGIN/REPLICA
  phase,     \* "start", "running", "other", "rejected" or "reported"
  next,      \* the pool's iterator: entries from here on are pending
  pc,        \* per entry: "pending", "ready", "login", "connect", "copy", "sleep" or "done"
  attempt,   \* per entry: attempts begun
  snap,      \* per entry: the snapshot of the current or last attempt
  todo,      \* per entry: pages the session has still to write
  results,   \* the pool's results, in the order of completion
  report,    \* the results as printed, and the exit status
  origin,    \* the origin database: the commit each page was last changed by
  replica,   \* the replica databases
  orphans    \* sessions whose client is gone: [replica, image, todo, locked]

config == <<args, manifest>>
pool == <<next, pc, attempt, results>>
sessions == <<snap, todo>>
vars == <<config, phase, pool, sessions, report, origin, replica, orphans>>

Entries == 1..Len(manifest)
NoReport == [results |-> <<>>, failed |-> FALSE]

(* run_one_inner: how a copy from one kind of endpoint ("local", "ssh" or
   "grpc", see Endpoints) to another is made; "refused" if neither is local. *)
Route(from, to) ==
  CASE from = "local" /\ to = "local" -> "local"
    [] from = "local" /\ to = "ssh" -> "push"
    [] from = "ssh" /\ to = "local" -> "pull"
    [] from = "local" /\ to = "grpc" -> "grpc_push"
    [] from = "grpc" /\ to = "local" -> "grpc_pull"
    [] OTHER -> "refused"

(* run matches on the same pairs. *)
RouteOf(e) == Route(manifest[e].origin, manifest[e].replica)

(* The entry's value of an option, else the one of the command line. *)
OptionOf(e, option) ==
  IF manifest[e][option] # Unset THEN manifest[e][option] ELSE args[option]

(* Mutant: --dry-run overrides what an entry says. *)
DryRunOfArgs(e) == args.dry_run
DryRun(e) == OptionOf(e, "dry_run")

Attempts(e) == OptionOf(e, "retries") + 1

(* A time limit of 0 on the command line means none. *)
Limited(e) == OptionOf(e, "timeout") # 0

(* run_one sleeps before the next attempt unless the delay is None. *)
Backoffs(e, begun) ==
  Exponential(OptionOf(e, "backoff"), OptionOf(e, "backoff_max"), begun) # 0
-----------------------------------------------------------------------------
(* The command line and the manifest. *)

(* run_batch_mode: flags that batch mode refuses. *)
BatchArgsValid ==
  /\ args.mode = "sync"
  /\ args.positionals = FALSE
  /\ args.jobs # 0
  /\ args.jitter <= 100
  /\ args.backoff_max > 0 => args.backoff_max >= args.backoff

EntryValid(entry) ==
  /\ entry.origin # "blank" /\ entry.replica # "blank"
  /\ entry.timeout # 0
  /\ entry.jitter # Unset => entry.jitter <= 100
  /\ entry.backoff # Unset /\ entry.backoff_max # Unset /\ entry.backoff_max > 0
       => entry.backoff <= entry.backoff_max

(* parse_json, parse_yaml, parse_toml: YAML contains JSON. *)
Parses(format) == args.syntax = format \/ (format = "yaml" /\ args.syntax = "json")

(* load_manifest: the format is given, or follows from the extension, or is the
   first in which the text parses; a file that cannot be read has no syntax. *)
Parsed ==
  LET named == IF args.format # "auto" THEN args.format
               ELSE IF args.extension = "yml" THEN "yaml" ELSE args.extension IN
  \E format \in {"json", "yaml", "toml"} :
    Parses(format) /\ (named \in {"json", "yaml", "toml"} => format = named)

ManifestValid == Parsed /\ manifest # <<>> /\ \A e \in Entries : EntryValid(manifest[e])

(* run: without --batch-manifest, ORIGIN and REPLICA are the one entry, with
   one attempt and no limits; two remote ends are refused before anything. *)
SingleValid == args.positionals /\ RouteOf(1) # "refused"

(* run: subcommands, --batch-manifest, --ha, ORIGIN and the --server flags in the
   order in which they are looked at. *)
Dispatch ==
  IF args.mode = "client" THEN "other"
  ELSE IF args.batch THEN IF BatchArgsValid /\ ManifestValid THEN "running" ELSE "rejected"
  ELSE IF args.mode = "ha" \/ (args.mode = "server" /\ args.positionals) THEN "other"
  ELSE IF args.mode = "sync" /\ SingleValid THEN "running" ELSE "rejected"

Jobs == IF args.batch THEN args.jobs ELSE 1
-----------------------------------------------------------------------------
TypeOK ==
  /\ phase \in {"start", "running", "other", "rejected", "reported"}
  /\ next \in 1..(Len(manifest) + 1)
  /\ pc \in [Entries -> {"pending", "ready", "login", "connect", "copy", "sleep", "done"}]
  /\ \A e \in Entries : attempt[e] \in 0..Attempts(e)
  /\ snap \in [Entries -> [Pages -> 0..MaxChanges]]
  /\ todo \in [Entries -> SUBSET Pages]
  /\ results \in Seq([index : Entries, ok : BOOLEAN])
  /\ origin \in [Pages -> 0..MaxChanges]
  /\ replica \in [Replicas -> [Pages -> 0..MaxChanges]]
  /\ \A o \in orphans : /\ o.replica \in Replicas /\ o.todo \in SUBSET Pages
                        /\ o.image \in [Pages -> 0..MaxChanges] /\ o.locked \in BOOLEAN

Init ==
  /\ \E i \in Invocations : args = i.args /\ manifest = i.manifest
  /\ phase = "start"
  /\ next = 1
  /\ pc = [e \in Entries |-> "pending"]
  /\ attempt = [e \in Entries |-> 0]
  /\ snap = [e \in Entries |-> [p \in Pages |-> 0]]
  /\ todo = [e \in Entries |-> {}]
  /\ results = <<>>
  /\ report = NoReport
  /\ origin = [p \in Pages |-> 1]
  /\ replica = [r \in Replicas |-> [p \in Pages |-> 0]]
  /\ orphans = {}

(* run, run_batch_mode and the first loop of run_batch_sync. *)
Launch ==
  /\ phase = "start"
  /\ phase' = Dispatch
  /\ LET started == IF Dispatch = "running" THEN Lesser(Jobs, Len(manifest)) ELSE 0 IN
       /\ next' = started + 1
       /\ pc' = [e \in Entries |-> IF e <= started THEN "ready" ELSE "pending"]
  /\ UNCHANGED <<config, attempt, results, sessions, report, origin, replica, orphans>>
-----------------------------------------------------------------------------
(* run_one: attempts, and the pool that is refilled when one entry is over. *)

(* Mutant: the pool is not refilled after a failure. *)
CompletesOnSuccess(e, ok) ==
  /\ results' = Append(results, [index |-> e, ok |-> ok])
  /\ IF next <= Len(manifest) /\ ok
     THEN pc' = [pc EXCEPT ![e] = "done", ![next] = "ready"] /\ next' = next + 1
     ELSE pc' = [pc EXCEPT ![e] = "done"] /\ next' = next
Completes(e, ok) ==
  /\ results' = Append(results, [index |-> e, ok |-> ok])
  /\ IF next <= Len(manifest)
     THEN pc' = [pc EXCEPT ![e] = "done", ![next] = "ready"] /\ next' = next + 1
     ELSE pc' = [pc EXCEPT ![e] = "done"] /\ next' = next

AttemptFails(e, begun) ==
  IF begun < Attempts(e)
  THEN /\ pc' = [pc EXCEPT ![e] = IF Backoffs(e, begun) THEN "sleep" ELSE "ready"]
       /\ UNCHANGED <<results, next>>
  ELSE Completes(e, FALSE)

(* dry_run_local opens both files and compares their page sizes, which may
   fail; over a network a dry run ends at once. *)
DryRunMayFail(e) == DryRun(e) /\ RouteOf(e) = "local"

(* SSH starts with a login of its own, before the remote process is launched. *)
Remote(e) == RouteOf(e) \in {"push", "pull"}

(* Begin an attempt.  A refused route fails, a dry run ends without a session.
   A local copy and a push take their snapshot before anything else. *)
Begin(e) ==
  /\ pc[e] = "ready"
  /\ attempt' = [attempt EXCEPT ![e] = @ + 1]
  /\ \/ /\ RouteOf(e) = "refused" \/ DryRunMayFail(e)
        /\ AttemptFails(e, attempt[e] + 1)
        /\ snap' = snap
     \/ /\ RouteOf(e) # "refused" /\ DryRun(e)
        /\ Completes(e, TRUE)
        /\ snap' = snap
     \/ /\ RouteOf(e) # "refused" /\ ~DryRun(e)
        /\ pc' = [pc EXCEPT ![e] = IF Remote(e) THEN "login" ELSE "connect"]
        /\ snap' = [snap EXCEPT ![e] = origin]
        /\ UNCHANGED <<results, next>>
  /\ UNCHANGED <<config, phase, todo, report, origin, replica, orphans>>

Target(e) == manifest[e].target

(* Mutant: the gateway starts a session beside one of a lost client. *)
LockFreeOfEntries(e) ==
  \A f \in Entries : pc[f] = "copy" /\ RouteOf(f) = "grpc_push" => Target(f) # Target(e)
(* The database mutex of the gateway, held for a whole push. *)
LockFree(e) ==
  /\ \A o \in orphans : o.locked => o.replica # Target(e)
  /\ \A f \in Entries : pc[f] = "copy" /\ RouteOf(f) = "grpc_push" => Target(f) # Target(e)

(* The login succeeds. *)
authenticate(e) ==
  /\ pc[e] = "login"
  /\ pc' = [pc EXCEPT ![e] = "connect"]
  /\ UNCHANGED <<config, phase, next, attempt, results, sessions, report, origin, replica, orphans>>

(* server_origin_mode and the gateway take the snapshot of a pull. *)
TakenByPeer(e) == RouteOf(e) \in {"pull", "grpc_pull"}

(* The connection is up and the two ends have compared their pages. *)
Connect(e) ==
  /\ pc[e] = "connect"
  /\ RouteOf(e) = "grpc_push" => LockFree(e)
  /\ LET image == IF TakenByPeer(e) THEN origin ELSE snap[e] IN
       /\ snap' = [snap EXCEPT ![e] = image]
       /\ todo' = [todo EXCEPT ![e] = {p \in Pages : replica[Target(e)][p] # image[p]}]
  /\ pc' = [pc EXCEPT ![e] = "copy"]
  /\ UNCHANGED <<config, phase, next, attempt, results, report, origin, replica, orphans>>

First(S) == CHOOSE p \in S : \A q \in S : p <= q

WritePage(e) ==
  /\ pc[e] = "copy" /\ todo[e] # {}
  /\ LET p == First(todo[e]) IN
       /\ replica' = [replica EXCEPT ![Target(e)][p] = snap[e][p]]
       /\ todo' = [todo EXCEPT ![e] = @ \ {p}]
  /\ UNCHANGED <<config, phase, pool, snap, report, origin, orphans>>

Finish(e) ==
  /\ pc[e] = "copy" /\ todo[e] = {}
  /\ Completes(e, TRUE)
  /\ UNCHANGED <<config, phase, attempt, sessions, report, origin, replica, orphans>>

(* What a push leaves on the other side. *)
Orphan(e) == [replica |-> Target(e), image |-> snap[e], todo |-> todo[e],
              locked |-> RouteOf(e) = "grpc_push"]

DropSession(e) ==
  /\ AttemptFails(e, attempt[e])
  /\ orphans' = IF pc[e] = "copy" /\ todo[e] # {} /\ RouteOf(e) \in {"push", "grpc_push"}
                THEN orphans \cup {Orphan(e)} ELSE orphans
  /\ todo' = [todo EXCEPT ![e] = {}]
  /\ UNCHANGED <<config, phase, attempt, snap, report, origin, replica>>

(* The session returns an error: launch, login, connection, protocol or I/O. *)
Fails(e) == pc[e] \in {"login", "connect", "copy"} /\ DropSession(e)

(* tokio::time::timeout drops the session. *)
TimesOut(e) == pc[e] \in {"login", "connect", "copy"} /\ Limited(e) /\ DropSession(e)

Wake(e) ==
  /\ pc[e] = "sleep"
  /\ pc' = [pc EXCEPT ![e] = "ready"]
  /\ UNCHANGED <<config, phase, next, attempt, results, sessions, report, origin, replica, orphans>>
-----------------------------------------------------------------------------
(* The rest of the world, and the end. *)

OrphanWrites(o) ==
  /\ o \in orphans /\ o.todo # {}
  /\ replica' = [replica EXCEPT ![o.replica][First(o.todo)] = o.image[First(o.todo)]]
  /\ orphans' = (orphans \ {o}) \cup {[o EXCEPT !.todo = @ \ {First(@)}]}
  /\ UNCHANGED <<config, phase, pool, sessions, report, origin>>

(* It has written what it had received, or notices that its client is gone. *)
OrphanEnds(o) ==
  /\ o \in orphans
  /\ orphans' = orphans \ {o}
  /\ UNCHANGED <<config, phase, pool, sessions, report, origin, replica>>

(* A commit of the application that owns the origin. *)
OriginCommit(p) ==
  /\ phase \in {"start", "running"}
  /\ \E c \in 2..MaxChanges :
       /\ \A q \in Pages : origin[q] < c
       /\ origin' = [origin EXCEPT ![p] = c]
  /\ UNCHANGED <<config, phase, pool, sessions, report, replica, orphans>>

(* Mutant: the results are printed as they came in. *)
ReportedUnsorted == results
(* sort_by_key(index): a permutation of the results in which no index goes down. *)
Reported ==
  LET places == DOMAIN results
      order == CHOOSE p \in [places -> places] :
                 /\ \A i \in places : \E j \in places : p[j] = i
                 /\ \A i, j \in places :
                      i < j => results[p[i]].index <= results[p[j]].index
  IN [i \in places |-> results[order[i]]]

(* The pool is empty: sort, count, print and choose the exit status. *)
Report ==
  /\ phase = "running"
  /\ \A e \in Entries : pc[e] = "done"
  /\ phase' = "reported"
  /\ report' = [results |-> Reported,
                failed |-> \E i \in DOMAIN results : ~results[i].ok]
  /\ UNCHANGED <<config, pool, sessions, origin, replica, orphans>>

EntryStep(e) ==
  Begin(e) \/ authenticate(e) \/ Connect(e) \/ WritePage(e) \/ Finish(e) \/ Fails(e) \/ TimesOut(e) \/ Wake(e)

Next ==
  \/ Launch
  \/ \E e \in Entries : EntryStep(e)
  \/ \E o \in orphans : OrphanWrites(o) \/ OrphanEnds(o)
  \/ \E p \in Pages : OriginCommit(p)
  \/ Report

Spec == Init /\ [][Next]_vars

(* The runtime polls a future that is ready, timers fire, and a local copy ends
   because LOCAL_SYNC_TIMEOUT ends it.  Nothing is assumed of a peer. *)
Scheduled(e) ==
  /\ e \in Entries
  /\ \/ Begin(e) \/ Wake(e) \/ TimesOut(e)
     \/ RouteOf(e) = "local" /\ (Connect(e) \/ WritePage(e) \/ Finish(e) \/ Fails(e))

Fairness ==
  /\ WF_vars(Launch) /\ WF_vars(Report)
  /\ \A e \in 1..MaxEntries : WF_vars(Scheduled(e))

FairSpec == Spec /\ Fairness
-----------------------------------------------------------------------------
(* Properties *)

Succeeded(e) == \E i \in DOMAIN results : results[i] = [index |-> e, ok |-> TRUE]
OwnReplica(e) == \A f \in Entries \ {e} : Target(f) # Target(e)

(* A success stays true: once an entry with a replica of its own has been
   counted as succeeded, that replica is the snapshot of the attempt that
   succeeded, and no session of an earlier attempt writes into it any more
   (run_one retries after a timeout; replication.rs holds the mutex of the
   database for a session whose client is gone).  Pushes over ssh are left out:
   the process an attempt leaves behind holds no lock. *)
SuccessStays ==
  \A e \in Entries :
    Succeeded(e) /\ OwnReplica(e) /\ ~DryRun(e) /\ RouteOf(e) # "push" =>
      replica[Target(e)] = snap[e]

(* The report tells what happened, whatever the order of completion: one line
   per entry in the order of the manifest, a failure only after every attempt
   the entry was due, and a failing exit status exactly if an entry failed
   (README, batch mode: "effective attempts per entry are 1 + retries", "Exit
   code: non-zero when any entry fails"). *)
ReportTells ==
  phase = "reported" =>
    /\ Len(report.results) = Len(manifest)
    /\ \A e \in Entries :
         /\ report.results[e].index = e
         /\ report.results[e].ok <=> Succeeded(e)
         /\ ~report.results[e].ok =>
              attempt[e] = 1 + IF manifest[e].retries = Unset THEN args.retries
                               ELSE manifest[e].retries
    /\ report.failed <=> \E e \in Entries : ~Succeeded(e)

MayHang(e) == RouteOf(e) \notin {"local", "refused"} /\ ~Limited(e)

(* All entries are attempted, even if some fail (README, "Best-effort") or hang:
   as long as fewer entries than jobs may wait for a peer forever, every other
   entry comes to an end. *)
OthersFinish ==
  \A e \in 1..MaxEntries :
    (/\ phase = "running" /\ e \in Entries /\ ~MayHang(e)
     /\ Cardinality({f \in Entries : MayHang(f)}) < Jobs) ~> (e \in Entries /\ pc[e] = "done")

(* A replica that is named only by entries in dry-run mode is never written,
   not even by what a timed-out attempt leaves behind (--dry-run: "REPLICA will
   not be modified"; an entry may override the flag either way). *)
DryRunsTouchNothing ==
  [][\A r \in Replicas :
       (\A e \in Entries : Target(e) = r =>
          IF manifest[e].dry_run = Unset THEN args.dry_run ELSE manifest[e].dry_run)
       => replica'[r] = replica[r]]_vars
=============================================================================
