# A TLA+ model of rsqlite-rsync

rsqlite-rsync copies a SQLite database page by page from an *origin* to a
*replica* that already holds an older copy, one at a time or as a batch, and can
run as a gRPC SQL gateway whose nodes elect one writer through a lease.  This
directory models the program, from the sync protocol and the control loop to the
client crate and the parsers of the command line, checks the models with TLC, and
proves the central safety properties with TLAPS for all sizes.  Paths below are
relative to the root of the repository.

## 1. The system

| Part | State | Operations | Modules |
|---|---|---|---|
| Sync protocol (`src/protocol/origin.rs`, `replica.rs`, `src/hash.rs`) | position of each handler, hash algorithm, groups left, pages awaited, messages in flight | handshake, coarse pass, fine pass, acknowledgement, done, error | `PageSync` |
| Snapshot, database file, WAL (`src/snapshot.rs`, `src/db.rs`; SQLite is external) | pages of origin, snapshot, replica file, WAL frames | snapshot, page write, checkpoint on close, origin writers | `PageSync` |
| Entry points, transports (`src/lib.rs`, `src/transport/`) | open or broken channel, session count | run a session, time out, retry | `PageSync` |
| Messages on a byte stream (`src/protocol/messages.rs`, `src/transport/mod.rs`, `grpc.rs`) | pure | frame, take a frame, pack and unpack hashes | `Framing` |
| Command line and batch mode (`src/main.rs`, `src/batch.rs`) | pool, attempts, results, sessions that outlive their client | check flags and manifest, start, copy, time out, back off, report | `BatchRun`, `Backoff`, `Endpoints` |
| HA rules (`src/ha.rs`) | pure | expiry, write fence, promotion rules, decision, plan | `HaRules` |
| HA control loop (`src/ha.rs`, `src/main.rs`) | runtime, shared state, role file, readiness, heartbeat | the steps of a tick, startup fence, failures, restart | `HaNode` |
| HA cluster | lease, clock, a runtime and a gateway per node | tick, grant and renew the lease | `HaLease` |
| HA files and probes (`src/ha.rs`, `src/kv_text.rs`, `src/main.rs`) | pure | write and parse a lease, a ledger; `/ready`, `/live`, `/healthz`, status | `Records`, `Probes` |
| Kubernetes sidecars (`examples/k8s/k3s-ha-stack.yaml`) | Kubernetes Lease and resourceVersion, role file, freshness file | claim, renew, sync, stamp, remove stale databases | `HaSidecar`, `Databases` |
| Gateway calls (`src/gateway/server.rs`, `engine.rs`, `replication.rs`) | map of mutexes, queues, batches, transactions | execute, batch, drop_database, push; names, listings, parameters, streams | `DbLocks`, `Databases`, `Results` |
| Client crate and pools (`crates/`), authentication (`src/gateway/auth.rs`) | endpoint, channel, call, requests at the gateways | discover, connect, call, redirect, retry, check out | `ClientCalls` |
| Gateway client (`src/cli/client.rs`) | database and format of a session | choose a target, run a command, a script or a session; print | `Shell`, `Results` |

How they interact: the control loop decides from the lease and the freshness file
and tells the gateway, through `HaSharedState`, whether to admit writes; the
gateway serialises calls per database; the replication service runs the sync
protocol under the same per-database mutex; the sidecars write the lease and run
the syncs whose freshness the loop requires for a promotion; batch mode and the
clients come to the gateways from outside, give up, and come again.

What makes it hard: origin writers during a sync; a session cut off between two
page writes; a session that goes on after its client gave up; a lease judged by
copies; role, generation and lease reaching the gateway in separate steps that can
fail; a renewal prepared before and sent after a takeover; a mutex removed from
its map while calls queue for it; a write whose answer is lost; bytes, records and
lists cut anywhere.  `PROJECT.json` lists these hazards with their lines and the
properties that address them.

## 2. Modules

* `PageSync`: both handlers, the transport, faults and sessions.  Databases are
  functions from page numbers to contents; hashes are pairs of algorithm and
  content, so they have no collisions.  Group and page lists are ascending in the
  code and are sets worked through from their least element here.  Page writes
  are one step each, so that a session can be cut off between any two.
* `SnapshotCopy`: what a sync promises, without a protocol.  `PageSync` implements
  it under the refinement mapping `Copy` (`ImplementsCopy`).
* `BatchRun`: one invocation.  A session is reduced to what overlapping sessions
  tell apart: a snapshot, and the pages still to be written.  An attempt that is
  given up may leave an orphan on the other side, which goes on writing, under the
  mutex of its database behind a gateway and under nothing behind ssh.
* `HaRules`: the pure decisions of `src/ha.rs`, shared by the next three.  Sums
  saturate at `U64Max` as `saturating_add` does.
* `HaNode`: one node; a tick is split at every point where it can fail or where
  the gateway can look at the shared state.  The role file is written in place, so
  that a failing action leaves it as it was, written, or torn.
* `HaLease`: a cluster around an authoritative lease, with the actions of a tick in
  one step and no failing actions (`HaNode` has those).
* `HaSidecar`: a cluster whose lease is kept by the scripts of the Kubernetes
  example; a tick is one step.
* `DbLocks`: the calls of one node for one database.  A pushed page counts as
  progress and does not change the modelled rows: the push is there for what it
  excludes and what it holds up, and `PageSync` has its contents.
* `ClientCalls`: one client and the gateways as it sees them.  A gateway checks
  access when a request arrives and runs it later, also for a client that has gone.
* `Framing`, `Records`, `Endpoints`, `Databases`, `Shell`, `Results`, `Backoff`,
  `Probes`: pure code as operators, each beside a reference that says what it has to
  compute.  Texts are sequences of the few pieces the code tells apart; characters
  that stand for themselves elsewhere have names where they separate ("sp", "semi",
  "comma", "dq", "nl").  A loop of the code is the recursive function of its states,
  one for each place of the input (`Draining`, `Receiving`, `Splitting`, `Session`,
  `collect_databases`, `bind_positional`, `bind_named`, `Streaming`); `Texts` has the
  operators on sequences that they share.  A listing works on a *walk*, the files in
  the order the recursion over the directories comes to them (`IsWalk`); each file
  carries the answers SQLite will give to its two PRAGMAs, attempt by attempt.  A
  *round* of `default-replica-sync.sh` carries what the script meets: token, holder,
  configured names, how the status comes, which pulls and removals fail.
  `Inputs` composes the modules: a behaviour builds one input piece by piece.
* `*Proofs` and `InputsLemmas`: the proofs (section 7).
* `MC*`: instances for TLC.

Definitions under a comment that starts with "Mutant:" are variants of the
definition below them with one plausible mistake.  They belong to no
specification; replacing the original by the variant makes TLC find the property
violated that `PROJECT.json` pairs it with.

## 3. Runs that pass

| Run | What it checks |
|---|---|
| `sync_local` | Two sessions of `sync_local` with up to one fault, while the origin is written.  `SyncedIsSnapshot`: success means the replica reads as the snapshot.  `OldOrNew`: the file has no hole, and a page is as it was hashed or already the snapshot's.  `FaultFreeSucceeds`; `SyncedPagesStay`: what is synced is not written again; `RetriesConverge` (liveness); the refinement `ImplementsCopy`; the inductive invariant `SyncInv` and `TypeOK`. |
| `sync_remote` | A connection that may break, replica builds of an older and a newer version, leftover WAL frames.  `NoViolation`: two handlers of this code never send each other what the receiver rejects.  `CleanStartIsSynced`: from a session that starts without frames on, success means the snapshot. |
| `ha_node` | Both startup fence modes, failing lease reads and actions, malformed freshness files, crashes.  `GateFollowsController`, `AdmitsOnlyPromoted`, `UnreadLeaseFences`; `PromotionHappens` and `DemotionHappens` (liveness). |
| `ha_cluster` | `AtMostOneWriter`, and `MemoriesBehind`, the reason for it; `TypeOK`. |
| `db_calls` | `OneInside`: two calls work on a database at a time only after a drop has removed the mutex of one.  `AllOrNothing` for transactions that stop at errors.  `CallsEnd` (liveness). |
| `batch_run` | `SuccessStays`: what was counted as a success stays one, whatever earlier attempts still write.  `ReportTells`: order, attempts and exit status.  `DryRunsTouchNothing`.  `OthersFinish` (liveness): an entry that hangs stops only itself. |
| `client_calls` | `WritesOnce`: what a write reports is what happened.  `CallsEnd` and `RecoversWhenStable` (liveness): within two attempts a call that is retried reaches the writer of a cluster that has settled.  `TypeOK`. |
| `inputs` | The pure code over all small inputs: `MessagesSurvive` (streams cut anywhere, packed hashes), `TornRecordsAreNoBetter` (a prefix of a lease or ledger gives no right the whole does not give), `ArgumentsStayLocal`, `SpellingsShareALock`, `ReplicasKeepDatabases` (a listing is complete or an error; `default-replica-sync.sh` removes nothing before it has pulled everything, and no database of the writer that is locked at worst), `ScriptsRunWhole` (a script is kept whole, or by a batch that stops at errors not at all), `CommandsReachTheirTarget`, `ParametersArrive`, `ResultsArrive` (streams, CSV, JSON), `DelaysInBand`, `StatusTells`. |

## 4. Runs that end in a violation

Each checks one statement of the repository's documentation or comments that the
code, as modelled, does not keep.  `PROJECT.json` quotes the statement.

| Run | What TLC finds |
|---|---|
| `sync_shrink` | A replica with more pages than the origin: `changed_page_for` slices past the end of the snapshot and the origin panics. |
| `ha_node_ready` | After a failed `enable_writer`, `keep_writer` sets the readiness flag and role but not the generation: `/ready` is 200 and every write is refused. |
| `sidecar_two_writers` | A renewal sent late, without a resourceVersion, undoes a takeover: two gateways admit writes. |
| `client_heals` | A client that only writes keeps its channel to a writer that went away, and all its later writes fail. |

Seen while modelling, and asked by no run.  Several are the reason for a premise
of a property.

Sync and batch mode:

* WAL frames left in the replica mask the pages a sync wrote; the proofs and
  `CleanStartIsSynced` assume a start without them.
* An empty replica announces page size 4096, not 0 as `docs/protocol.md:58` has it,
  so an origin with another page size refuses it (`src/protocol/replica.rs:50`).
* After a push over ssh timed out, the process it left behind may overwrite what the
  retry wrote; `SuccessStays` leaves these pushes out.
* Two entries with the same gRPC replica may move it back in time.
* `encode` has no size limit, so that a message can be sent that no peer accepts.
* Jitter is added after the cap: a delay may exceed `retry_backoff_max`.
* A host without a dot is taken for a local path, also in the form of the README's
  example.  `user@` before an IPv6 address without brackets is cut at the first colon,
  and the summary at `src/endpoint.rs:58` is older than the code at 106.
* ssh control paths of two targets can coincide.

HA and sidecars:

* A write that passed the fence may be applied after another node was promoted.
* `/healthz` is a heartbeat (`src/main.rs:808`) where `docs/ha-guide.md:255` describes "a
  one-shot latch, not an ongoing heartbeat".  `StatusTells` has only what both agree
  on, that a loop which ticks stays healthy.  Times are cut to seconds, and a clock
  set back leaves a dead loop healthy for longer.
* The late renewal of `sidecar_two_writers` also sets the generation back.
* `replica-sync.sh` stamps the freshness file after every exit code 0.  A status with
  an empty list (a listing that failed) and a pod that is itself the holder both end
  so, and `validate_promotion` does not look at the source of the stamp: the
  freshness gate can be passed without a sync.
* A database of the writer that cannot be opened for another reason than a lock, or
  whose PRAGMA stays without a row, is left out of the list without an error, and the
  replicas remove theirs.  So they do with every `*.db` that `RSQLITE_DATABASES` does
  not name.
* `default-replica-sync.sh` splits names with spaces; names in the model have none.
* `parse_kv_lines` accepts lines with several `=` where its comment says exactly one.
  A value with a `=` is not among the inputs.

Gateway and client:

* `drop_database` removes the mutex from the map under waiting calls
  (`src/gateway/engine.rs:444`), hence the exception in `OneInside`.
* The role is checked when a push opens (`src/gateway/replication.rs:118`); pages go
  on arriving after a promotion.
* "a//b" and "a/./b" are the file "a/b" under mutexes of their own.
* A `drop_database` whose client gave up may run after the retry succeeded and the
  database was created again.
* Scripts: a comment with a quote or semicolon, a name in brackets or backticks that
  holds one, and the body of a trigger are cut wrongly; a piece that is only a comment
  (`a;--`) fails, and `.read` rolls the whole script back.  The interactive
  session runs only the first statement of a line, and a transaction does not span
  lines.  `WITH ... INSERT` goes to the read-only path.  `.read` stops at an error,
  `batch` by default does not, and an empty file sends an empty batch.
* Parameters: a text with `=` is taken as named; a bare name that fits `:a` and `@a`
  reaches the first only.
* Output: CSV headers and bare carriage returns are not quoted; JSON loses one of two
  columns of the same name; floats without decimals read back as integers.
* Environment variables that name a cluster win over an explicit data directory.
  Other options are trimmed; of `--data-dir`, blanks are a directory.
* A replication session may give its token in `SyncInit` (`check_request_or_token`);
  `ClientCalls` has the token in the metadata of a call only.

## 5. Bounds

Bounds are constants named `Max...`, plus the sizes of the sets in the `.cfg` files.

* `PageSync`: three pages in groups of two give an empty database, a full group and a
  partial last group; the remote run has two pages in groups of one, so that two
  groups are in flight.  Two contents make pages equal or different.  Two sessions and
  one fault give a repair after an abort at every point.
* HA: `MaxTime` is 2 or 3 seconds with a `Ttl` of 0 or 1, enough for a lease to be
  granted, to expire and to be taken over.  `MaxGeneration = 1` allows one takeover.
  `U64Max` is larger than every sum of these runs, so that saturation itself is
  covered by the proofs only.  `HaLease` uses symmetry between the nodes, for safety
  properties only.  `HaNode` allows two faults: a lease that cannot be read, and a
  failing action of the demotion that follows.
* `DbLocks`: one call of each kind, and two statements in the batch, so that one can
  fail after or before the other.
* `BatchRun`: the invocations of `MCBatchRun` cover every route, every check of flags
  and manifest, one job and two, attempts with and without a time limit; two pages
  and one commit by a writer make an orphan's image differ from the retry's.
* `ClientCalls`: two gateways, two calls of two attempts, two faults.  `execute` is
  the kind that is not retried after it may have run, `drop` the kind that is; a
  pooled client checks out with a `status` call.
* `Inputs`: up to six pieces over alphabets that hold each piece the code treats
  differently (`MCInputs`); numbers keep their carries and limits in small radices.
  Scripts have five characters out of ten: a quote with a semicolon in it, or a
  comment between two statements, needs no more.  `DbFiles` are the names `*.db`
  matches; the other names and the ones in directories are never removed.

Deadlock is not checked where the system stops by itself: a batch that has reported,
a client that has made its calls, an input of full length.  Elsewhere origin writers,
the loops and role changes always allow a step, so that the liveness properties take
the place of deadlock checking.

## 6. Fairness

* `PageSync`: weak fairness of each handler (the runtime polls both), of the local
  timeout (`LOCAL_SYNC_TIMEOUT`), and of the next session while none has succeeded
  (the user retries).  Faults, origin writers and the closing checkpoint have none.
* `HaNode`: weak fairness of the loop, which sleeps one interval and goes on, and
  of the restart by the container runtime.  Nothing is assumed of the lease, the
  syncs or the clock; `PromotionHappens` and `DemotionHappens` therefore start from
  what stays true of them.
* `DbLocks`: weak fairness of what a call does once admitted, including the time
  limit of a push.  The remote end of a push may stay silent.
* `BatchRun`: weak fairness of the start, of timers and wake-ups, of a local copy
  (it has its own timeout) and of the report.  Peers of other routes may hang.
* `ClientCalls`: weak fairness of the client, of a gateway that is up towards a client
  that waits, and of the application.  The cluster may stay as it is.

## 7. Proofs

| Theorem | Statement |
|---|---|
| `PageSyncProofs`: `CleanStartSynced`, `CleanStartSyncInv` | From a start without WAL frames: `[]SyncedIsSnapshot`, `[]SyncInv` |
| `PageSyncProofs`: `AlwaysTyped` | From every start: `[]TypeOK` |
| `PageSyncProofs`: `CleanStartCopies`, `CleanStartOldOrNew`, `CleanStartSucceeds` | From a start without WAL frames: the refinement `ImplementsCopy`, `[]OldOrNew`, and, under `Regular`, `[]FaultFreeSucceeds` |
| `PageSyncProofs`: `PagesStay`, `LaterSessionsAreClean`, `HandlersAgree` | From every start: `SyncedPagesStay`, `CleanStartIsSynced`, `[]NoViolation` |
| `HaLeaseProofs`: `ClusterTyped`, `CopiesBehind`, `SingleWriter` | `[]TypeOK`, `[]MemoriesBehind`, `[]AtMostOneWriter` |
| `HaNodeProofs`: `OnlyPromotedAdmits`, `UnreadFences`, `GateFollows` | `[]AdmitsOnlyPromoted`, `[]UnreadLeaseFences`, `[]GateFollowsController` |
| `DbLocksProofs`: `MutexKeepsApart`, `BatchesAreAtomic` | `[]OneInside`, `AllOrNothing` |
| `BatchRunProofs`: `SuccessStaysTrue`, `DryRunsAreDry`, `ReportsTell` | `[]SuccessStays`, `DryRunsTouchNothing`, `[]ReportTells` |
| `ClientCallsProofs`: `WritesOnceHolds`, `ClientTypes` | `[]WritesOnce`, `[]TypeOK` |
| `InputsProofs`: `MessagesArrive`, `TornRecordsStay` | Bytes and files: `[]MessagesSurvive`, `[]TornRecordsAreNoBetter` |
| `InputsProofs`: `ArgumentsAreKept`, `SpellingsShare`, `ReplicasKeep` | Names: `[]ArgumentsStayLocal`, `[]SpellingsShareALock`, `[]ReplicasKeepDatabases` |
| `InputsProofs`: `ScriptsRunAsRead`, `CommandsReach`, `ResultsAreRead` | The client: `[]ScriptsRunWhole`, `[]CommandsReachTheirTarget`, `[]ResultsArrive` |
| `InputsProofs`: `DelaysAreInBand`, `StatusIsTrue` | Numbers: `[]DelaysInBand`, `[]StatusTells` |

They hold for every value of the constants that satisfies the named `ASSUME`s of the
modules: natural-number bounds, disjoint kinds of calls, manifests within the bound
on entries, protocol version 1 or 2 at the origin.  `InputsAssumption` gives the
types of the inputs and leaves their alphabets and lengths open; what it asks beyond
types are payloads below `Radix`^4 bytes (2^32, above which `encode` cuts the length),
a holder that is not empty, numbers that are `u64`, options as clap fills them, a
size of chunk that is not 0, and two columns in a printed result, the number `Inputs`
deals its values into.  The arguments:

* *Sync.*  `SyncedIsSnapshot` is not inductive: that the last acknowledgement
  completes the copy depends on which groups were equal at the coarse pass, on the
  hashes of the fine pass still describing the file, and on what is in flight.
  `SyncInv` says this for each position of the origin: from the answer to the coarse
  pass on, only the groups in `oneed` may differ; the replica's hashes are current in
  the groups it has still to send; and the pages under way complete their group.
  What the handlers do is the same with WAL frames, and only what the file holds is
  not; so the invariant has a parameter, `IInv(clean)`, one lemma per action keeps it
  for both values, and it carries on when a handler is gone: pages on their way or
  being written are still pages of the snapshot.
* *Sync, from it.*  Every page that is written is the snapshot's: hence the
  refinement, `SyncedPagesStay`, and `OldOrNew`, for which `Fills` in the invariant
  keeps the writes in ascending order across groups.  `AnyStart` follows a start on
  frames: any session first, and a clean one whenever a replica handler runs without
  frames; this gives `CleanStartIsSynced` and `NoViolation`.  For
  `FaultFreeSucceeds`, `Fits` (the replica has no page the origin lacks) and `Smooth`
  (no handler has failed, and no one waits for a message that does not come).  Its
  premise `Regular`, that no build offers version 0 and no writer drops pages, is the
  one `sync_local` has in its `.cfg`; `sync_shrink` shows that the second half is
  needed.
* *Cluster.*  Two nodes that admit writes hold two unexpired copies of the lease;
  `MemoriesBehind` makes every unexpired copy one of the current generation, and
  copies of one generation name one holder.  Assumed of the model: a lease that is
  granted only when it is missing or has expired, under the next generation, and one
  clock for all nodes (`docs/ha-guide.md` asks for NTP).  `HaSidecar` shows what
  happens with a lease that is not kept that way.
* *Node.*  Role, generation and lease reach the gateway separately.  The invariant
  orders the copies (the gateway's behind the controller's behind the lease), says
  for each step of a tick what the plan has done so far, and that a gateway with the
  role but without the generation has generation 0 and no valid lease of it.  For
  `GateFollowsController`, `FollowInv` adds that a plan serves as a whole or not at
  all, and that the gateway has the controller's role and generation between plans,
  and its lease between ticks, as long as no action of the process has failed.
* *Locks.*  A call that waits or works is in the queue of the mutex it found, first if
  it works; until a drop has succeeded the map has had one mutex at most.  For
  `AllOrNothing`: what a batch ran inside a transaction is in its transaction and not
  in the rows until it commits.
* *Batch.*  For an entry with a replica of its own, every page that the current
  attempt has not still to write agrees with its snapshot, because an orphan behind a
  gateway holds the mutex the attempt needs; orphans belong to pushes that are not
  dry runs.  For `ReportTells` (`TellInv`): the entries that are over have one result
  each, a failure only after the last attempt, and a sequence that is sorted by
  indices that are all of `1..n`, each once, has index `i` at place `i`.
* *Client.*  A write is at one gateway or applied, never both; while its call goes on
  it has not been applied, and it is at a gateway only while the call waits for it,
  so that an attempt is repeated only when nothing is left of the last one.
* *Inputs.*  `Built`, that the input is a sequence of pieces of its kind, is the
  inductive invariant; each theorem then follows from a lemma that holds for every
  such sequence.  Induction over the places of a sequence is done by the least
  counterexample: the lemmas of `InputsLemmas` have `WellOrdered` (a set of numbers
  has a least one) for a hypothesis, which `NumbersWellOrdered` of `InputsProofs`
  proves from the library.  The same way a recursive function is shown to have the
  values its definition says, before anything is said of them.
  - *Frames.*  After each read the receiver has the messages whose frames have
    arrived as a whole, and its buffer is the rest of the stream so far; the length
    that a prefix gives is that of its payload, whatever the radix.
  - *Records.*  A prefix of the text of a record lacks a key the parser requires
    unless it reaches into the last line, where a shorter number is a smaller one.
  - *Listings.*  After each file of a walk the list holds the databases so far, or an
    error has ended it, which was a directory or a lock.  A round pulls nothing when
    the list is empty, and removes nothing then.
  - *Scripts.*  At each character, `split_sql_statements` is inside quotes exactly when
    SQLite is, and what it has of a statement is what SQLite has, with white space
    and comments; each piece is one statement or, of comments only, none.
  - *Sessions.*  After each line, database and format are those chosen last, and the
    calls are those of the commands so far.
  - *Streams and printing.*  The chunks sent and the rows kept are the rows so far.
    A reader that has read a cell, quoted or not, up to its separator has the text of
    the cell, hence a line, hence the whole.
  - *Delays and arguments.*  The powers of two come from `FactorDoubles`; a parsed
    argument is put together again from the parts it was cut into.

Only model-checked: liveness, out of the prover's reach as fairness is, and
`ParametersArrive`, which rests on the decimal texts of numbers (`Canonical`) and on
two passes of binding.

## 8. What is not modelled

* SQLite below the page level, and its SQL; `Backup` in `src/db.rs` is used as a
  library.  Durability of the disk: `write_page` does not sync.
* Hash collisions; the schedule of parallel hashing, a map whose result does not
  depend on it; `SyncTuning::from_env`, which sizes batches and thread pools.
* Skew between the clocks of nodes.
* The checks of the HA options at startup and the loading of tokens and
  certificates (`src/main.rs`); the arguments of ssh; tables for the terminal; error
  texts.
* `label-updater.sh`, a routing hint; sizes and queues of the connection pools, which
  are in their libraries; bincode, protobuf, JSON and TOML themselves.
