----------------------------- MODULE MCBatchRun -----------------------------
(* Command lines and manifests for TLC. *)
EXTENDS BatchRun

DefaultArgs == [mode |-> "sync", batch |-> TRUE, positionals |-> FALSE, jobs |-> 1,
                retries |-> 0, timeout |-> 0, backoff |-> 0, backoff_max |-> 0,
                jitter |-> 0, dry_run |-> FALSE,
                format |-> "auto", extension |-> "json", syntax |-> "json"]

PlainEntry == [origin |-> "local", replica |-> "local", target |-> "a", dry_run |-> Unset,
               retries |-> Unset, timeout |-> Unset, backoff |-> Unset,
               backoff_max |-> Unset, jitter |-> Unset]

GrpcPush == [PlainEntry EXCEPT !.replica = "grpc"]
Pull == [PlainEntry EXCEPT !.origin = "ssh"]
At(entry, r) == [entry EXCEPT !.target = r]
Batch(entries, flags) == [args |-> flags, manifest |-> entries]

(* Runs of the pool: two gateway pushes with retries and a limit, one of them
   overriding the retries; an entry that may hang beside two that may not, on
   one job and on two; dry runs and routes that are refused. *)
PoolRuns == {
  Batch(<<GrpcPush, At(GrpcPush, "b")>>,
        [DefaultArgs EXCEPT !.jobs = 2, !.retries = 1, !.timeout = 1]),
  Batch(<<[GrpcPush EXCEPT !.retries = 2, !.timeout = 1, !.backoff = 1]>>, DefaultArgs),
  Batch(<<GrpcPush, GrpcPush>>, [DefaultArgs EXCEPT !.jobs = 2, !.timeout = 1]),
  Batch(<<Pull, At(PlainEntry, "b"), At(PlainEntry, "c")>>, [DefaultArgs EXCEPT !.jobs = 2]),
  Batch(<<[PlainEntry EXCEPT !.retries = 0], At(Pull, "b")>>,
        [DefaultArgs EXCEPT !.retries = 1, !.timeout = 1, !.backoff = 1, !.jitter = 50]),
  Batch(<<[PlainEntry EXCEPT !.dry_run = TRUE], At(PlainEntry, "b"),
          [At(GrpcPush, "c") EXCEPT !.dry_run = TRUE]>>, DefaultArgs),
  Batch(<<[PlainEntry EXCEPT !.dry_run = FALSE], [At(PlainEntry, "b") EXCEPT !.origin = "grpc"]>>,
        [DefaultArgs EXCEPT !.dry_run = TRUE, !.jobs = 2]),
  Batch(<<[Pull EXCEPT !.replica = "grpc", !.retries = 1],
          [At(PlainEntry, "b") EXCEPT !.replica = "ssh", !.timeout = 1, !.retries = 1]>>, DefaultArgs)}

(* Single syncs, and command lines and manifests that are refused or go to
   another mode. *)
SingleArgs == [DefaultArgs EXCEPT !.batch = FALSE, !.positionals = TRUE]
OtherRuns == {
  Batch(<<PlainEntry>>, SingleArgs),
  Batch(<<[Pull EXCEPT !.origin = "grpc"]>>, SingleArgs),
  Batch(<<[Pull EXCEPT !.replica = "grpc"]>>, SingleArgs),
  Batch(<<PlainEntry>>, [SingleArgs EXCEPT !.mode = "ha"]),
  Batch(<<PlainEntry>>, [SingleArgs EXCEPT !.mode = "server"]),
  Batch(<<PlainEntry>>, [DefaultArgs EXCEPT !.batch = FALSE, !.mode = "server"]),
  Batch(<<PlainEntry>>, [DefaultArgs EXCEPT !.extension = "yml"]),
  Batch(<<PlainEntry>>, [DefaultArgs EXCEPT !.extension = "txt", !.syntax = "toml"]),
  Batch(<<PlainEntry>>, [DefaultArgs EXCEPT !.format = "toml"]),
  Batch(<<PlainEntry>>, [DefaultArgs EXCEPT !.extension = "txt", !.syntax = "none"]),
  Batch(<<PlainEntry>>, [DefaultArgs EXCEPT !.mode = "client"]),
  Batch(<<PlainEntry>>, [DefaultArgs EXCEPT !.mode = "ha"]),
  Batch(<<PlainEntry>>, [DefaultArgs EXCEPT !.positionals = TRUE]),
  Batch(<<PlainEntry>>, [DefaultArgs EXCEPT !.jobs = 0]),
  Batch(<<PlainEntry>>, [DefaultArgs EXCEPT !.jitter = 101]),
  Batch(<<PlainEntry>>, [DefaultArgs EXCEPT !.backoff = 2, !.backoff_max = 1]),
  Batch(<<>>, DefaultArgs),
  Batch(<<PlainEntry, [PlainEntry EXCEPT !.replica = "blank"]>>, DefaultArgs),
  Batch(<<[PlainEntry EXCEPT !.timeout = 0]>>, DefaultArgs),
  Batch(<<[PlainEntry EXCEPT !.jitter = 101]>>, DefaultArgs),
  Batch(<<[PlainEntry EXCEPT !.backoff = 2, !.backoff_max = 1]>>, DefaultArgs)}

AllRuns == PoolRuns \cup OtherRuns
=============================================================================
