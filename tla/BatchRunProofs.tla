--------------------------- MODULE BatchRunProofs ---------------------------
(***************************************************************************)
(* A success that is counted stays true (SuccessStays), a dry run writes   *)
(* nothing (DryRunsTouchNothing), and the report tells what happened       *)
(* (ReportTells), for every manifest, number of jobs, retries, time limits *)
(* and pages.                                                              *)
(***************************************************************************)
EXTENDS BatchRun, TLAPS, WellFoundedInduction, FiniteSetTheorems

Image == [Pages -> Nat]
Places == {"pending", "ready", "login", "connect", "copy", "sleep", "done"}
LeftBehind == [replica : Replicas, image : Image, todo : SUBSET Pages, locked : BOOLEAN]
Results == [index : Nat, ok : BOOLEAN]

(* What the command line guarantees of the entries. *)
ConfigTyped ==
  /\ Len(manifest) \in Nat /\ args.jobs \in Nat
  /\ \A e \in Entries : Target(e) \in Replicas /\ OptionOf(e, "retries") \in Nat

Typed ==
  /\ next \in Nat
  /\ pc \in [Entries -> Places]
  /\ results \in Seq(Results)
  /\ origin \in Image
  /\ snap \in [Entries -> Image]
  /\ todo \in [Entries -> SUBSET Pages]
  /\ replica \in [Replicas -> Image]
  /\ orphans \subseteq LeftBehind

(* The pool: entries are begun in order, and only those that are over count. *)
PoolInv ==
  /\ phase = "start" => results = <<>> /\ \A e \in Entries : pc[e] = "pending"
  /\ \A e \in Entries : e >= next => pc[e] = "pending"
  /\ \A e \in Entries : Succeeded(e) => pc[e] = "done"

(* What a session left behind goes back to an entry that pushes and does write. *)
Source(o, e) ==
  /\ o.replica = Target(e)
  /\ ~DryRun(e)
  /\ RouteOf(e) \in {"push", "grpc_push"}
  /\ RouteOf(e) = "grpc_push" => o.locked
SourceInv ==
  /\ \A e \in Entries : pc[e] \in {"login", "connect", "copy"} => ~DryRun(e)
  /\ \A o \in orphans : \E e \in Entries : Source(o, e)

(* The entries SuccessStays speaks of. *)
Safe(e) == OwnReplica(e) /\ ~DryRun(e) /\ RouteOf(e) # "push"

(* While such an entry copies, and once it has succeeded, no other session writes
   to its replica: what is not still to be copied agrees with the snapshot. *)
Alone(e) == \A o \in orphans : o.replica # Target(e)
CopyInv(e) ==
  /\ pc[e] = "copy" =>
       Alone(e) /\ \A p \in Pages \ todo[e] : replica[Target(e)][p] = snap[e][p]
  /\ Succeeded(e) => Alone(e) /\ replica[Target(e)] = snap[e]

IInv ==
  /\ ConfigTyped
  /\ Typed
  /\ PoolInv
  /\ SourceInv
  /\ \A e \in Entries : Safe(e) => CopyInv(e)

(* The invariant is enough for the invariant of the run. *)
LEMMA InvImpliesSuccessStays == IInv => SuccessStays
BY DEF IInv, SuccessStays, CopyInv, Safe

(* Nothing has run at the start. *)
LEMMA InitInv == Init => IInv
<1> SUFFICES ASSUME Init PROVE IInv
  OBVIOUS
<1>1. PICK i \in Invocations : args = i.args /\ manifest = i.manifest
  BY DEF Init
<1>2. ConfigTyped
  <2>1. Len(manifest) \in Nat /\ args.jobs \in Nat /\ \A e \in Entries : Target(e) \in Replicas
    BY <1>1, BatchAssumption DEF Entries, Target
  <2>2. ASSUME NEW e \in Entries PROVE OptionOf(e, "retries") \in Nat
    BY <1>1, BatchAssumption DEF Entries, OptionOf
  <2> QED BY <2>1, <2>2 DEF ConfigTyped
<1>3. Typed
  <2>1. results \in Seq(Results) /\ orphans = {} /\ next \in Nat
    BY DEF Init
  <2>2. origin \in Image /\ replica \in [Replicas -> Image] /\ snap \in [Entries -> Image]
    BY DEF Init, Image
  <2>3. pc \in [Entries -> Places] /\ todo \in [Entries -> SUBSET Pages]
    BY DEF Init, Places
  <2> QED
    BY <2>1, <2>2, <2>3 DEF Typed
<1>4. PoolInv
  BY DEF Init, PoolInv, Succeeded
<1>5. SourceInv
  BY DEF Init, SourceInv
<1>6. \A e \in Entries : CopyInv(e)
  BY DEF Init, CopyInv, Succeeded
<1> QED
  BY <1>2, <1>3, <1>4, <1>5, <1>6 DEF IInv

(* The command line does not change, and with it all that is derived from it. *)
LEMMA ConfigStays ==
  ASSUME UNCHANGED config
  PROVE  /\ Entries' = Entries /\ (ConfigTyped <=> ConfigTyped')
         /\ \A e : /\ Target(e)' = Target(e) /\ RouteOf(e)' = RouteOf(e)
                   /\ Attempts(e)' = Attempts(e)
                   /\ DryRun(e)' = DryRun(e) /\ (Safe(e)' <=> Safe(e))
                   /\ \A o : Source(o, e)' <=> Source(o, e)
BY DEF config, Entries, ConfigTyped, Target, RouteOf, Attempts, DryRun, OptionOf, Safe, OwnReplica,
       Source

(* What a step of entry e may do to the pool: another entry may be begun, and e
   be over; a success is counted only when it is. *)
Moved(e) ==
  /\ pc' \in [Entries -> Places] /\ next' \in Nat /\ results' \in Seq(Results)
  /\ \A f \in Entries : f >= next' => pc'[f] = "pending"
  /\ \A f \in Entries \ {e} : pc'[f] = pc[f] \/ (pc[f] = "pending" /\ pc'[f] = "ready")
  /\ \A f \in Entries : Succeeded(f)' => Succeeded(f) \/ (f = e /\ pc'[f] = "done")

(* A result is added. *)
LEMMA Counted ==
  ASSUME results \in Seq(Results), NEW e \in Nat, NEW ok \in BOOLEAN,
         results' = Append(results, [index |-> e, ok |-> ok])
  PROVE  /\ results' \in Seq(Results)
         /\ \A f : Succeeded(f)' => Succeeded(f) \/ (f = e /\ ok)
<1> DEFINE r == [index |-> e, ok |-> ok]
<1>1. r \in Results /\ r.index = e /\ r.ok = ok
  BY DEF Results
<1> HIDE DEF r
<1>2. results' = Append(results, r)
  BY DEF r
<1>3. /\ results' \in Seq(Results)
      /\ \A i \in DOMAIN results' : results'[i] = r \/ (i \in DOMAIN results /\ results'[i] = results[i])
  BY <1>1, <1>2
<1> QED
  BY <1>1, <1>3 DEF Succeeded

(* Completes: entry e is over and the next one begins. *)
LEMMA CompletesMoves ==
  ASSUME IInv, NEW e \in Entries, pc[e] # "pending", NEW ok \in BOOLEAN, Completes(e, ok)
  PROVE  Moved(e) /\ pc'[e] = "done" /\ \A f : Succeeded(f)' => Succeeded(f) \/ (f = e /\ ok)
<1>1. /\ next \in Nat /\ pc \in [Entries -> Places] /\ results \in Seq(Results) /\ Entries \subseteq Nat
      /\ \A f \in Entries : f >= next => pc[f] = "pending"
  BY DEF IInv, Typed, PoolInv, Entries, ConfigTyped
<1>2. /\ results' \in Seq(Results) /\ \A f : Succeeded(f)' => Succeeded(f) \/ (f = e /\ ok)
  BY <1>1, Counted DEF Completes
<1>3. e # next /\ e \in Nat
  BY <1>1
<1>4. /\ pc' \in [Entries -> Places] /\ next' \in Nat /\ pc'[e] = "done"
      /\ \A f \in Entries : f >= next' => pc'[f] = "pending"
      /\ \A f \in Entries \ {e} : pc'[f] = pc[f] \/ (pc[f] = "pending" /\ pc'[f] = "ready")
  <2>1. CASE next <= Len(manifest)
    <3>1. pc' = [pc EXCEPT ![e] = "done", ![next] = "ready"] /\ next' = next + 1
      BY <2>1 DEF Completes
    <3>2. \A f \in Entries : pc'[f] = IF f = next THEN "ready" ELSE IF f = e THEN "done" ELSE pc[f]
      BY <1>1, <1>3, <3>1
    <3>3. pc' \in [Entries -> Places]
      BY <1>1, <3>1, Zenon DEF Places
    <3> QED
      BY <1>1, <1>3, <3>1, <3>2, <3>3
  <2>2. CASE ~(next <= Len(manifest))
    <3>1. pc' = [pc EXCEPT ![e] = "done"] /\ next' = next
      BY <2>2 DEF Completes
    <3> QED
      BY <1>1, <1>3, <3>1 DEF Places
  <2> QED
    BY <2>1, <2>2
<1> QED
  BY <1>2, <1>4 DEF Moved

(* An entry goes on by itself. *)
LEMMA StepMoves ==
  ASSUME IInv, NEW e \in Entries, pc[e] # "pending", NEW s \in Places,
         pc' = [pc EXCEPT ![e] = s], UNCHANGED <<next, results>>
  PROVE  Moved(e) /\ pc'[e] = s /\ \A f : Succeeded(f)' <=> Succeeded(f)
BY DEF IInv, Typed, PoolInv, Moved, Succeeded, Entries, ConfigTyped

(* AttemptFails: another attempt follows, or the entry has failed. *)
LEMMA FailureMoves ==
  ASSUME IInv, NEW e \in Entries, pc[e] # "pending", NEW begun, AttemptFails(e, begun)
  PROVE  /\ Moved(e) /\ pc'[e] \in {"sleep", "ready", "done"}
         /\ \A f : Succeeded(f)' => Succeeded(f)
<1>1. CASE Completes(e, FALSE)
  BY <1>1, CompletesMoves, Zenon
<1>2. CASE /\ pc' = [pc EXCEPT ![e] = IF Backoffs(e, begun) THEN "sleep" ELSE "ready"]
           /\ UNCHANGED <<next, results>>
  BY <1>2, StepMoves, Zenon DEF Places
<1> QED
  BY <1>1, <1>2, Zenon DEF AttemptFails

(* What a step of entry e may do to everything else: it writes to its own
   replica, and leaves behind only what goes back to it. *)
Stays(e) ==
  /\ \A f \in Entries \ {e} : snap'[f] = snap[f] /\ todo'[f] = todo[f]
  /\ \A r \in Replicas \ {Target(e)} : replica'[r] = replica[r]
  /\ \A o \in orphans' : o \in orphans \/ Source(o, e)

(* A step of one entry keeps the invariant if it keeps the entry's own part. *)
LEMMA EntryInv ==
  ASSUME IInv, NEW e \in Entries, pc[e] \notin {"pending", "done"}, UNCHANGED <<config, phase>>,
         Typed', Moved(e), Stays(e),
         pc'[e] \in {"login", "connect", "copy"} => ~DryRun(e),
         Safe(e) => CopyInv(e)'
  PROVE  IInv'
<1>1. ConfigTyped' /\ Entries' = Entries
  BY ConfigStays DEF IInv
<1>2. PoolInv'
  <2>1. phase # "start"
    BY DEF IInv, PoolInv
  <2> QED
    BY <1>1, <2>1 DEF IInv, PoolInv, Moved
<1>3. SourceInv'
  <2>1. \A f \in Entries : pc'[f] \in {"login", "connect", "copy"} => ~DryRun(f)
    BY DEF IInv, SourceInv, Moved
  <2>2. \A o \in orphans' : \E f \in Entries : Source(o, f)
    BY DEF IInv, SourceInv, Stays
  <2> QED
    BY <1>1, <2>1, <2>2, ConfigStays DEF SourceInv
<1>4. ASSUME NEW f \in Entries, Safe(f), f # e
      PROVE  CopyInv(f)'
  <2>1. CopyInv(f) /\ Target(e) # Target(f) /\ Target(f) \in Replicas /\ Target(f)' = Target(f)
    BY <1>4, ConfigStays, Zenon DEF IInv, Safe, OwnReplica, ConfigTyped
  <2>2. replica'[Target(f)] = replica[Target(f)] /\ snap'[f] = snap[f] /\ todo'[f] = todo[f]
    BY <1>4, <2>1 DEF Stays
  <2>3. Alone(f) => Alone(f)'
    BY <2>1 DEF Alone, Stays, Source
  <2>4. (pc'[f] = "copy" => pc[f] = "copy") /\ (Succeeded(f)' => Succeeded(f))
    BY <1>4 DEF Moved
  <2> QED
    BY <2>1, <2>2, <2>3, <2>4, Zenon DEF CopyInv
<1> QED
  BY <1>1, <1>2, <1>3, <1>4, ConfigStays DEF IInv

(* Begin: an attempt that ends at once has not written; a dry run counts as a
   success, but not for SuccessStays. *)
LEMMA BeginStep ==
  ASSUME IInv, NEW e \in Entries, Begin(e)
  PROVE  IInv'
<1>1. /\ pc[e] = "ready" /\ UNCHANGED <<config, phase, todo, report, origin, replica, orphans>>
      /\ snap' = snap \/ snap' = [snap EXCEPT ![e] = origin]
  BY Zenon DEF Begin
<1>2. Stays(e) /\ snap' \in [Entries -> Image]
  BY <1>1 DEF Stays, IInv, Typed
<1>3. ~Succeeded(e)
  BY <1>1 DEF IInv, PoolInv
<1>4. /\ Moved(e) /\ pc'[e] # "copy"
      /\ pc'[e] \in {"login", "connect"} => ~DryRun(e)
      /\ Succeeded(e)' => DryRun(e)
  <2>1. CASE AttemptFails(e, attempt[e] + 1)
    BY <1>1, <1>3, <2>1, FailureMoves
  <2>2. CASE DryRun(e) /\ Completes(e, TRUE)
    BY <1>1, <2>2, CompletesMoves, Zenon
  <2>3. CASE /\ ~DryRun(e) /\ UNCHANGED <<results, next>>
             /\ pc' = [pc EXCEPT ![e] = IF Remote(e) THEN "login" ELSE "connect"]
    BY <1>1, <1>3, <2>3, StepMoves, Zenon DEF Places
  <2> QED
    BY <2>1, <2>2, <2>3, Zenon DEF Begin
<1>5. Typed'
  BY <1>1, <1>2, <1>4, ConfigStays DEF Typed, IInv, Moved
<1> QED
  BY <1>1, <1>2, <1>4, <1>5, EntryInv DEF CopyInv, Safe

(* authenticate and Wake move one entry and touch nothing. *)
LEMMA QuietSteps ==
  ASSUME IInv, NEW e \in Entries, authenticate(e) \/ Wake(e)
  PROVE  IInv'
<1>1. /\ pc[e] \in {"login", "sleep"}
      /\ UNCHANGED <<config, phase, next, results, snap, todo, origin, replica, orphans>>
      /\ \/ pc' = [pc EXCEPT ![e] = "connect"] /\ ~DryRun(e)
         \/ pc' = [pc EXCEPT ![e] = "ready"]
  BY DEF authenticate, Wake, sessions, IInv, SourceInv
<1>2. /\ Moved(e) /\ pc'[e] \in {"connect", "ready"} /\ ~Succeeded(e)'
      /\ pc'[e] = "connect" => ~DryRun(e)
  BY <1>1, StepMoves DEF Places, IInv, PoolInv
<1>3. Stays(e)
  BY <1>1 DEF Stays
<1>4. Typed'
  BY <1>1, <1>2, ConfigStays DEF Typed, IInv, Moved
<1> QED
  BY <1>1, <1>2, <1>3, <1>4, EntryInv, Zenon DEF CopyInv

(* Connect: the session compares with a replica that nobody else writes to, for
   a gateway because the mutex of the database was free. *)
LEMMA ConnectStep ==
  ASSUME IInv, NEW e \in Entries, Connect(e)
  PROVE  IInv'
<1> DEFINE image == IF TakenByPeer(e) THEN origin ELSE snap[e]
<1>1. /\ pc[e] = "connect" /\ pc' = [pc EXCEPT ![e] = "copy"]
      /\ UNCHANGED <<config, phase, next, results, origin, replica, orphans>>
      /\ snap' = [snap EXCEPT ![e] = image]
      /\ todo' = [todo EXCEPT ![e] = {p \in Pages : replica[Target(e)][p] # image[p]}]
      /\ RouteOf(e) = "grpc_push" => LockFree(e)
  BY Zenon DEF Connect
<1>2. image \in Image
  BY DEF IInv, Typed
<1> HIDE DEF image
<1>3. Moved(e) /\ pc'[e] = "copy" /\ ~Succeeded(e)' /\ ~DryRun(e)
  BY <1>1, StepMoves, Zenon DEF Places, IInv, PoolInv, SourceInv
<1>4. /\ Stays(e) /\ snap' \in [Entries -> Image] /\ todo' \in [Entries -> SUBSET Pages]
      /\ \A p \in Pages \ todo'[e] : replica[Target(e)][p] = snap'[e][p]
  BY <1>1, <1>2 DEF Stays, IInv, Typed
<1>5. Typed'
  BY <1>1, <1>3, <1>4, ConfigStays, Zenon DEF Typed, IInv, Moved
<1>6. ASSUME Safe(e)
      PROVE  Alone(e)
  <2> SUFFICES ASSUME NEW o \in orphans, o.replica = Target(e)
               PROVE  FALSE
    BY DEF Alone
  <2>1. PICK f \in Entries : Source(o, f)
    BY DEF IInv, SourceInv
  <2>2. f = e
    BY <1>6, <2>1 DEF Safe, OwnReplica, Source
  <2> QED
    BY <1>1, <1>6, <2>1, <2>2, Zenon DEF Safe, Source, LockFree
<1>7. Safe(e) => CopyInv(e)'
  BY <1>1, <1>3, <1>4, <1>6, ConfigStays, Zenon DEF CopyInv, Alone
<1> QED
  BY <1>1, <1>3, <1>4, <1>5, <1>7, EntryInv, Zenon

(* A page is written: one more agrees with the snapshot. *)
LEMMA WritePageStep ==
  ASSUME IInv, NEW e \in Entries, WritePage(e)
  PROVE  IInv'
<1> DEFINE p == First(todo[e])
<1>1. /\ pc[e] = "copy" /\ UNCHANGED <<config, phase, next, pc, results, snap, origin, orphans>>
      /\ replica' = [replica EXCEPT ![Target(e)][p] = snap[e][p]]
      /\ todo' = [todo EXCEPT ![e] = @ \ {p}]
  BY DEF WritePage, pool
<1> HIDE DEF p
<1>2. /\ Target(e) \in Replicas /\ snap[e] \in Image /\ replica \in [Replicas -> Image]
      /\ todo \in [Entries -> SUBSET Pages]
  BY DEF IInv, Typed, ConfigTyped
<1>3. replica' \in [Replicas -> Image]
  BY <1>1, <1>2, Zenon DEF Image
<1>4. todo' \in [Entries -> SUBSET Pages]
  BY <1>1, <1>2
<1>5. Moved(e) /\ ~Succeeded(e)' /\ ~DryRun(e)
  BY <1>1 DEF Moved, IInv, Typed, PoolInv, SourceInv, Succeeded
<1>6. Stays(e)
  BY <1>1, <1>2, Zenon DEF Stays
<1>7. Typed'
  BY <1>1, <1>3, <1>4, ConfigStays DEF Typed, IInv
<1>8. Safe(e) => CopyInv(e)'
  <2> SUFFICES ASSUME Safe(e) PROVE CopyInv(e)'
    OBVIOUS
  <2>1. Alone(e) /\ \A q \in Pages \ todo[e] : replica[Target(e)][q] = snap[e][q]
    BY <1>1 DEF IInv, CopyInv
  <2>2. \A q \in Pages \ todo'[e] : replica'[Target(e)][q] = snap[e][q]
    BY <1>1, <1>2, <2>1 DEF Image
  <2> QED
    BY <1>1, <1>5, <2>1, <2>2, ConfigStays DEF CopyInv, Alone
<1> QED
  BY <1>1, <1>5, <1>6, <1>7, <1>8, EntryInv

(* Finish: every page agrees, so the replica is the snapshot. *)
LEMMA FinishStep ==
  ASSUME IInv, NEW e \in Entries, Finish(e)
  PROVE  IInv'
<1>1. /\ pc[e] = "copy" /\ todo[e] = {} /\ Completes(e, TRUE)
      /\ UNCHANGED <<config, phase, snap, todo, origin, replica, orphans>>
  BY Zenon DEF Finish, sessions
<1>2. Moved(e) /\ pc'[e] = "done"
  BY <1>1, CompletesMoves, Zenon
<1>3. Stays(e)
  BY <1>1 DEF Stays
<1>4. Typed'
  BY <1>1, <1>2, ConfigStays DEF Typed, IInv, Moved
<1>5. ASSUME Safe(e)
      PROVE  Alone(e) /\ replica[Target(e)] = snap[e]
  <2>1. Alone(e) /\ \A p \in Pages : replica[Target(e)][p] = snap[e][p]
    BY <1>1, <1>5, Zenon DEF IInv, CopyInv
  <2>2. replica[Target(e)] \in [Pages -> Nat] /\ snap[e] \in [Pages -> Nat]
    BY DEF IInv, Typed, ConfigTyped, Image
  <2>3. PICK a, b : a = replica[Target(e)] /\ b = snap[e]
    OBVIOUS
  <2>4. a \in [Pages -> Nat] /\ b \in [Pages -> Nat] /\ \A p \in Pages : a[p] = b[p]
    BY <2>1, <2>2, <2>3
  <2>5. a = b
    BY <2>4
  <2> QED
    BY <2>1, <2>3, <2>5
<1>6. Safe(e) => CopyInv(e)'
  BY <1>1, <1>2, <1>5, ConfigStays, Zenon DEF CopyInv, Alone
<1> QED
  BY <1>1, <1>2, <1>3, <1>4, <1>6, EntryInv

(* Fails and TimesOut: the session is dropped; what a push leaves behind is a
   session of this entry. *)
LEMMA DropStep ==
  ASSUME IInv, NEW e \in Entries, Fails(e) \/ TimesOut(e)
  PROVE  IInv'
<1>1. /\ pc[e] \in {"login", "connect", "copy"} /\ AttemptFails(e, attempt[e])
      /\ todo' = [todo EXCEPT ![e] = {}] /\ UNCHANGED <<config, phase, snap, origin, replica>>
      /\ orphans' = IF pc[e] = "copy" /\ todo[e] # {} /\ RouteOf(e) \in {"push", "grpc_push"}
                    THEN orphans \cup {Orphan(e)} ELSE orphans
  BY Zenon DEF Fails, TimesOut, DropSession
<1>2. Moved(e) /\ pc'[e] \in {"sleep", "ready", "done"} /\ ~Succeeded(e)' /\ ~DryRun(e)
  BY <1>1, FailureMoves DEF IInv, PoolInv, SourceInv
<1>3. RouteOf(e) \in {"push", "grpc_push"} => Source(Orphan(e), e)
  BY <1>2, Zenon DEF Source, Orphan
<1>4. Stays(e)
  BY <1>1, <1>3 DEF Stays, IInv, Typed
<1>5. Orphan(e) \in LeftBehind
  BY Zenon DEF Orphan, IInv, Typed, ConfigTyped, LeftBehind
<1>6. todo' \in [Entries -> SUBSET Pages] /\ orphans' \subseteq LeftBehind
  BY <1>1, <1>5 DEF IInv, Typed
<1>7. Typed'
  BY <1>1, <1>2, <1>6, ConfigStays DEF Typed, IInv, Moved
<1> QED
  BY <1>1, <1>2, <1>4, <1>7, EntryInv, Zenon DEF CopyInv

(* A session left behind writes where no entry that is safe copies or has
   succeeded. *)
LEMMA OrphanSteps ==
  ASSUME IInv, NEW o \in orphans, OrphanWrites(o) \/ OrphanEnds(o)
  PROVE  IInv'
<1>1. UNCHANGED <<config, phase, next, pc, results, snap, todo, origin>>
  BY DEF OrphanWrites, OrphanEnds, pool, sessions
<1>2. o \in LeftBehind /\ replica \in [Replicas -> Image]
  BY DEF IInv, Typed
<1>3. /\ replica' \in [Replicas -> Image]
      /\ \A r \in Replicas : r # o.replica => replica'[r] = replica[r]
      /\ orphans' \subseteq LeftBehind
      /\ \A x \in orphans' : \E y \in orphans : x.replica = y.replica /\ x.locked = y.locked
  <2>1. CASE OrphanEnds(o)
    BY <1>2, <2>1 DEF OrphanEnds, IInv, Typed
  <2>2. CASE OrphanWrites(o)
    <3> DEFINE p == First(o.todo)
               left == [o EXCEPT !.todo = @ \ {p}]
    <3>1. /\ replica' = [replica EXCEPT ![o.replica][p] = o.image[p]]
          /\ orphans' = (orphans \ {o}) \cup {left}
      BY <2>2 DEF OrphanWrites
    <3> HIDE DEF p
    <3>2. left \in LeftBehind /\ left.replica = o.replica /\ left.locked = o.locked
      BY <1>2 DEF LeftBehind
    <3> HIDE DEF left
    <3>3. orphans' \subseteq LeftBehind /\ \A x \in orphans' : \E y \in orphans : x.replica = y.replica /\ x.locked = y.locked
      BY <3>1, <3>2 DEF IInv, Typed
    <3>4. o.replica \in Replicas /\ o.image \in [Pages -> Nat] /\ replica \in [Replicas -> [Pages -> Nat]]
      BY <1>2 DEF LeftBehind, Image
    <3>5. replica' \in [Replicas -> [Pages -> Nat]] /\ \A r \in Replicas : r # o.replica => replica'[r] = replica[r]
      BY <3>1, <3>4, Zenon
    <3> QED
      BY <3>3, <3>5 DEF Image
  <2> QED
    BY <2>1, <2>2
<1>4. Typed'
  BY <1>1, <1>3, ConfigStays DEF Typed, IInv
<1>5. PoolInv'
  BY <1>1, ConfigStays DEF PoolInv, IInv, Succeeded
<1>6. SourceInv'
  <2>1. \A x \in orphans' : \E f \in Entries : Source(x, f)
    <3> TAKE x \in orphans'
    <3>1. PICK y \in orphans : x.replica = y.replica /\ x.locked = y.locked
      BY <1>3
    <3>2. PICK f \in Entries : Source(y, f)
      BY DEF IInv, SourceInv
    <3>3. Source(x, f)
      BY <3>1, <3>2 DEF Source
    <3> QED
      BY <3>3
  <2> QED
    BY <1>1, <2>1, ConfigStays DEF SourceInv, IInv
<1>7. ASSUME NEW e \in Entries, Safe(e)
      PROVE  CopyInv(e)'
  <2>1. CopyInv(e) /\ Target(e) \in Replicas /\ Target(e)' = Target(e)
    BY <1>1, <1>7, ConfigStays DEF IInv, ConfigTyped
  <2>2. Alone(e) => Alone(e)' /\ replica'[Target(e)] = replica[Target(e)]
    BY <1>3, <2>1, Zenon DEF Alone
  <2>3. Succeeded(e)' <=> Succeeded(e)
    BY <1>1, Zenon DEF Succeeded
  <2> QED
    BY <1>1, <2>1, <2>2, <2>3, Zenon DEF CopyInv
<1> QED
  BY <1>1, <1>4, <1>5, <1>6, <1>7, ConfigStays DEF IInv

(* Launch starts the first entries; OriginCommit and Report touch no session. *)
LEMMA OtherSteps ==
  ASSUME IInv, Launch \/ Report \/ (\E p \in Pages : OriginCommit(p)) \/ UNCHANGED vars
  PROVE  IInv'
<1>1. UNCHANGED <<config, results, snap, todo, replica, orphans>>
  BY DEF Launch, Report, OriginCommit, vars, sessions, pool
<1>2. /\ next' \in Nat /\ pc' \in [Entries -> Places]
      /\ \A e \in Entries : e >= next' => pc'[e] = "pending"
      /\ \A e \in Entries : pc'[e] = pc[e] \/ (pc[e] = "pending" /\ pc'[e] = "ready")
      /\ phase' = "start" => pc' = pc /\ phase = "start"
  <2>1. CASE Launch
    <3> DEFINE started == IF Dispatch = "running" THEN Lesser(Jobs, Len(manifest)) ELSE 0
    <3>1. /\ phase = "start" /\ phase' = Dispatch /\ next' = started + 1
          /\ pc' = [e \in Entries |-> IF e <= started THEN "ready" ELSE "pending"]
      BY <2>1 DEF Launch
    <3>2. started \in Nat /\ Entries \subseteq Nat
      BY DEF IInv, ConfigTyped, Jobs, Lesser, Entries
    <3>3. Dispatch # "start"
      BY DEF Dispatch
    <3> HIDE DEF started
    <3>4. \A e \in Entries : pc[e] = "pending"
      BY <3>1 DEF IInv, PoolInv
    <3> QED
      BY <3>1, <3>2, <3>3, <3>4 DEF Places
  <2>2. CASE ~Launch
    <3>1. UNCHANGED <<next, pc>> /\ (phase' = phase \/ phase' = "reported")
      BY <2>2 DEF Report, OriginCommit, vars, pool
    <3> QED
      BY <3>1 DEF IInv, Typed, PoolInv
  <2> QED
    BY <2>1, <2>2
<1>3. origin' \in Image
  <2>1. origin \in Image
    BY DEF IInv, Typed
  <2>2. CASE Launch \/ Report \/ UNCHANGED vars
    BY <2>1, <2>2, Zenon DEF Launch, Report, vars
  <2>3. CASE \E p \in Pages : OriginCommit(p)
    <3>1. PICK p \in Pages, c \in 2..MaxChanges : origin' = [origin EXCEPT ![p] = c]
      BY <2>3, Zenon DEF OriginCommit
    <3>2. c \in Nat
      BY BatchAssumption
    <3> QED
      BY <2>1, <3>1, <3>2 DEF Image
  <2> QED
    BY <2>2, <2>3
<1>4. Typed'
  BY <1>1, <1>2, <1>3, ConfigStays, Zenon DEF Typed, IInv
<1>5. \A e : Succeeded(e)' <=> Succeeded(e)
  BY <1>1, Zenon DEF Succeeded
<1>6. PoolInv'
  BY <1>1, <1>2, <1>5, ConfigStays DEF PoolInv, IInv
<1>7. SourceInv'
  BY <1>1, <1>2, ConfigStays DEF SourceInv, IInv
<1>8. ASSUME NEW e \in Entries, Safe(e)
      PROVE  CopyInv(e)'
  <2>1. CopyInv(e) /\ (pc'[e] = "copy" => pc[e] = "copy")
    BY <1>2, <1>8 DEF IInv
  <2> QED
    BY <1>1, <1>5, <2>1, ConfigStays, Zenon DEF CopyInv, Alone
<1> QED
  BY <1>1, <1>4, <1>6, <1>7, <1>8, ConfigStays DEF IInv

(* Every step keeps the invariant. *)
LEMMA NextInv == IInv /\ [Next]_vars => IInv'
<1> SUFFICES ASSUME IInv, [Next]_vars PROVE IInv'
  OBVIOUS
<1>1. CASE \E e \in Entries : EntryStep(e)
  BY <1>1, BeginStep, QuietSteps, ConnectStep, WritePageStep, FinishStep, DropStep DEF EntryStep
<1>2. CASE \E o \in orphans : OrphanWrites(o) \/ OrphanEnds(o)
  BY <1>2, OrphanSteps
<1>3. CASE Launch \/ Report \/ (\E p \in Pages : OriginCommit(p)) \/ UNCHANGED vars
  BY <1>3, OtherSteps
<1> QED
  BY <1>1, <1>2, <1>3 DEF Next

(* Once an entry with a replica of its own has succeeded, that replica is the
   snapshot of the attempt that succeeded, whatever earlier attempts left behind
   (batch.rs, run_one; replication.rs, the mutex of the database).  For every
   manifest, number of jobs, attempts and pages. *)
THEOREM SuccessStaysTrue == Spec => []SuccessStays
BY InitInv, NextInv, InvImpliesSuccessStays, PTL DEF Spec

(* Which replicas a dry run protects. *)
Spared(r) ==
  \A e \in Entries : Target(e) = r =>
    IF manifest[e].dry_run = Unset THEN args.dry_run ELSE manifest[e].dry_run

(* A replica that is written belongs to an entry that is no dry run. *)
LEMMA StepTouchesNothing ==
  ASSUME IInv, [Next]_vars, NEW r \in Replicas, Spared(r)
  PROVE  replica'[r] = replica[r]
<1>1. \A e \in Entries : ~DryRun(e) => Target(e) # r
  BY DEF Spared, DryRun, OptionOf
<1>2. replica \in [Replicas -> Image]
  BY DEF IInv, Typed
<1>3. CASE \E e \in Entries : WritePage(e)
  <2>1. PICK e \in Entries : WritePage(e)
    BY <1>3
  <2>2. Target(e) # r
    BY <1>1, <2>1 DEF WritePage, IInv, SourceInv
  <2> QED
    BY <1>2, <2>1, <2>2 DEF WritePage
<1>4. CASE \E o \in orphans : OrphanWrites(o)
  <2>1. PICK o \in orphans : OrphanWrites(o)
    BY <1>4
  <2>2. o.replica # r
    BY <1>1 DEF IInv, SourceInv, Source
  <2> QED
    BY <1>2, <2>1, <2>2 DEF OrphanWrites
<1>5. CASE UNCHANGED replica
  BY <1>5
<1>6. \/ \E e \in Entries : WritePage(e)
      \/ \E o \in orphans : OrphanWrites(o)
      \/ UNCHANGED replica
  BY Zenon DEF Next, EntryStep, Launch, Begin, authenticate, Connect, Finish, Fails, TimesOut, DropSession,
         Wake, OrphanEnds, OriginCommit, Report, vars
<1> QED
  BY <1>3, <1>4, <1>5, <1>6

(* A replica that is named only by entries in dry-run mode is never written, not
   even by what a timed-out attempt left behind (main.rs, --dry-run; batch.rs,
   run_one_inner). *)
THEOREM DryRunsAreDry == Spec => DryRunsTouchNothing
<1>1. IInv /\ [Next]_vars =>
        [\A r \in Replicas : Spared(r) => replica'[r] = replica[r]]_vars
  BY StepTouchesNothing
<1>2. [\A r \in Replicas : Spared(r) => replica'[r] = replica[r]]_vars =>
      [\A r \in Replicas :
         (\A e \in Entries : Target(e) = r =>
            IF manifest[e].dry_run = Unset THEN args.dry_run ELSE manifest[e].dry_run)
         => replica'[r] = replica[r]]_vars
  BY DEF Spared
<1> QED
  BY <1>1, <1>2, InitInv, NextInv, PTL DEF Spec, DryRunsTouchNothing

-----------------------------------------------------------------------------
(* The report *)

(* No entry is begun more often than it is due, and one that may be begun
   again has attempts left. *)
AttemptInv ==
  /\ attempt \in [Entries -> Nat]
  /\ \A e \in Entries :
       /\ attempt[e] <= Attempts(e)
       /\ pc[e] \in {"pending", "ready", "sleep"} => attempt[e] < Attempts(e)

(* Each entry that is over has one result, and a failure had all its attempts. *)
ResultsInv ==
  /\ \A i \in DOMAIN results : results[i].index \in Entries
  /\ \A i, j \in DOMAIN results : results[i].index = results[j].index => i = j
  /\ \A e \in Entries :
       /\ pc[e] = "done" <=> \E i \in DOMAIN results : results[i].index = e
       /\ \A i \in DOMAIN results :
            results[i].index = e /\ ~results[i].ok => attempt[e] = Attempts(e)

(* What was printed is what the pool had collected when it was empty. *)
ReportInv ==
  phase = "reported" =>
    /\ \A e \in Entries : pc[e] = "done"
    /\ report.results = Reported
    /\ report.failed <=> \E i \in DOMAIN results : ~results[i].ok

TellInv == AttemptInv /\ ResultsInv /\ ReportInv

(* An entry is due one attempt and its retries (run_one). *)
LEMMA AttemptsDue ==
  ASSUME ConfigTyped, NEW e \in Entries
  PROVE  Attempts(e) \in Nat \ {0} /\ Attempts(e) = 1 + OptionOf(e, "retries")
BY DEF ConfigTyped, Attempts

(* Nothing is reported at the start. *)
LEMMA InitTells == Init => TellInv
<1> SUFFICES ASSUME Init PROVE TellInv
  OBVIOUS
<1>1. ConfigTyped
  BY InitInv DEF IInv
<1>2. AttemptInv
  <2>1. attempt = [e \in Entries |-> 0] /\ \A e \in Entries : Attempts(e) \in Nat \ {0}
    BY <1>1, AttemptsDue DEF Init
  <2> QED BY <2>1 DEF AttemptInv
<1>3. results = <<>> /\ phase = "start" /\ \A e \in Entries : pc[e] = "pending"
  BY DEF Init
<1> QED BY <1>2, <1>3 DEF TellInv, ResultsInv, ReportInv

(* An entry moves and is not over. *)
LEMMA MovesOn ==
  ASSUME IInv, TellInv, NEW e \in Entries, pc[e] # "done", UNCHANGED <<config, phase>>,
         NEW s \in Places \ {"done"}, pc' = [pc EXCEPT ![e] = s], results' = results,
         attempt' \in [Entries -> Nat], \A f \in Entries \ {e} : attempt'[f] = attempt[f],
         attempt'[e] <= Attempts(e),
         s \in {"pending", "ready", "sleep"} => attempt'[e] < Attempts(e)
  PROVE  TellInv'
<1>1. Entries' = Entries /\ \A f : Attempts(f)' = Attempts(f)
  BY ConfigStays, Zenon
<1>2. pc'[e] = s /\ \A f \in Entries \ {e} : pc'[f] = pc[f]
  BY DEF IInv, Typed
<1>3. AttemptInv'
  BY <1>1, <1>2 DEF TellInv, AttemptInv
<1>4. ResultsInv'
  <2>1. \A i \in DOMAIN results : results[i].index # e
    BY Zenon DEF TellInv, ResultsInv
  <2>2. ASSUME NEW f \in Entries
        PROVE  /\ pc'[f] = "done" <=> \E i \in DOMAIN results : results[i].index = f
               /\ \A i \in DOMAIN results :
                    results[i].index = f /\ ~results[i].ok => attempt'[f] = Attempts(f)
    <3>1. CASE f = e
      BY <1>2, <2>1, <3>1
    <3>2. CASE f # e
      BY <1>2, <3>2, Zenon DEF TellInv, ResultsInv
    <3> QED BY <3>1, <3>2, Zenon
  <2>3. /\ \A i \in DOMAIN results : results[i].index \in Entries
        /\ \A i, j \in DOMAIN results : results[i].index = results[j].index => i = j
    BY DEF TellInv, ResultsInv
  <2> QED BY <1>1, <2>2, <2>3 DEF ResultsInv
<1>5. phase' # "reported"
  BY DEF TellInv, ReportInv
<1> QED BY <1>3, <1>4, <1>5 DEF TellInv, ReportInv

(* An entry is over and its result is added. *)
LEMMA CompletesTells ==
  ASSUME IInv, TellInv, NEW e \in Entries, pc[e] \notin {"pending", "done"},
         UNCHANGED <<config, phase>>, NEW ok \in BOOLEAN, Completes(e, ok),
         attempt' \in [Entries -> Nat], \A f \in Entries \ {e} : attempt'[f] = attempt[f],
         attempt'[e] <= Attempts(e), ~ok => attempt'[e] = Attempts(e)
  PROVE  TellInv'
<1>1. Entries' = Entries /\ \A f : Attempts(f)' = Attempts(f)
  BY ConfigStays, Zenon
<1>2. /\ pc'[e] = "done"
      /\ \A f \in Entries \ {e} : pc'[f] = pc[f] \/ (pc[f] = "pending" /\ pc'[f] = "ready")
  <2>1. pc[e] # "pending"
    BY Zenon
  <2>2. Moved(e) /\ pc'[e] = "done"
    BY <2>1, CompletesMoves, Zenon
  <2> QED BY <2>2, Zenon DEF Moved
<1>3. AttemptInv'
  BY <1>1, <1>2, Zenon DEF TellInv, AttemptInv
<1>4. PICK r : r = [index |-> e, ok |-> ok]
  BY Zenon
<1>5. r.index = e /\ r.ok = ok /\ r \in Results
  BY <1>4 DEF Results, Entries, IInv, ConfigTyped
<1>6. results' = Append(results, r) /\ results \in Seq(Results)
  BY <1>4, Zenon DEF Completes, IInv, Typed
<1>7. PICK n : n = Len(results) + 1
  OBVIOUS
<1>8. /\ DOMAIN results' = DOMAIN results \cup {n} /\ n \notin DOMAIN results /\ results'[n] = r
      /\ \A i \in DOMAIN results : results'[i] = results[i]
  <2>1. PICK m \in Nat : m = Len(results) /\ n = m + 1 /\ DOMAIN results = 1..m
    BY <1>6, <1>7
  <2>2. DOMAIN results' = 1..(m + 1)
    BY <1>5, <1>6, <2>1
  <2>3. results'[m + 1] = r
    BY <1>5, <1>6, <2>1
  <2>4. ASSUME NEW i \in 1..m PROVE results'[i] = results[i]
    BY <1>5, <1>6, <2>1
  <2>5. 1..(m + 1) = 1..m \cup {m + 1} /\ m + 1 \notin 1..m
    OBVIOUS
  <2> QED BY <2>1, <2>2, <2>3, <2>4, <2>5, Zenon
<1>9. \A i \in DOMAIN results : results[i].index \in Entries \ {e} /\ pc[results[i].index] = "done"
  BY Zenon DEF TellInv, ResultsInv
<1>10. ResultsInv'
  <2>1. \A i \in DOMAIN results' : results'[i].index \in Entries
    BY <1>5, <1>8, <1>9, Zenon
  <2>2. ASSUME NEW i \in DOMAIN results', NEW j \in DOMAIN results',
               results'[i].index = results'[j].index
        PROVE  i = j
    <3>1. \A k \in DOMAIN results' : k = n <=> results'[k].index = e
      BY <1>5, <1>8, <1>9, Zenon
    <3>2. CASE i # n /\ j # n
      <4>1. /\ i \in DOMAIN results /\ j \in DOMAIN results
            /\ results[i].index = results[j].index
        BY <1>8, <2>2, <3>2, Zenon
      <4> QED BY <4>1, Zenon DEF TellInv, ResultsInv
    <3> QED BY <2>2, <3>1, <3>2, Zenon
  <2>3. ASSUME NEW f \in Entries
        PROVE  /\ pc'[f] = "done" <=> \E i \in DOMAIN results' : results'[i].index = f
               /\ \A i \in DOMAIN results' :
                    results'[i].index = f /\ ~results'[i].ok => attempt'[f] = Attempts(f)
    <3>1. CASE f = e
      <4>1. results'[n].index = e /\ n \in DOMAIN results'
        BY <1>5, <1>8, Zenon
      <4>2. \A i \in DOMAIN results' : results'[i].index = e => results'[i] = r
        BY <1>8, <1>9, Zenon
      <4> QED BY <1>2, <1>5, <3>1, <4>1, <4>2, Zenon
    <3>2. CASE f # e
      <4>1. attempt'[f] = attempt[f] /\ (pc'[f] = "done" <=> pc[f] = "done")
        BY <1>2, <3>2
      <4>2. /\ pc[f] = "done" <=> \E i \in DOMAIN results : results[i].index = f
            /\ \A i \in DOMAIN results :
                 results[i].index = f /\ ~results[i].ok => attempt[f] = Attempts(f)
        BY Zenon DEF TellInv, ResultsInv
      <4>3. \A i \in DOMAIN results' : results'[i].index = f => i \in DOMAIN results
        BY <1>5, <1>8, <3>2, Zenon
      <4>4. pc'[f] = "done" <=> \E i \in DOMAIN results' : results'[i].index = f
        BY <1>8, <4>1, <4>2, <4>3, Zenon
      <4>5. \A i \in DOMAIN results' :
              results'[i].index = f /\ ~results'[i].ok => attempt'[f] = Attempts(f)
        BY <1>8, <4>1, <4>2, <4>3, Zenon
      <4> QED BY <4>4, <4>5, Zenon
    <3> QED BY <3>1, <3>2, Zenon
  <2> QED BY <1>1, <2>1, <2>2, <2>3, Zenon DEF ResultsInv
<1>11. phase' # "reported"
  BY DEF TellInv, ReportInv
<1> QED BY <1>3, <1>10, <1>11 DEF TellInv, ReportInv

(* An attempt fails: the entry goes on while it has attempts left. *)
LEMMA FailsTells ==
  ASSUME IInv, TellInv, NEW e \in Entries, pc[e] \notin {"pending", "done"},
         UNCHANGED <<config, phase>>,
         attempt' \in [Entries -> Nat], \A f \in Entries \ {e} : attempt'[f] = attempt[f],
         attempt'[e] <= Attempts(e), AttemptFails(e, attempt'[e])
  PROVE  TellInv'
<1>1. PICK begun \in Nat : begun = attempt'[e]
  OBVIOUS
<1>2. Attempts(e) \in Nat
  BY AttemptsDue, Zenon DEF IInv
<1>3. CASE begun < Attempts(e)
  <2>1. PICK s \in {"sleep", "ready"} : s = IF Backoffs(e, begun) THEN "sleep" ELSE "ready"
    BY Zenon
  <2>2. pc' = [pc EXCEPT ![e] = s] /\ results' = results
    BY <1>1, <1>3, <2>1, Zenon DEF AttemptFails
  <2>3. s \in Places \ {"done"}
    BY <2>1 DEF Places
  <2> QED BY <1>1, <1>3, <2>2, <2>3, MovesOn, Zenon
<1>4. CASE ~(begun < Attempts(e))
  <2>1. begun = Attempts(e)
    BY <1>1, <1>2, <1>4
  <2>2. Completes(e, FALSE)
    BY <1>1, <1>4, Zenon DEF AttemptFails
  <2> QED BY <1>1, <2>1, <2>2, CompletesTells, Zenon
<1> QED BY <1>3, <1>4

(* A step of an entry counts its attempts and reports one result (run_one). *)
LEMMA EntryTells == ASSUME IInv, TellInv, NEW e \in Entries, EntryStep(e) PROVE TellInv'
<1>0. /\ attempt \in [Entries -> Nat] /\ attempt[e] \in Nat /\ Attempts(e) \in Nat
      /\ attempt[e] <= Attempts(e)
      /\ pc[e] \in {"pending", "ready", "sleep"} => attempt[e] < Attempts(e)
  BY AttemptsDue DEF TellInv, AttemptInv, IInv
<1>1. CASE Begin(e)
  <2>1. pc[e] = "ready" /\ UNCHANGED <<config, phase>> /\ attempt' = [attempt EXCEPT ![e] = @ + 1]
    BY <1>1, Zenon DEF Begin
  <2>2. /\ attempt' \in [Entries -> Nat] /\ \A f \in Entries \ {e} : attempt'[f] = attempt[f]
        /\ attempt'[e] = attempt[e] + 1 /\ attempt'[e] <= Attempts(e)
    BY <1>0, <2>1
  <2>3. CASE AttemptFails(e, attempt[e] + 1)
    BY <2>1, <2>2, <2>3, FailsTells
  <2>4. CASE Completes(e, TRUE)
    BY <2>1, <2>2, <2>4, CompletesTells, Zenon
  <2>5. CASE /\ pc' = [pc EXCEPT ![e] = IF Remote(e) THEN "login" ELSE "connect"]
             /\ results' = results
    <3>1. PICK s \in {"login", "connect"} : pc' = [pc EXCEPT ![e] = s]
      BY <2>5, Zenon
    <3>2. s \in Places \ {"done"} /\ s \notin {"pending", "ready", "sleep"}
      BY <3>1 DEF Places
    <3> QED BY <2>1, <2>2, <2>5, <3>1, <3>2, MovesOn, Zenon
  <2> QED BY <1>1, <2>3, <2>4, <2>5, Zenon DEF Begin
<1>2. CASE authenticate(e) \/ Connect(e)
  <2>1. PICK s \in {"connect", "copy"} : pc' = [pc EXCEPT ![e] = s]
    BY <1>2, Zenon DEF authenticate, Connect
  <2>2. pc[e] # "done" /\ UNCHANGED <<config, phase, attempt, results>>
    BY <1>2, Zenon DEF authenticate, Connect
  <2>3. s \in Places \ {"done"} /\ s \notin {"pending", "ready", "sleep"}
    BY <2>1 DEF Places
  <2> QED BY <1>0, <2>1, <2>2, <2>3, MovesOn, Zenon
<1>3. CASE Wake(e)
  <2>1. /\ pc[e] = "sleep" /\ pc' = [pc EXCEPT ![e] = "ready"]
        /\ UNCHANGED <<config, phase, attempt, results>>
    BY <1>3 DEF Wake
  <2> QED BY <1>0, <2>1, MovesOn, Zenon DEF Places
<1>4. CASE WritePage(e)
  <2>1. UNCHANGED <<config, phase, attempt, results, pc>> /\ pc[e] # "done"
    BY <1>4 DEF WritePage, pool
  <2>2. Entries' = Entries /\ \A f : Attempts(f)' = Attempts(f)
    BY <2>1, ConfigStays
  <2>3. phase' # "reported"
    BY <2>1 DEF TellInv, ReportInv
  <2> QED BY <2>1, <2>2, <2>3, Zenon DEF TellInv, AttemptInv, ResultsInv, ReportInv
<1>5. CASE Finish(e)
  <2>1. pc[e] = "copy" /\ Completes(e, TRUE) /\ UNCHANGED <<config, phase, attempt>>
    BY <1>5, Zenon DEF Finish
  <2> QED BY <1>0, <2>1, CompletesTells, Zenon
<1>6. CASE Fails(e) \/ TimesOut(e)
  <2>1. /\ pc[e] \in {"login", "connect", "copy"} /\ AttemptFails(e, attempt[e])
        /\ UNCHANGED <<config, phase, attempt>>
    BY <1>6, Zenon DEF Fails, TimesOut, DropSession
  <2> QED BY <1>0, <2>1, FailsTells
<1> QED BY <1>1, <1>2, <1>3, <1>4, <1>5, <1>6 DEF EntryStep

(* The report follows from the results (run_batch_sync). *)
LEMMA ReportedStays == ASSUME results' = results PROVE Reported' = Reported
BY DEF Reported

(* No step breaks the account of attempts and results. *)
LEMMA NextTells == ASSUME IInv, TellInv, [Next]_vars PROVE TellInv'
<1>1. CASE \E e \in Entries : EntryStep(e)
  BY <1>1, EntryTells
<1>2. CASE Launch
  <2>1. /\ UNCHANGED <<config, attempt, results>> /\ phase = "start" /\ phase' # "reported"
        /\ \A e \in Entries : pc'[e] \in {"ready", "pending"} /\ pc[e] = "pending"
    BY <1>2, Zenon DEF Launch, Dispatch, IInv, PoolInv
  <2>2. Entries' = Entries /\ \A f : Attempts(f)' = Attempts(f)
    BY <2>1, ConfigStays, Zenon
  <2>3. results = <<>>
    BY <2>1 DEF IInv, PoolInv
  <2>4. AttemptInv'
    BY <2>1, <2>2, Zenon DEF TellInv, AttemptInv
  <2>5. ResultsInv'
    BY <2>1, <2>2, <2>3 DEF ResultsInv
  <2>6. ReportInv'
    BY <2>1 DEF ReportInv
  <2> QED BY <2>4, <2>5, <2>6 DEF TellInv
<1>3. CASE Report
  <2>1. UNCHANGED <<config, attempt, results, pc>> /\ \A e \in Entries : pc[e] = "done"
    BY <1>3 DEF Report, pool
  <2>2. Entries' = Entries /\ \A f : Attempts(f)' = Attempts(f)
    BY <2>1, ConfigStays
  <2>3. Reported' = Reported
    BY <2>1, ReportedStays
  <2>4. report'.results = Reported /\ (report'.failed <=> \E i \in DOMAIN results : ~results[i].ok)
    BY <1>3 DEF Report
  <2> QED BY <2>1, <2>2, <2>3, <2>4, Zenon DEF TellInv, AttemptInv, ResultsInv, ReportInv
<1>4. CASE \/ \E o \in orphans : OrphanWrites(o) \/ OrphanEnds(o)
           \/ \E p \in Pages : OriginCommit(p)
           \/ UNCHANGED vars
  <2>1. UNCHANGED <<config, phase, attempt, results, pc, report>>
    BY <1>4, Zenon DEF OrphanWrites, OrphanEnds, OriginCommit, vars, pool
  <2>2. Entries' = Entries /\ \A f : Attempts(f)' = Attempts(f)
    BY <2>1, ConfigStays
  <2>3. Reported' = Reported
    BY <2>1, ReportedStays
  <2> QED BY <2>1, <2>2, <2>3, Zenon DEF TellInv, AttemptInv, ResultsInv, ReportInv
<1> QED BY <1>1, <1>2, <1>3, <1>4 DEF Next

(* A set of numbers has a smallest member. *)
LEMMA SmallestOf ==
  ASSUME NEW S, S \subseteq Nat, S # {}
  PROVE  \E x \in S : \A y \in S : x <= y
<1> DEFINE R == {ss \in Nat \X Nat : ss[1] < ss[2]}
<1>1. IsWellFoundedOn(R, Nat)
  BY NatLessThanWellFounded DEF OpToRel
<1>2. PICK x \in S : \A y \in S : ~(<<y, x>> \in R)
  <2> HIDE DEF R
  <2> QED BY <1>1, WFMin, Zenon
<1>3. ASSUME NEW y \in S PROVE x <= y
  <2>1. x \in Nat /\ y \in Nat /\ ~(<<y, x>> \in R)
    BY <1>2
  <2>2. ~(y < x)
    BY <2>1
  <2> HIDE DEF R
  <2> QED BY <2>1, <2>2
<1> QED BY <1>3, Zenon

(* A permutation of 1..n that never goes down moves nothing. *)
LEMMA SortedInPlace ==
  ASSUME NEW n \in Nat, NEW g \in [1..n -> 1..n],
         \A i, j \in 1..n : g[i] = g[j] => i = j,
         \A k \in 1..n : \E i \in 1..n : g[i] = k,
         \A i, j \in 1..n : i < j => g[i] <= g[j],
         NEW i \in 1..n
  PROVE  g[i] = i
<1> DEFINE Wrong == {k \in 1..n : g[k] # k}
<1>1. SUFFICES ASSUME Wrong # {} PROVE FALSE
  OBVIOUS
<1>2. PICK w \in 1..n : g[w] # w /\ \A k \in 1..n : g[k] # k => w <= k
  <2>1. Wrong \subseteq Nat
    OBVIOUS
  <2>2. PICK w \in Wrong : \A k \in Wrong : w <= k
    <3> HIDE DEF Wrong
    <3> QED BY <1>1, <2>1, SmallestOf, Zenon
  <2> QED BY <2>2
<1>3. \A k \in 1..n : k < w => g[k] = k
  BY <1>2
<1>4. g[w] \in 1..n
  OBVIOUS
<1>5. ~(g[w] < w)
  BY <1>2, <1>3, <1>4
<1>6. PICK k \in 1..n : g[k] = w
  OBVIOUS
<1>7. ~(k < w) /\ k # w
  BY <1>2, <1>3, <1>6, Zenon
<1>8. g[w] <= g[k]
  BY <1>7
<1> QED BY <1>2, <1>4, <1>5, <1>6, <1>8

(* The entries are over: there are as many results as entries, and sorting puts
   the result of each entry at its place. *)
LEMMA SortedByIndex ==
  ASSUME IInv, ResultsInv, \A e \in Entries : pc[e] = "done"
  PROVE  /\ Reported \in Seq(Results) /\ Len(Reported) = Len(manifest)
         /\ \A e \in Entries : /\ Reported[e].index = e
                               /\ \E i \in DOMAIN results : Reported[e] = results[i]
<1>1. PICK n \in Nat : n = Len(manifest)
  BY DEF IInv, ConfigTyped
<1>2. PICK m \in Nat : m = Len(results) /\ DOMAIN results = 1..m
  BY DEF IInv, Typed
<1>3. Entries = 1..n
  BY <1>1 DEF Entries
<1>4. /\ \A i \in 1..m : results[i].index \in 1..n /\ results[i] \in Results
      /\ \A i, j \in 1..m : results[i].index = results[j].index => i = j
      /\ \A e \in 1..n : \E i \in 1..m : results[i].index = e
  <2>1. \A i \in 1..m : results[i] \in Results
    BY <1>2 DEF IInv, Typed
  <2> QED BY <1>2, <1>3, <2>1, Zenon DEF ResultsInv
<1>5. m = n
  <2>1. PICK b : b = [i \in 1..m |-> results[i].index]
    BY Zenon
  <2>2. b \in [1..m -> 1..n] /\ \A i \in 1..m : b[i] = results[i].index
    BY <1>4, <2>1
  <2>3. b \in Injection(1..m, 1..n)
    <3>1. DOMAIN b = 1..m /\ \A i, j \in 1..m : b[i] = b[j] => i = j
      BY <1>4, <2>2, Zenon
    <3> QED BY <2>2, <3>1, Zenon DEF Injection, IsInjective
  <2>4. b \in Surjection(1..m, 1..n)
    <3>1. ASSUME NEW e \in 1..n PROVE \E i \in 1..m : b[i] = e
      <4>1. PICK i \in 1..m : results[i].index = e
        BY <1>4, Zenon
      <4> QED BY <2>2, <4>1
    <3> QED BY <2>2, <3>1, Zenon DEF Surjection
  <2>5. Cardinality(1..n) = m
    BY <2>3, <2>4, FS_CountingElements, Zenon DEF ExistsBijection, Bijection
  <2>6. Cardinality(1..n) = n
    BY FS_Interval
  <2> QED BY <2>5, <2>6
<1> DEFINE places == DOMAIN results
           Sorts(p) == /\ \A i \in places : \E j \in places : p[j] = i
                       /\ \A i, j \in places : i < j => results[p[i]].index <= results[p[j]].index
<1>6. places = 1..n
  BY <1>2, <1>5
<1>7. \E p \in [1..n -> 1..n] : Sorts(p)
  <2>1. PICK p : p = [e \in 1..n |-> CHOOSE i \in 1..n : results[i].index = e]
    BY Zenon
  <2>2. ASSUME NEW e \in 1..n PROVE p[e] \in 1..n /\ results[p[e]].index = e
    BY <1>4, <1>5, <2>1, Zenon
  <2>3. p \in [1..n -> 1..n]
    BY <2>1, <2>2
  <2>4. ASSUME NEW i \in 1..n PROVE \E j \in 1..n : p[j] = i
    <3>1. PICK e \in 1..n : e = results[i].index
      BY <1>4, <1>5
    <3>2. p[e] \in 1..n /\ results[p[e]].index = results[i].index
      BY <2>2, <3>1, Zenon
    <3>3. p[e] \in 1..m /\ i \in 1..m
      BY <1>5, <3>2, Zenon
    <3>4. p[e] = i
      BY <1>4, <3>2, <3>3, Zenon
    <3> QED BY <3>1, <3>4, Zenon
  <2>5. \A i, j \in 1..n : i < j => results[p[i]].index <= results[p[j]].index
    BY <2>2
  <2>6. Sorts(p)
    BY <1>6, <2>4, <2>5, Zenon
  <2> QED BY <2>3, <2>6, Zenon
<1> DEFINE order == CHOOSE p \in [places -> places] : Sorts(p)
<1>8. Reported = [i \in places |-> results[order[i]]]
  BY DEF Reported
<1>9. order \in [1..n -> 1..n] /\ Sorts(order)
  <2> HIDE DEF Sorts, places
  <2>1. \E p \in [places -> places] : Sorts(p)
    BY <1>7, <1>6, Zenon
  <2>2. order \in [places -> places] /\ Sorts(order)
    BY <2>1, Zenon
  <2> QED BY <1>6, <2>2, Zenon
<1> HIDE DEF order
<1>10. /\ \A i \in 1..n : \E j \in 1..n : order[j] = i
       /\ \A i, j \in 1..n : i < j => results[order[i]].index <= results[order[j]].index
  BY <1>9, <1>6, Zenon
<1>11. Reported = [i \in 1..n |-> results[order[i]]]
  <2> HIDE DEF places
  <2> QED BY <1>8, <1>6, Zenon
<1> HIDE DEF Sorts, places
<1>12. \A i, j \in 1..n : order[i] = order[j] => i = j
  <2>1. order \in Surjection(1..n, 1..n)
    BY <1>9, <1>10, Zenon DEF Surjection
  <2>2. IsFiniteSet(1..n)
    BY FS_Interval
  <2>3. order \in Injection(1..n, 1..n)
    BY <2>1, <2>2, FS_SurjSameCardinalityImpliesInj, Zenon
  <2> QED BY <1>9, <2>3 DEF Injection, IsInjective
<1>13. PICK g : g = [i \in 1..n |-> results[order[i]].index]
  BY Zenon
<1>14. /\ g \in [1..n -> 1..n] /\ \A i \in 1..n : g[i] = results[order[i]].index /\ order[i] \in 1..n
       /\ \A i \in 1..n : Reported[i] = results[order[i]]
  BY <1>4, <1>5, <1>9, <1>11, <1>13, Zenon
<1>15. ASSUME NEW i \in 1..n, NEW j \in 1..n, g[i] = g[j] PROVE i = j
  <2>1. order[i] \in 1..m /\ order[j] \in 1..m /\ results[order[i]].index = results[order[j]].index
    <3>1. order[i] \in 1..m /\ g[i] = results[order[i]].index
      BY <1>5, <1>14
    <3>2. order[j] \in 1..m /\ g[j] = results[order[j]].index
      BY <1>5, <1>14, Zenon
    <3> QED BY <1>15, <3>1, <3>2, Zenon
  <2>2. order[i] = order[j]
    <3>1. \A x, y \in 1..m : results[x].index = results[y].index => x = y
      BY <1>4, Zenon
    <3> QED BY <2>1, <3>1
  <2> QED BY <1>12, <2>2
<1>16. ASSUME NEW k \in 1..n PROVE \E i \in 1..n : g[i] = k
  <2>1. PICK i \in 1..n : results[i].index = k
    BY <1>4, <1>5
  <2>2. PICK j \in 1..n : order[j] = i
    BY <1>10
  <2> QED BY <1>14, <2>1, <2>2
<1>17. \A i, j \in 1..n : i < j => g[i] <= g[j]
  BY <1>14, <1>10, Zenon
<1>18. \A e \in 1..n : g[e] = e
  BY <1>14, <1>15, <1>16, <1>17, SortedInPlace, Zenon
<1>19. Reported \in Seq(Results) /\ Len(Reported) = n
  <2>1. ASSUME NEW i \in 1..n PROVE results[order[i]] \in Results
    BY <1>4, <1>5, <1>14, Zenon
  <2>2. PICK r : r = Reported
    OBVIOUS
  <2>3. r \in [1..n -> Results]
    BY <1>11, <2>1, <2>2
  <2> QED BY <2>2, <2>3
<1> QED BY <1>1, <1>2, <1>3, <1>5, <1>14, <1>18, <1>19

(* The invariant is enough for the invariant of the run. *)
LEMMA TellsReport == IInv /\ TellInv => ReportTells
<1> SUFFICES ASSUME IInv, TellInv, phase = "reported" PROVE ReportTells
  BY Zenon DEF ReportTells
<1>1. /\ \A e \in Entries : pc[e] = "done"
      /\ report.results = Reported
      /\ report.failed <=> \E i \in DOMAIN results : ~results[i].ok
  BY DEF TellInv, ReportInv
<1>2. /\ Len(Reported) = Len(manifest)
      /\ \A e \in Entries : /\ Reported[e].index = e
                            /\ \E i \in DOMAIN results : Reported[e] = results[i]
  <2>1. ResultsInv
    BY DEF TellInv
  <2> QED BY <1>1, <2>1, SortedByIndex, Zenon
<1>3. \A i \in DOMAIN results : results[i] \in Results /\ results[i].index \in Entries
  <2>1. \A i \in DOMAIN results : results[i] \in Results
    BY DEF IInv, Typed
  <2>2. \A i \in DOMAIN results : results[i].index \in Entries
    BY DEF TellInv, ResultsInv
  <2> QED BY <2>1, <2>2
<1>4. ASSUME NEW e \in Entries, NEW i \in DOMAIN results, results[i].index = e
      PROVE  /\ results[i].ok <=> Succeeded(e)
             /\ ~results[i].ok => attempt[e] = Attempts(e)
  <2>1. ~results[i].ok => attempt[e] = Attempts(e)
    BY <1>4 DEF TellInv, ResultsInv
  <2>2. ASSUME results[i].ok PROVE Succeeded(e)
    <3>1. results[i] = [index |-> e, ok |-> TRUE]
      BY <1>3, <1>4, <2>2 DEF Results
    <3> QED BY <3>1, Zenon DEF Succeeded
  <2>3. ASSUME Succeeded(e) PROVE results[i].ok
    <3>1. PICK j \in DOMAIN results : results[j] = [index |-> e, ok |-> TRUE]
      BY <2>3, Zenon DEF Succeeded
    <3>2. results[j].index = e /\ results[j].ok
      <4>1. PICK r : r = results[j]
        BY Zenon
      <4>2. r.index = e /\ r.ok
        BY <3>1, <4>1
      <4> QED BY <4>1, <4>2, Zenon
    <3>3. i = j
      <4>1. \A x, y \in DOMAIN results : results[x].index = results[y].index => x = y
        BY Zenon DEF TellInv, ResultsInv
      <4> QED BY <1>4, <3>2, <4>1, Zenon
    <3> QED BY <3>2, <3>3
  <2> QED BY <2>1, <2>2, <2>3
<1>5. ASSUME NEW e \in Entries
      PROVE  /\ Reported[e].index = e
             /\ Reported[e].ok <=> Succeeded(e)
             /\ ~Reported[e].ok =>
                  attempt[e] = 1 + IF manifest[e].retries = Unset THEN args.retries
                                   ELSE manifest[e].retries
  <2>1. PICK i \in DOMAIN results : Reported[e] = results[i] /\ results[i].index = e
    BY <1>2, Zenon
  <2>2. OptionOf(e, "retries") = IF manifest[e].retries = Unset THEN args.retries
                                 ELSE manifest[e].retries
    BY DEF OptionOf
  <2>3. Attempts(e) = 1 + OptionOf(e, "retries")
    BY AttemptsDue DEF IInv
  <2> QED BY <1>4, <2>1, <2>2, <2>3, Zenon
<1>6. report.failed <=> \E e \in Entries : ~Succeeded(e)
  <2>1. ASSUME NEW i \in DOMAIN results, ~results[i].ok PROVE \E e \in Entries : ~Succeeded(e)
    BY <1>3, <1>4, <2>1, Zenon
  <2>2. ASSUME NEW e \in Entries, ~Succeeded(e) PROVE \E i \in DOMAIN results : ~results[i].ok
    BY <1>2, <1>4, <2>2
  <2> QED BY <1>1, <2>1, <2>2
<1> QED BY <1>1, <1>2, <1>5, <1>6, Zenon DEF ReportTells

(* The report has one line per entry in the order of the manifest; an entry is
   reported as failed only after every attempt it was due, and the exit status
   says whether one was (run_batch_sync, run_one). *)
THEOREM ReportsTell == Spec => []ReportTells
<1>1. Init => IInv /\ TellInv
  BY InitInv, InitTells
<1>2. IInv /\ TellInv /\ [Next]_vars => IInv' /\ TellInv'
  BY NextInv, NextTells
<1> QED BY <1>1, <1>2, TellsReport, PTL DEF Spec
=============================================================================
