------------------------------ MODULE PageSync ------------------------------
(***************************************************************************)
(* The page-level sync protocol of rsqlite-rsync: the origin handler       *)
(* (src/protocol/origin.rs), the replica handler (src/protocol/replica.rs),*)
(* the snapshot the origin works from (src/snapshot.rs), the direct page   *)
(* writes of the replica (src/db.rs) and the sessions that the entry       *)
(* points of src/lib.rs run, retried after a failure.                      *)
(*                                                                         *)
(* A database is a function from page numbers to page contents.  A page    *)
(* hash is the pair of the algorithm and the content, and a group hash the *)
(* function of its page hashes: hashes are free of collisions.  The group  *)
(* lists and page lists of the protocol are ascending, so they are sets    *)
(* worked through from their least element.                                *)
(***************************************************************************)
EXTENDS Integers, Sequences

CONSTANTS
  GROUP_SIZE,        \* pages per coarse hash group (64 in src/hash.rs)
  MaxPages,          \* bound: the largest database of the model
  Content,           \* contents a page can have
  Mode,              \* "local" (sync_local) or "remote" (push and pull, SSH and gRPC)
  OriginPageSize,    \* page size of the origin
  ReplicaPageSizes,  \* page sizes a non-empty replica may have
  DefaultPageSize,   \* what SQLite reports as page size of an empty file
  OfferedVersions,   \* protocol versions the replica's build may offer
  PROTOCOL_VERSION,  \* protocol version of the origin's build
  OriginMayShrink,   \* whether writers may drop pages of the origin (VACUUM)
  LeftoverWal,       \* whether the replica may start with WAL frames
  MaxSessions,       \* bound: sessions run one after the other
  MaxFaults          \* bound: crashes, I/O errors and broken links

ASSUME SizesAssumption ==
  /\ GROUP_SIZE \in Nat \ {0}
  /\ MaxPages \in Nat
  /\ MaxSessions \in Nat
  /\ MaxFaults \in Nat
ASSUME ModeAssumption == Mode \in {"local", "remote"}
ASSUME VersionAssumption ==
  /\ PROTOCOL_VERSION \in {1, 2}
  /\ OfferedVersions \subseteq Nat
ASSUME FlagsAssumption ==
  /\ OriginMayShrink \in BOOLEAN
  /\ LeftoverWal \in BOOLEAN

VARIABLES
  origin,     \* the live origin database, changed by its writers
  snap,       \* the bytes captured by Snapshot::begin
  file,       \* the replica's main database file
  wal,        \* the replica's write-ahead log (external: SQLite)
  rsize,      \* page size the replica's connection reports
  offered,    \* version the replica offers
  opc,        \* where the origin handler is
  oalg,       \* hash algorithm the origin derived from the negotiation
  oneed,      \* origin: groups of the fine pass still to do
  oack,       \* origin: pages whose acknowledgement it awaits
  rpc,        \* where the replica handler is
  rhash,      \* replica: all_page_hashes
  ralg,       \* replica: hash algorithm
  rneed,      \* replica: groups of the fine pass still to do
  rpend,      \* replica: received pages not yet written
  racked,     \* replica: pages written for the current SendPages
  toOrigin, toReplica,  \* the two directions of the transport
  link,       \* "up", or "down" once the connection broke
  sessions,   \* sessions started so far
  faults      \* faults that happened so far

dbs == <<origin, snap, file, wal>>
peers == <<rsize, offered>>
ovars == <<opc, oalg, oneed, oack>>
rvars == <<rpc, rhash, ralg, rneed, rpend, racked>>
net == <<toOrigin, toReplica, link>>
counts == <<sessions, faults>>
vars == <<dbs, peers, ovars, rvars, net, counts>>

-----------------------------------------------------------------------------
(* Data *)

DB == UNION {[1..n -> Content] : n \in 0..MaxPages}
NoPages == [p \in {} |-> p]
NoWal == [size |-> 0, pages |-> NoPages]

(* What a reader of the replica sees: WAL frames mask pages of the file. *)
View == IF wal = NoWal THEN file
        ELSE [p \in 1..wal.size |->
                IF p \in DOMAIN wal.pages THEN wal.pages[p] ELSE file[p]]

(* WALs a writer that did not close may have left: any frames over the file,
   and all frames of the pages it appended. *)
Wals(f) ==
  {NoWal} \cup
  IF ~LeftoverWal THEN {}
  ELSE UNION {{[size |-> n, pages |-> w] : w \in UNION {[S -> Content] :
                 S \in {T \in SUBSET (1..n) : T # {} /\ (1..n) \ T \subseteq DOMAIN f}}} :
              n \in 1..MaxPages}

GroupOf(p) == (p - 1) \div GROUP_SIZE
PagesIn(db, g) == {p \in DOMAIN db : GroupOf(p) = g}
GroupsOf(db) == {GroupOf(p) : p \in DOMAIN db}
Least(S) == CHOOSE x \in S : \A y \in S : x <= y

hash_page_for(alg, c) == <<alg, c>>
hash_group_for(alg, db, g) == [p \in PagesIn(db, g) |-> hash_page_for(alg, db[p])]

(* Mutant: no cap by the replica's version. *)
NegotiatedOwn(version) == PROTOCOL_VERSION
Negotiated(version) == IF version <= PROTOCOL_VERSION THEN version ELSE PROTOCOL_VERSION

(* Mutant: 1-indexed page numbers taken as 0-indexed. *)
write_page_shifted(f, p, c) == [q \in DOMAIN f \cup {p + 1} |-> IF q = p + 1 THEN c ELSE f[q]]
write_page(f, p, c) == [q \in DOMAIN f \cup {p} |-> IF q = p THEN c ELSE f[q]]

-----------------------------------------------------------------------------
(* Transport *)

OriginEnded == opc \in {"ok", "err", "panic"}
ReplicaEnded == rpc \in {"ok", "err"}
SessionOver == OriginEnded /\ ReplicaEnded

(* An ended handler closes its end of a remote transport; sync_local keeps
   both ends open until both handlers are done. *)
ClosedToOrigin == Mode # "local" /\ (ReplicaEnded \/ link = "down")
ClosedToReplica == Mode # "local" /\ (OriginEnded \/ link = "down")

OriginGets(type) == toOrigin # <<>> /\ Head(toOrigin).type = type
ReplicaGets(type) == toReplica # <<>> /\ Head(toReplica).type = type

(* The origin consumes a message and answers it; the replica sends. *)
OriginAnswers(msg) ==
  /\ toOrigin' = Tail(toOrigin)
  /\ toReplica' = Append(toReplica, msg)
  /\ link' = link
ReplicaSends(msg) ==
  /\ link = "up"
  /\ toOrigin' = Append(toOrigin, msg)
  /\ UNCHANGED <<toReplica, link>>

-----------------------------------------------------------------------------
(* Origin handler *)

OriginBegin ==
  /\ opc = "idle"
  /\ snap' = origin
  /\ opc' = "hello"
  /\ UNCHANGED <<origin, file, wal, peers, oalg, oneed, oack, rvars, net, counts>>

(* Mutant: the current version is taken as one too many. *)
RefusedCurrent(m) == m.version \notin 1..(PROTOCOL_VERSION - 1)
Refused(m) == m.version = 0 \/ (m.size # OriginPageSize /\ m.size # 0)

OriginHello ==
  /\ opc = "hello"
  /\ OriginGets("Hello")
  /\ LET m == Head(toOrigin) IN
       IF Refused(m)
       THEN /\ OriginAnswers([type |-> "Error"])
            /\ opc' = "err"
            /\ oalg' = oalg
       ELSE /\ OriginAnswers([type |-> "HelloAck", version |-> Negotiated(m.version)])
            /\ opc' = "groups"
            /\ oalg' = Negotiated(m.version)
  /\ UNCHANGED <<dbs, peers, oneed, oack, rvars, counts>>

(* Mutant: groups only the origin has are forgotten. *)
NeedFineKnown(hashes) ==
  {g \in DOMAIN hashes : PagesIn(snap, g) = {} \/ hash_group_for(oalg, snap, g) # hashes[g]}

(* Mutant: only groups the replica does not have yet. *)
NeedFineMissing(hashes) == GroupsOf(snap) \ DOMAIN hashes

(* Groups whose hash differs, groups past the end of the origin, and groups
   only the origin has. *)
NeedFine(hashes) ==
  {g \in DOMAIN hashes : PagesIn(snap, g) = {} \/ hash_group_for(oalg, snap, g) # hashes[g]}
    \cup (GroupsOf(snap) \ DOMAIN hashes)

OriginGroups ==
  /\ opc = "groups"
  /\ OriginGets("GroupHashes")
  /\ LET need == NeedFine(Head(toOrigin).hashes) IN
       /\ oneed' = need
       /\ toOrigin' = Tail(toOrigin)
       /\ link' = link
       /\ IF need = {}
          THEN /\ toReplica' = toReplica \o <<[type |-> "GroupsNeedFine", groups |-> need],
                                               [type |-> "Done"]>>
               /\ opc' = "ok"
          ELSE /\ toReplica' = Append(toReplica, [type |-> "GroupsNeedFine", groups |-> need])
               /\ opc' = "pages"
  /\ UNCHANGED <<dbs, peers, oalg, oack, rvars, counts>>

validate_page_hashes_for_group(hashes, g) ==
  /\ \A p \in DOMAIN hashes : p # 0 /\ GroupOf(p) = g
  /\ \A p \in DOMAIN hashes : \A q \in g * GROUP_SIZE + 1 .. p : q \in DOMAIN hashes

(* Mutant: pages only the origin has are forgotten. *)
ChangedPagesKnown(hashes, g) ==
  {p \in DOMAIN hashes : hash_page_for(oalg, snap[p]) # hashes[p]}
ChangedPages(hashes, g) ==
  {p \in DOMAIN hashes : hash_page_for(oalg, snap[p]) # hashes[p]}
    \cup (PagesIn(snap, g) \ DOMAIN hashes)

(* Mutant: the data is read again from the live database. *)
PagesToSendLive(hashes, g) ==
  [p \in ChangedPages(hashes, g) \cup DOMAIN hashes |-> origin[p]]
PagesToSend(hashes, g) == [p \in ChangedPages(hashes, g) |-> snap[p]]

(* changed_page_for slices the snapshot at each page the replica named: a
   page past its end is an out-of-range slice, a panic. *)
OriginPages ==
  /\ opc = "pages"
  /\ OriginGets("PageHashes")
  /\ LET hashes == Head(toOrigin).hashes
         g == Least(oneed) IN
       /\ validate_page_hashes_for_group(hashes, g)
       /\ DOMAIN hashes \subseteq DOMAIN snap
       /\ OriginAnswers([type |-> "SendPages", pages |-> PagesToSend(hashes, g)])
       /\ oack' = ChangedPages(hashes, g)
  /\ opc' = "ack"
  /\ UNCHANGED <<dbs, peers, oalg, oneed, rvars, counts>>

OriginPanic ==
  /\ opc = "pages"
  /\ OriginGets("PageHashes")
  /\ validate_page_hashes_for_group(Head(toOrigin).hashes, Least(oneed))
  /\ ~(DOMAIN Head(toOrigin).hashes \subseteq DOMAIN snap)
  /\ opc' = "panic"
  /\ toOrigin' = Tail(toOrigin)
  /\ rpc' = IF Mode = "local" THEN "err" ELSE rpc
  /\ UNCHANGED <<dbs, peers, oalg, oneed, oack, rhash, ralg, rneed, rpend, racked,
                 toReplica, link, counts>>

validate_pages_ack(pages) == pages = oack

OriginAck ==
  /\ opc = "ack"
  /\ OriginGets("PagesAck")
  /\ validate_pages_ack(Head(toOrigin).pages)
  /\ oneed' = oneed \ {Least(oneed)}
  /\ toOrigin' = Tail(toOrigin)
  /\ IF oneed' = {}
     THEN /\ toReplica' = Append(toReplica, [type |-> "Done"])
          /\ opc' = "ok"
     ELSE /\ toReplica' = toReplica
          /\ opc' = "pages"
  /\ UNCHANGED <<dbs, peers, oalg, oack, rvars, link, counts>>

(* recv or send fails: the peer or the connection is gone. *)
OriginEof ==
  /\ opc \in {"hello", "groups", "pages", "ack"}
  /\ toOrigin = <<>>
  /\ ClosedToOrigin
  /\ opc' = "err"
  /\ UNCHANGED <<dbs, peers, oalg, oneed, oack, rvars, net, counts>>

-----------------------------------------------------------------------------
(* Replica handler *)

ReplicaHello ==
  /\ rpc = "idle"
  /\ ReplicaSends([type |-> "Hello", version |-> offered, size |-> rsize])
  /\ rpc' = "hello"
  /\ UNCHANGED <<dbs, peers, ovars, rhash, ralg, rneed, rpend, racked, counts>>

AllPageHashes(alg) == [p \in DOMAIN View |-> hash_page_for(alg, View[p])]

ReplicaGroups ==
  /\ rpc = "hello"
  /\ ReplicaGets("HelloAck")
  /\ link = "up"
  /\ LET alg == Head(toReplica).version IN
       /\ ralg' = alg
       /\ rhash' = AllPageHashes(alg)
       /\ toOrigin' = Append(toOrigin,
            [type |-> "GroupHashes",
             hashes |-> [g \in GroupsOf(View) \cup {0} |-> hash_group_for(alg, View, g)]])
  /\ toReplica' = Tail(toReplica)
  /\ rpc' = "need"
  /\ UNCHANGED <<dbs, peers, ovars, rneed, rpend, racked, link, counts>>

ReplicaNeed ==
  /\ rpc = "need"
  /\ ReplicaGets("GroupsNeedFine")
  /\ rneed' = Head(toReplica).groups
  /\ toReplica' = Tail(toReplica)
  /\ rpc' = IF rneed' = {} THEN "done" ELSE "next"
  /\ UNCHANGED <<dbs, peers, ovars, rhash, ralg, rpend, racked, toOrigin, link, counts>>

(* An Error message from the origin ends the handler. *)
ReplicaError ==
  /\ ~ReplicaEnded
  /\ ReplicaGets("Error")
  /\ toReplica' = Tail(toReplica)
  /\ rpc' = "err"
  /\ UNCHANGED <<dbs, peers, ovars, rhash, ralg, rneed, rpend, racked, toOrigin, link, counts>>

ReplicaPageHashes ==
  /\ rpc = "next"
  /\ ReplicaSends([type |-> "PageHashes",
                   hashes |-> [p \in PagesIn(rhash, Least(rneed)) |-> rhash[p]]])
  /\ rpc' = "pages"
  /\ UNCHANGED <<dbs, peers, ovars, rhash, ralg, rneed, rpend, racked, counts>>

ReplicaPages ==
  /\ rpc = "pages"
  /\ ReplicaGets("SendPages")
  /\ rpend' = Head(toReplica).pages
  /\ racked' = {}
  /\ toReplica' = Tail(toReplica)
  /\ rpc' = "write"
  /\ UNCHANGED <<dbs, peers, ovars, rhash, ralg, rneed, toOrigin, link, counts>>


ReplicaWrite ==
  /\ rpc = "write"
  /\ DOMAIN rpend # {}
  /\ LET p == Least(DOMAIN rpend) IN
       /\ file' = write_page(file, p, rpend[p])
       /\ racked' = racked \cup {p}
       /\ rpend' = [q \in DOMAIN rpend \ {p} |-> rpend[q]]
  /\ UNCHANGED <<origin, snap, wal, peers, ovars, rpc, rhash, ralg, rneed, net, counts>>

ReplicaAck ==
  /\ rpc = "write"
  /\ DOMAIN rpend = {}
  /\ ReplicaSends([type |-> "PagesAck", pages |-> racked])
  /\ rneed' = rneed \ {Least(rneed)}
  /\ rpc' = IF rneed' = {} THEN "done" ELSE "next"
  /\ UNCHANGED <<dbs, peers, ovars, rhash, ralg, rpend, racked, counts>>

ReplicaDone ==
  /\ rpc = "done"
  /\ ReplicaGets("Done")
  /\ toReplica' = Tail(toReplica)
  /\ rpc' = "ok"
  /\ UNCHANGED <<dbs, peers, ovars, rhash, ralg, rneed, rpend, racked, toOrigin, link, counts>>

(* recv or send fails; a page list already received is written out first. *)
ReplicaEof ==
  /\ rpc \in {"idle", "hello", "need", "next", "pages", "write", "done"}
  /\ rpc = "write" => DOMAIN rpend = {}
  /\ \/ link = "down"
     \/ rpc \in {"hello", "need", "pages", "done"} /\ toReplica = <<>> /\ ClosedToReplica
  /\ rpc' = "err"
  /\ UNCHANGED <<dbs, peers, ovars, rhash, ralg, rneed, rpend, racked, net, counts>>

-----------------------------------------------------------------------------
(* Faults, the environment and the sessions *)

Fault == faults < MaxFaults /\ faults' = faults + 1

(* A crash of the replica, or write_page, serialize or page_count returning
   an error with `?`: the handler ends and no Error message is sent. *)
ReplicaFails ==
  /\ ~ReplicaEnded
  /\ Fault
  /\ rpc' = "err"
  /\ UNCHANGED <<dbs, peers, ovars, rhash, ralg, rneed, rpend, racked, net, sessions>>

(* A crash of a remote origin. *)
OriginFails ==
  /\ Mode # "local"
  /\ opc \in {"hello", "groups", "pages", "ack"}
  /\ Fault
  /\ opc' = "err"
  /\ UNCHANGED <<dbs, peers, oalg, oneed, oack, rvars, net, sessions>>

LinkDown ==
  /\ Mode # "local"
  /\ link = "up"
  /\ ~SessionOver
  /\ Fault
  /\ link' = "down"
  /\ toOrigin' = <<>>
  /\ toReplica' = <<>>
  /\ UNCHANGED <<dbs, peers, ovars, rvars, sessions>>

(* sync_local awaits both handlers: one that ended without a message leaves
   the other in recv until LOCAL_SYNC_TIMEOUT. *)
(* Mutant: no timeout for an origin that waits for an ended replica. *)
StalledReplica ==
  Mode = "local" /\ OriginEnded /\ toReplica = <<>> /\ rpc \in {"hello", "need", "pages", "done"}
Stalled ==
  /\ Mode = "local"
  /\ \/ ReplicaEnded /\ toOrigin = <<>> /\ opc \in {"hello", "groups", "pages", "ack"}
     \/ OriginEnded /\ toReplica = <<>> /\ rpc \in {"hello", "need", "pages", "done"}

LocalEnds ==
  /\ opc' = IF OriginEnded THEN opc ELSE "err"
  /\ rpc' = IF ReplicaEnded THEN rpc ELSE "err"
  /\ UNCHANGED <<dbs, peers, oalg, oneed, oack, rhash, ralg, rneed, rpend, racked, net, sessions>>

StallTimeout == Stalled /\ LocalEnds /\ faults' = faults

(* A crash of the one process of a local sync, or a timeout of a slow one. *)
LocalFails == Mode = "local" /\ ~SessionOver /\ Fault /\ LocalEnds

OriginWrite ==
  /\ origin' \in DB
  /\ ~OriginMayShrink => DOMAIN origin \subseteq DOMAIN origin'
  /\ UNCHANGED <<snap, file, wal, peers, ovars, rvars, net, counts>>

(* The last connection to a WAL database checkpoints it when it closes. *)
ReplicaClose ==
  /\ ReplicaEnded
  /\ wal # NoWal
  /\ file' = View
  /\ wal' = NoWal
  /\ UNCHANGED <<origin, snap, peers, ovars, rvars, net, counts>>

(* sync_local and a pull return Ok; a push does as soon as opc = "ok". *)
Reported == opc = "ok" /\ rpc = "ok"

(* The next run of the command against the replica as it was left. *)
NextSession ==
  /\ SessionOver
  /\ sessions < MaxSessions
  /\ sessions' = sessions + 1
  /\ opc' = "idle" /\ oalg' = 0 /\ oneed' = {} /\ oack' = {}
  /\ rpc' = "idle" /\ rhash' = NoPages /\ ralg' = 0 /\ rneed' = {}
  /\ rpend' = NoPages /\ racked' = {}
  /\ toOrigin' = <<>> /\ toReplica' = <<>> /\ link' = "up"
  /\ UNCHANGED <<dbs, peers, faults>>

-----------------------------------------------------------------------------
Init ==
  /\ origin \in DB
  /\ snap = NoPages
  /\ file \in DB
  /\ ~OriginMayShrink => DOMAIN file \subseteq DOMAIN origin
  /\ wal \in Wals(file)
  /\ rsize \in IF DOMAIN View = {} THEN {DefaultPageSize} ELSE ReplicaPageSizes
  /\ offered \in OfferedVersions
  /\ opc = "idle" /\ oalg = 0 /\ oneed = {} /\ oack = {}
  /\ rpc = "idle" /\ rhash = NoPages /\ ralg = 0 /\ rneed = {}
  /\ rpend = NoPages /\ racked = {}
  /\ toOrigin = <<>> /\ toReplica = <<>> /\ link = "up"
  /\ sessions = 1 /\ faults = 0

OriginStep == OriginBegin \/ OriginHello \/ OriginGroups \/ OriginPages
                \/ OriginPanic \/ OriginAck \/ OriginEof
ReplicaStep == ReplicaHello \/ ReplicaGroups \/ ReplicaNeed \/ ReplicaError
                \/ ReplicaPageHashes \/ ReplicaPages \/ ReplicaWrite
                \/ ReplicaAck \/ ReplicaDone \/ ReplicaEof
Environment == ReplicaFails \/ OriginFails \/ LinkDown \/ LocalFails
                \/ OriginWrite \/ ReplicaClose

Next == OriginStep \/ ReplicaStep \/ Environment \/ StallTimeout \/ NextSession

Spec == Init /\ [][Next]_vars

(* The runtime keeps polling both handlers, the timeout fires, and the
   operator retries a session that did not succeed. *)
Fairness ==
  /\ WF_vars(OriginStep)
  /\ WF_vars(ReplicaStep)
  /\ WF_vars(StallTimeout)
  /\ WF_vars(~Reported /\ NextSession)

FairSpec == Spec /\ Fairness

-----------------------------------------------------------------------------
(* Properties *)

Groups == {GroupOf(p) : p \in 1..MaxPages} \cup {0}
Hashes == {hash_page_for(a, c) : a \in {1, 2}, c \in Content}
PageMap(S) == UNION {[P -> S] : P \in SUBSET (1..MaxPages)}
FromOrigin == [type : {"Error", "Done"}]
                \cup [type : {"HelloAck"}, version : 1..2]
                \cup [type : {"GroupsNeedFine"}, groups : SUBSET Groups]
                \cup [type : {"SendPages"}, pages : PageMap(Content)]

(* Type invariant: the variables hold what the handlers' locals, the files
   and the channels can hold. *)
TypeOK ==
  /\ origin \in DB /\ snap \in DB
  /\ file \in PageMap(Content)
  /\ wal.size \in 0..MaxPages /\ wal.pages \in PageMap(Content)
  /\ rsize \in ReplicaPageSizes \cup {DefaultPageSize}
  /\ offered \in OfferedVersions
  /\ opc \in {"idle", "hello", "groups", "pages", "ack", "ok", "err", "panic"}
  /\ rpc \in {"idle", "hello", "need", "next", "pages", "write", "done", "ok", "err"}
  /\ oalg \in 0..2 /\ ralg \in 0..2
  /\ oneed \subseteq Groups /\ rneed \subseteq Groups
  /\ oack \subseteq 1..MaxPages /\ racked \subseteq 1..MaxPages
  /\ rhash \in PageMap(Hashes) /\ rpend \in PageMap(Content)
  /\ toReplica \in Seq(FromOrigin)
  /\ link \in {"up", "down"}
  /\ sessions \in 1..(MaxSessions + 1) /\ faults \in 0..MaxFaults

(* A side that returns Ok leaves a replica that reads, page for page, as the
   origin did when the origin handler took its snapshot, whatever the
   origin's writers, earlier failed sessions and the schedule did
   (replica.rs, doc of run; README, Overview).  A push reports the origin's
   result and a pull the replica's, so both are covered. *)
SyncedIsSnapshot == opc = "ok" \/ rpc = "ok" => View = snap

(* A session that starts on a replica without WAL frames keeps that promise,
   and so do all later ones: a rerun after the closing checkpoint repairs what
   leftover frames undid, and a replica larger than the origin never passes
   for a copy of it. *)
CleanStartIsSynced ==
  [](wal = NoWal /\ opc = "idle" /\ rpc = "idle" => []SyncedIsSnapshot)

(* At every moment of a session, and so also after an abort, the replica file
   has no hole (pages are appended in ascending order across groups) and each of
   its pages is either as it was hashed at the start of the session or already
   the snapshot's: the fine pass never writes anything else. *)
OldOrNew ==
  /\ \E n \in 0..MaxPages : DOMAIN file = 1..n
  /\ rpc \in {"need", "next", "pages", "write", "done"} =>
       \A p \in DOMAIN file :
         \/ p \in DOMAIN rhash /\ hash_page_for(ralg, file[p]) = rhash[p]
         \/ p \in DOMAIN snap /\ file[p] = snap[p]

(* Two handlers of this code never meet a protocol violation: a handler that
   reads a message finds one of the kind it expects (or an Error), and it
   passes validate_page_hashes_for_group and validate_pages_ack. *)
NoViolation ==
  /\ toOrigin # <<>> =>
       \/ OriginEnded \/ opc = "idle"
       \/ opc = "hello" /\ OriginGets("Hello")
       \/ opc = "groups" /\ OriginGets("GroupHashes")
       \/ /\ opc = "pages" /\ OriginGets("PageHashes")
          /\ validate_page_hashes_for_group(Head(toOrigin).hashes, Least(oneed))
       \/ /\ opc = "ack" /\ OriginGets("PagesAck")
          /\ validate_pages_ack(Head(toOrigin).pages)
  /\ toReplica # <<>> =>
       \/ ReplicaEnded \/ ReplicaGets("Error")
       \/ rpc = "hello" /\ ReplicaGets("HelloAck") /\ Head(toReplica).version \in 1..offered
       \/ rpc = "need" /\ ReplicaGets("GroupsNeedFine")
       \/ rpc = "pages" /\ ReplicaGets("SendPages")
       \/ rpc \in {"next", "write"}
       \/ rpc = "done" /\ ReplicaGets("Done")

(* A session without faults between databases of one page size succeeds. *)
FaultFreeSucceeds ==
  SessionOver /\ faults = 0 /\ rsize = OriginPageSize => Reported

(* While a session runs, a page that holds the snapshot's content keeps it:
   nothing is transferred twice and no stale page overwrites a new one. *)
SyncedPagesStay ==
  [][~ReplicaEnded /\ opc # "idle" /\ opc' # "idle" =>
       \A p \in DOMAIN file \cap DOMAIN snap :
         file[p] = snap[p] => file'[p] = snap[p]]_vars

(* Retrying after a failed run gets there: with fewer faults than sessions
   some session reports success (README, "can be retried after a failed
   run"), because every handler that loses its peer ends.  The premises leave
   out the two replicas every session refuses or fails on: another page size,
   and more pages than the origin has. *)
RetriesConverge ==
  rsize = OriginPageSize /\ [](DOMAIN View \subseteq DOMAIN origin) => <>Reported

(* The protocol implements an atomic-looking copy: the replica moves from its
   old pages to the snapshot's and a session is done only on the snapshot. *)
CopyStatus == IF Reported THEN "done" ELSE IF SessionOver THEN "failed"
              ELSE IF opc = "idle" THEN "idle" ELSE "copying"

Copy == INSTANCE SnapshotCopy
          WITH source <- origin, image <- snap, target <- View, status <- CopyStatus
ImplementsCopy == Copy!Spec

-----------------------------------------------------------------------------
(* The inductive invariant behind these properties (PageSyncProofs).  Its
   parameter says whether the session is clean, that is, whether it started on a
   replica without WAL frames: the control flow is the same in both cases, and
   what the file holds is known in a clean one only. *)

PageSynced(p) == p \in DOMAIN file /\ p \in DOMAIN snap /\ file[p] = snap[p]

(* Group g of the replica file is group g of the snapshot. *)
GroupSynced(g) == \A p \in DOMAIN file \cup DOMAIN snap : GroupOf(p) = g => PageSynced(p)

OthersSynced == \A g \in Groups : g \notin oneed => GroupSynced(g)

(* The pages in P are pages of the snapshot; of its group g. *)
OfSnapshot(P) == \A p \in DOMAIN P : p \in DOMAIN snap /\ P[p] = snap[p]
OfGroup(P, g) == OfSnapshot(P) /\ \A p \in DOMAIN P : GroupOf(p) = g

(* Writing the pages in P makes group g of the replica that of the snapshot. *)
Completes(P, g) ==
  \A p \in DOMAIN file \cup DOMAIN snap : GroupOf(p) = g => p \in DOMAIN P \/ PageSynced(p)

(* Written in ascending order, the pages in P make no hole in the file. *)
Fills(P) == \A p \in DOMAIN P : \A q \in 1..p : q \in DOMAIN file \cup DOMAIN P

(* The replica's hashes still describe what it reads, in the groups G. *)
HashesCurrent(G) ==
  \A g \in G : [p \in PagesIn(rhash, g) |-> rhash[p]] = hash_group_for(oalg, View, g)

GroupHashesMsg == [type |-> "GroupHashes",
                   hashes |-> [g \in GroupsOf(View) \cup {0} |-> hash_group_for(oalg, View, g)]]
PageHashesMsg(g) == [type |-> "PageHashes", hashes |-> hash_group_for(oalg, View, g)]
PagesMsg(P) == [type |-> "SendPages", pages |-> P]
AckMsg == [type |-> "PagesAck", pages |-> oack]
NeedMsg(G) == [type |-> "GroupsNeedFine", groups |-> G]
DoneMsg == [type |-> "Done"]

HelloPhase ==
  /\ rpc \in {"idle", "hello", "err"}
  /\ toReplica = <<>>
  /\ rpc = "idle" => toOrigin = <<>>
  /\ toOrigin \in {<<>>, <<[type |-> "Hello", version |-> offered, size |-> rsize]>>}

GroupsPhase ==
  /\ oalg \in 1..offered
  /\ rpc \in {"hello", "need", "err"}
  /\ toReplica \in {<<>>, <<[type |-> "HelloAck", version |-> oalg]>>}
  /\ toOrigin # <<>> => toReplica = <<>>
  /\ rpc = "hello" => toOrigin = <<>>
  /\ rpc = "need" => toReplica = <<>> /\ HashesCurrent(Groups)
  /\ toOrigin \in {<<>>, <<GroupHashesMsg>>}

PagesPhase(clean) ==
  /\ rpc \in {"need", "next", "pages", "err"}
  /\ oneed # {}
  /\ clean => OthersSynced
  /\ toReplica \in {<<>>, <<NeedMsg(oneed)>>}
  /\ toOrigin \in {<<>>, <<PageHashesMsg(Least(oneed))>>}
  /\ toOrigin # <<>> => toReplica = <<>>
  /\ rpc = "need" => toOrigin = <<>> /\ HashesCurrent(Groups)
  /\ rpc \in {"next", "pages"} => /\ rneed = oneed
                                 /\ HashesCurrent(oneed)
                                 /\ toReplica = <<>>
  /\ rpc = "next" => toOrigin = <<>>

(* The pages of group g are on their way to the replica. *)
PagesSent(clean, g) ==
  /\ rpc \in {"pages", "err"}
  /\ toOrigin = <<>>
  /\ toReplica # <<>>
  /\ toReplica = <<PagesMsg(Head(toReplica).pages)>>
  /\ OfGroup(Head(toReplica).pages, g)
  /\ clean => Completes(Head(toReplica).pages, g)
  /\ DOMAIN Head(toReplica).pages = oack
  /\ rpc = "pages" => rneed = oneed /\ HashesCurrent(oneed \ {g})

(* The replica is writing them. *)
PagesWriting(clean, g) ==
  /\ rpc = "write"
  /\ toOrigin = <<>> /\ toReplica = <<>>
  /\ OfGroup(rpend, g)
  /\ clean => Completes(rpend, g)
  /\ racked \cup DOMAIN rpend = oack
  /\ rneed = oneed /\ HashesCurrent(oneed \ {g})

(* They are written and acknowledged, and the replica may be one group on. *)
PagesAcked(clean, g, rest) ==
  /\ toReplica = <<>>
  /\ clean => GroupSynced(g)
  /\ \/ toOrigin = <<AckMsg>> /\ rpc \in {"next", "done", "err"}
     \/ /\ rest # {} /\ rpc \in {"pages", "err"}
        /\ toOrigin = <<AckMsg, PageHashesMsg(Least(rest))>>
  /\ rpc = "done" => rest = {}
  /\ rpc \in {"next", "pages"} => rest # {} /\ rneed = rest /\ HashesCurrent(rest)

(* The replica or the connection is gone. *)
ReplicaGone ==
  /\ toOrigin = <<>> /\ toReplica = <<>>
  /\ rpc = "err" \/ (link = "down" /\ rpc \in {"pages", "next", "done"})

AckPhase(clean) ==
  /\ oneed # {}
  /\ clean => OthersSynced
  /\ \/ PagesSent(clean, Least(oneed))
     \/ PagesWriting(clean, Least(oneed))
     \/ PagesAcked(clean, Least(oneed), oneed \ {Least(oneed)})
     \/ ReplicaGone

OkPhase(clean) ==
  /\ rpc \in {"need", "done", "ok", "err"}
  /\ clean => file = snap
  /\ toOrigin = <<>>
  /\ toReplica \in {<<>>, <<DoneMsg>>, <<NeedMsg({}), DoneMsg>>}
  /\ rpc = "need" => toReplica # <<DoneMsg>>
  /\ rpc = "done" => toReplica # <<NeedMsg({}), DoneMsg>>

(* What a failed origin may have left in the channel: the message the replica
   waits for, or an Error. *)
Sound(clean, P) == OfSnapshot(P) /\ (clean => Fills(P))
InTurn(clean, m) ==
  \/ ReplicaEnded
  \/ m.type = "Error"
  \/ rpc = "hello" /\ m.type = "HelloAck" /\ m.version \in 1..offered
  \/ rpc = "need" /\ m.type = "GroupsNeedFine"
  \/ rpc = "pages" /\ m.type = "SendPages" /\ Sound(clean, m.pages)

FailedPhase(clean) ==
  /\ rpc # "ok"
  /\ rpc = "write" => Sound(clean, rpend)
  /\ toReplica # <<>> => toReplica = <<Head(toReplica)>> /\ InTurn(clean, Head(toReplica))

(* The state of the replica file relative to the snapshot, of the replica's
   hashes relative to its file, and of what is in flight, at each point of
   the origin handler: from the answer to the coarse pass on, only the groups
   of oneed may differ. *)
Phases(clean) ==
  /\ opc \in {"idle", "hello"} => HelloPhase
  /\ opc = "groups" => GroupsPhase
  /\ opc = "pages" => PagesPhase(clean)
  /\ opc = "ack" => AckPhase(clean)
  /\ opc = "ok" => OkPhase(clean)
  /\ opc \in {"err", "panic"} => FailedPhase(clean)
  /\ link = "down" => toOrigin = <<>> /\ toReplica = <<>>

SyncInv == Phases(TRUE)
=============================================================================
