--------------------------- MODULE PageSyncProofs ---------------------------
(***************************************************************************)
(* Theorems about PageSync, for every group size, database size, content,  *)
(* number of sessions and number of faults, and for both kinds of          *)
(* transport.                                                              *)
(*                                                                         *)
(* Facts about the operators come first: channels, page maps, hashes, the  *)
(* two passes and the page writes.  Then the inductive invariant: the      *)
(* first state satisfies it, and every step of the origin handler, of its  *)
(* surroundings and of the replica handler keeps it.  Last what it leads   *)
(* to: the refinement of SnapshotCopy, the state of the replica file at    *)
(* every moment, and the control flow of the two handlers from any start,  *)
(* WAL frames included.                                                    *)
(***************************************************************************)
EXTENDS PageSync, TLAPS, FunctionTheorems

(* Pages that WAL frames do not mask are in the file; a clean session has no
   frames, and its file no hole. *)
WalOK == wal # NoWal => \A p \in 1..wal.size : p \in DOMAIN wal.pages \/ p \in DOMAIN file
NoHole == \A p \in DOMAIN file : \A q \in 1..p : q \in DOMAIN file
FileOK(clean) == WalOK /\ (clean => wal = NoWal /\ NoHole)

(* The inductive invariant, of a clean session or of any. *)
IInv(clean) == TypeOK /\ FileOK(clean) /\ Phases(clean)

(* TypeOK, by the part of the state it speaks of. *)
DbsTyped ==
  /\ origin \in DB /\ snap \in DB
  /\ file \in PageMap(Content)
  /\ wal.size \in 0..MaxPages /\ wal.pages \in PageMap(Content)
  /\ rsize \in ReplicaPageSizes \cup {DefaultPageSize}
  /\ offered \in OfferedVersions
OriginTyped ==
  /\ opc \in {"idle", "hello", "groups", "pages", "ack", "ok", "err", "panic"}
  /\ oalg \in 0..2 /\ oneed \subseteq Groups /\ oack \subseteq 1..MaxPages
ReplicaTyped ==
  /\ rpc \in {"idle", "hello", "need", "next", "pages", "write", "done", "ok", "err"}
  /\ ralg \in 0..2 /\ rneed \subseteq Groups /\ racked \subseteq 1..MaxPages
  /\ rhash \in PageMap(Hashes) /\ rpend \in PageMap(Content)
NetTyped == toReplica \in Seq(FromOrigin) /\ link \in {"up", "down"}
CountsTyped == sessions \in 1..(MaxSessions + 1) /\ faults \in 0..MaxFaults

(* The type invariant, taken apart. *)
LEMMA TypedParts ==
  ASSUME TypeOK
  PROVE  DbsTyped /\ OriginTyped /\ ReplicaTyped /\ NetTyped /\ CountsTyped
BY Zenon DEF TypeOK, DbsTyped, OriginTyped, ReplicaTyped, NetTyped, CountsTyped

(* The type invariant, put together. *)
LEMMA TypedWhole ==
  ASSUME DbsTyped', OriginTyped', ReplicaTyped', NetTyped', CountsTyped'
  PROVE  TypeOK'
BY Zenon DEF TypeOK, DbsTyped, OriginTyped, ReplicaTyped, NetTyped, CountsTyped

(* What a step leaves alone keeps its type. *)
LEMMA TypedStays ==
  ASSUME TypeOK
  PROVE  /\ UNCHANGED <<dbs, peers>> => DbsTyped'
         /\ UNCHANGED ovars => OriginTyped'
         /\ UNCHANGED rvars => ReplicaTyped'
         /\ UNCHANGED net => NetTyped'
         /\ UNCHANGED counts => CountsTyped'
<1>1. UNCHANGED <<dbs, peers>> => DbsTyped'
  BY TypedParts, Zenon DEF DbsTyped, dbs, peers
<1>2. UNCHANGED ovars => OriginTyped'
  BY TypedParts, Zenon DEF OriginTyped, ovars
<1>3. UNCHANGED rvars => ReplicaTyped'
  BY TypedParts, Zenon DEF ReplicaTyped, rvars
<1>4. UNCHANGED net => NetTyped'
  BY TypedParts, Zenon DEF NetTyped, net
<1>5. UNCHANGED counts => CountsTyped'
  BY TypedParts, Zenon DEF CountsTyped, counts
<1> QED BY <1>1, <1>2, <1>3, <1>4, <1>5, Zenon

(* A fault is counted up to MaxFaults. *)
LEMMA FaultTyped == ASSUME TypeOK, Fault, sessions' = sessions PROVE CountsTyped'
BY TypedParts, SizesAssumption DEF CountsTyped, Fault

-----------------------------------------------------------------------------
(* Lists, numbers and page maps *)

(* Least of a set of naturals is its smallest member: with no smallest, what
   lies above some member could be moved down by one, and 1..n + 1 would fit
   into 1..n. *)
LEMMA LeastIn ==
  ASSUME NEW S, S \subseteq Nat, S # {}
  PROVE  Least(S) \in S /\ \A y \in S : Least(S) <= y
<1>1. ASSUME \A x \in S : \E y \in S : y < x
      PROVE  FALSE
  <2>1. PICK n \in S : n \in Nat
    BY Zenon
  <2> DEFINE U == {x \in 1..(n + 1) : \E s \in S : s < x}
             down == [x \in 1..(n + 1) |-> IF x \in U THEN x - 1 ELSE x]
  <2>2. n + 1 \in U
    BY <2>1
  <2>3. ASSUME NEW x \in U PROVE x - 1 \in U /\ x - 1 \in 1..n
    <3>1. PICK s \in S : s < x
      BY Zenon
    <3>2. PICK r \in S : r < s
      BY <1>1, Zenon
    <3>3. r \in Nat /\ s \in Nat /\ x \in 1..(n + 1)
      BY Zenon
    <3>4. x - 1 \in 1..n /\ r < x - 1
      BY <2>1, <3>1, <3>2, <3>3
    <3> QED BY <2>1, <3>4
  <2> HIDE DEF U
  <2>4. \A x \in U : x \in 1..(n + 1)
    BY Zenon DEF U
  <2>5. down \in [1..(n + 1) -> 1..n]
    BY <2>1, <2>2, <2>3, <2>4
  <2>6. \A x, y \in 1..(n + 1) : down[x] = down[y] => x = y
    BY <2>1, <2>3, <2>4
  <2> HIDE DEF down
  <2>7. ExistsInjection(1..(n + 1), 1..n)
    BY <2>5, <2>6, Zenon DEF ExistsInjection, Injection, IsInjective
  <2>8. n + 1 <= n
    BY <2>1, <2>7, Fun_NatInjLeq
  <2> QED BY <2>1, <2>8
<1>2. PICK x \in S : \A y \in S : ~(y < x)
  BY <1>1, Zenon
<1>3. \A y \in S : x <= y
  BY <1>2
<1> QED BY <1>3, Zenon DEF Least

(* A channel with one message, or two. *)
LEMMA OneMessage ==
  ASSUME NEW a
  PROVE  /\ Head(<<a>>) = a
         /\ Tail(<<a>>) = <<>>
         /\ <<a>> # <<>>
         /\ Append(<<>>, a) = <<a>>
  OBVIOUS

(* A channel with two messages. *)
LEMMA TwoMessages ==
  ASSUME NEW a, NEW b
  PROVE  /\ Append(<<a>>, b) = <<a, b>>
         /\ <<>> \o <<a, b>> = <<a, b>>
         /\ Head(<<a, b>>) = a
         /\ Tail(<<a, b>>) = <<b>>
         /\ <<a, b>> # <<>>
         /\ \A c : <<a, b>> # <<c>>
(* A message appended to a channel that holds one. *)
<1>AppendSecond.
    ASSUME NEW S
    PROVE  \A s \in Seq(S), e \in S : Len(s) = 1 =>
             /\ Append(s, e) \in Seq(S)
             /\ Len(Append(s, e)) = 2
             /\ Append(s, e)[1] = s[1]
             /\ Append(s, e)[2] = e
  <2>1. \A s \in Seq(S), e \in S :
            /\ Append(s, e) \in Seq(S)
            /\ Len(Append(s, e)) = Len(s) + 1
            /\ \A i \in 1..Len(s) : Append(s, e)[i] = s[i]
            /\ Append(s, e)[Len(s) + 1] = e
    OBVIOUS
  <2> SUFFICES ASSUME NEW s \in Seq(S), NEW e \in S, Len(s) = 1
               PROVE  /\ Append(s, e) \in Seq(S)
                      /\ Len(Append(s, e)) = 2
                      /\ Append(s, e)[1] = s[1]
                      /\ Append(s, e)[2] = e
    BY Zenon
  <2>2. Len(s) + 1 = 2 /\ 1 \in 1..Len(s)
    OBVIOUS
  <2>3. Append(s, e) \in Seq(S) /\ Len(Append(s, e)) = Len(s) + 1
    BY <2>1, Zenon
  <2>4. Append(s, e)[Len(s) + 1] = e
    BY <2>1, Zenon
  <2>5. Append(s, e)[1] = s[1]
    BY <2>1, <2>2, Zenon
  <2>6. Len(Append(s, e)) = 2
    BY <2>2, <2>3, Zenon
  <2>7. Append(s, e)[2] = e
    BY <2>2, <2>4, Zenon
  <2> QED BY <2>3, <2>5, <2>6, <2>7, Zenon

(* Sequences with the same elements are the same. *)
<1>SeqEqual.
    ASSUME NEW S, NEW s \in Seq(S), NEW t \in Seq(S), Len(s) = Len(t), \A i \in 1..Len(s) : s[i] = t[i]
    PROVE  s = t
  BY <1>SeqEqual

<1>1. Append(<<a>>, b) = <<a, b>>
  <2>1. <<a>> \in Seq({a, b}) /\ <<a, b>> \in Seq({a, b}) /\ b \in {a, b}
    OBVIOUS
  <2>2. /\ Append(<<a>>, b) \in Seq({a, b})
        /\ Len(Append(<<a>>, b)) = 2
        /\ Append(<<a>>, b)[1] = a
        /\ Append(<<a>>, b)[2] = b
    BY <2>1, <1>AppendSecond
  <2>3. \A i \in 1..2 : Append(<<a>>, b)[i] = <<a, b>>[i]
    BY <2>2
  <2>4. Len(<<a, b>>) = 2
    BY Zenon
  <2> QED BY <2>1, <2>2, <2>3, <2>4, <1>SeqEqual, Zenon
<1>2. <<>> \o <<a, b>> = <<a, b>>
  OBVIOUS
<1>3. Head(<<a, b>>) = a /\ <<a, b>> # <<>>
  OBVIOUS
<1>4. Tail(<<a, b>>) = <<b>>
  OBVIOUS
<1>5. \A c : <<a, b>> # <<c>>
  BY Zenon
<1> QED BY <1>1, <1>2, <1>3, <1>4, <1>5, Zenon

(* Group numbers are naturals, and every page of the model has one. *)
LEMMA GroupsNat ==
  /\ Groups \subseteq Nat
  /\ \A p \in 1..MaxPages : GroupOf(p) \in Groups
<1>1. \A p \in 1..MaxPages : GroupOf(p) \in Nat
  BY SizesAssumption DEF GroupOf
<1> QED BY <1>1 DEF Groups

(* A page map is a function on page numbers of the model. *)
LEMMA PageMapIs ==
  ASSUME NEW S, NEW f
  PROVE  f \in PageMap(S) <=> DOMAIN f \subseteq 1..MaxPages /\ f \in [DOMAIN f -> S]
  BY Zenon DEF PageMap

(* A database is a page map without gaps. *)
LEMMA DBIsPageMap ==
  ASSUME NEW db \in DB
  PROVE  db \in PageMap(Content)
<1>1. PICK n \in 0..MaxPages : db \in [1..n -> Content]
  BY Zenon DEF DB
<1>2. 1..n \subseteq 1..MaxPages
  BY SizesAssumption
<1> QED BY <1>1, <1>2, PageMapIs, Zenon

(* The empty database. *)
LEMMA NoPagesTyped == NoPages \in DB /\ \A S : NoPages \in PageMap(S)
<1>1. \A S : NoPages \in [1..0 -> S] /\ NoPages \in [{} -> S]
  BY DEF NoPages
<1>2. 0 \in 0..MaxPages
  BY SizesAssumption
<1> QED BY <1>1, <1>2 DEF DB, PageMap

(* A reader of the replica sees a page map, and it sees the file when there
   are no WAL frames. *)
LEMMA ViewIs ==
  /\ wal = NoWal => View = file
  /\ wal # NoWal => DOMAIN View = 1..wal.size
  /\ TypeOK /\ WalOK => View \in PageMap(Content)
<1>1. wal = NoWal => View = file
  BY Zenon DEF View
<1>2. wal # NoWal => DOMAIN View = 1..wal.size
  BY Zenon DEF View
<1>3. ASSUME TypeOK, WalOK, wal # NoWal PROVE View \in PageMap(Content)
  <2>1. wal.size \in 0..MaxPages
    BY <1>3, Zenon DEF TypeOK
  <2>2. /\ wal.pages \in [DOMAIN wal.pages -> Content]
        /\ file \in [DOMAIN file -> Content]
    BY <1>3, PageMapIs, Zenon DEF TypeOK
  <2>3. \A p \in 1..wal.size : View[p] \in Content
    BY <1>3, <2>2, Zenon DEF View, WalOK
  <2>4. View \in [1..wal.size -> Content]
    BY <1>3, <2>3, Zenon DEF View
  <2>5. DOMAIN View = 1..wal.size /\ 1..wal.size \subseteq 1..MaxPages
    BY <1>2, <1>3, <2>1, SizesAssumption
  <2> QED BY <2>4, <2>5, PageMapIs, Zenon
<1> QED BY <1>1, <1>2, <1>3, Zenon DEF TypeOK

(* It sees the same while the file and the frames are the same. *)
LEMMA SameView == ASSUME file' = file, wal' = wal PROVE View' = View
  BY Zenon DEF View

(* Division by the group size is monotonic, and group g holds the pages from
   g * GROUP_SIZE + 1 on. *)
LEMMA GroupBounds ==
  ASSUME NEW p \in Nat \ {0}
  PROVE  /\ GroupOf(p) \in Nat
         /\ GROUP_SIZE * GroupOf(p) + 1 <= p
         /\ p <= GROUP_SIZE * GroupOf(p) + GROUP_SIZE
  BY SizesAssumption DEF GroupOf

(* Groups are numbered in the order of their pages. *)
LEMMA SmallerGroup ==
  ASSUME NEW p \in Nat \ {0}, NEW q \in 1..p
  PROVE  GroupOf(q) <= GroupOf(p)
<1>1. PICK d : d = GROUP_SIZE
  BY Zenon
<1>2. PICK a \in Nat : a = GroupOf(p)
  BY GroupBounds, Zenon
<1>3. PICK b \in Nat : b = GroupOf(q)
  BY GroupBounds
<1>4. d \in Nat \ {0} /\ d * b + 1 <= q /\ p <= d * a + d
  BY <1>1, <1>2, <1>3, GroupBounds, SizesAssumption
<1>5. d * b < d * (a + 1)
  BY <1>4
<1> QED BY <1>2, <1>3, <1>4, <1>5

-----------------------------------------------------------------------------
(* The two passes and the page writes *)

-----------------------------------------------------------------------------
(* What depends on the databases and hashes alone *)

(* Whether a group is synced depends on the two databases. *)
LEMMA SameSynced ==
  ASSUME file' = file, snap' = snap, NEW g
  PROVE  GroupSynced(g)' <=> GroupSynced(g)
  BY Zenon DEF GroupSynced, PageSynced

(* Whether the replica's stored hashes are current depends on what it reads. *)
LEMMA SameCurrent ==
  ASSUME View' = View, oalg' = oalg, rhash' = rhash, NEW G
  PROVE  HashesCurrent(G)' <=> HashesCurrent(G)
  BY DEF HashesCurrent, hash_group_for, hash_page_for, PagesIn

(* The hashes and the messages that carry them depend on it too. *)
LEMMA SameHashes ==
  ASSUME View' = View, oalg' = oalg, NEW g
  PROVE  /\ hash_group_for(oalg, View, g)' = hash_group_for(oalg, View, g)
         /\ PageHashesMsg(g)' = PageHashesMsg(g)
  BY Zenon DEF hash_group_for, hash_page_for, PagesIn, PageHashesMsg

(* The group hashes depend on the replica and the algorithm. *)
LEMMA SameGroupHashes ==
  ASSUME View' = View, oalg' = oalg
  PROVE  GroupHashesMsg' = GroupHashesMsg
<1>1. \A g : hash_group_for(oalg, View, g)' = hash_group_for(oalg, View, g)
  BY SameHashes, Zenon
<1>2. GroupsOf(View)' = GroupsOf(View)
  BY Zenon DEF GroupsOf
<1> QED BY <1>1, <1>2, Zenon DEF GroupHashesMsg

(* Whether pages complete a group depends on the two databases, and whether
   they are pages of the snapshot on the snapshot. *)
LEMMA SameCompletes ==
  ASSUME file' = file, snap' = snap, NEW P, NEW g
  PROVE  Completes(P, g)' <=> Completes(P, g)
  BY Zenon DEF Completes, PageSynced

(* What is of a group of the snapshot depends on the snapshot. *)
LEMMA SameOfGroup ==
  ASSUME snap' = snap, NEW P, NEW g
  PROVE  OfGroup(P, g)' <=> OfGroup(P, g)
  BY Zenon DEF OfGroup, OfSnapshot

(* What is sound to write depends on the snapshot and, in a clean session, the
   file. *)
LEMMA SameSound ==
  ASSUME NEW clean \in BOOLEAN, clean => file' = file, snap' = snap, NEW P
  PROVE  Sound(clean, P)' <=> Sound(clean, P)
  BY Zenon DEF Sound, OfSnapshot, Fills

(* Which groups have to be synced depends on the fine groups left. *)
LEMMA SameOthers ==
  ASSUME file' = file, snap' = snap, oneed' = oneed
  PROVE  OthersSynced' <=> OthersSynced
  BY SameSynced, Zenon DEF OthersSynced

(* An origin that stops in the middle of a session leaves at most the message
   the replica waits for, and no Done. *)
LEMMA Unfinished ==
  ASSUME NEW clean \in BOOLEAN, IInv(clean),
         opc \in {"idle", "hello", "groups", "pages", "ack", "err", "panic"}
  PROVE  FailedPhase(clean)
(* The groups before the first one still to do are synced, so its pages can be
   appended in order. *)
<1>CompletesFills.
    ASSUME TypeOK, oneed # {}, OthersSynced, NEW g, g = Least(oneed),
           NEW P, OfGroup(P, g), Completes(P, g)
    PROVE  Fills(P)
  <2> USE <1>CompletesFills
  <2> SUFFICES ASSUME NEW p \in DOMAIN P, NEW q \in 1..p
               PROVE  q \in DOMAIN file \cup DOMAIN P
    BY Zenon DEF Fills
  <2>1. PICK n \in 0..MaxPages : DOMAIN snap = 1..n
    BY Zenon DEF TypeOK, DB
  <2>2. p \in 1..n /\ GroupOf(p) = g /\ MaxPages \in Nat
    BY <2>1, SizesAssumption, Zenon DEF OfGroup, OfSnapshot
  <2>3. p \in Nat \ {0} /\ q \in DOMAIN snap /\ q \in 1..MaxPages
    BY <2>1, <2>2
  <2>4. GroupOf(q) <= g /\ GroupOf(q) \in Groups /\ Groups \subseteq Nat
    BY <2>2, <2>3, SmallerGroup, GroupsNat, Zenon
  <2>5. CASE GroupOf(q) = g
    BY <2>3, <2>5, Zenon DEF Completes, PageSynced
  <2>6. CASE GroupOf(q) # g
    <3>1. oneed \subseteq Groups
      BY Zenon DEF TypeOK
    <3>2. oneed \subseteq Nat
      BY <2>4, <3>1, Zenon
    <3>3. g \in Nat /\ \A h \in oneed : g <= h
      BY <3>2, LeastIn, Zenon
    <3>4. GroupOf(q) \notin oneed
      <4>1. PICK h : h = GroupOf(q)
        BY Zenon
      <4>2. h \in Nat /\ h <= g /\ h # g
        BY <2>4, <2>6, <4>1, Zenon
      <4> QED BY <3>3, <4>1, <4>2
    <3> QED BY <2>3, <2>4, <3>4, Zenon DEF OthersSynced, GroupSynced, PageSynced
  <2> QED BY <2>5, <2>6, Zenon

(* Pages of the group that is being done are sound to write. *)
<1>GroupIsSound.
    ASSUME TypeOK,
           oneed # {},
           clean => OthersSynced,
           NEW P,
           OfGroup(P, Least(oneed)),
           clean => Completes(P, Least(oneed))
    PROVE  Sound(clean, P)
  <2> USE <1>GroupIsSound
  <2>1. OfSnapshot(P)
    BY Zenon DEF OfGroup
  <2>2. PICK g : g = Least(oneed)
    BY Zenon
  <2>3. clean => Fills(P)
    BY <2>2, <1>CompletesFills, Zenon
  <2> QED BY <2>1, <2>3, Zenon DEF Sound

<1> USE DEF IInv
<1>1. CASE opc \in {"idle", "hello"}
  BY <1>1, Zenon DEF Phases, HelloPhase, FailedPhase
<1>2. CASE opc = "groups"
  <2>1. GroupsPhase
    BY <1>2, Zenon DEF Phases
  <2>m. PICK m : m = [type |-> "HelloAck", version |-> oalg]
    BY Zenon
  <2>2. ASSUME toReplica # <<>> PROVE toReplica = <<m>> /\ rpc \in {"hello", "err"}
    BY <2>1, <2>2, <2>m, Zenon DEF GroupsPhase
  <2>3. rpc \in {"hello", "err"} => InTurn(clean, m)
    BY <2>1, <2>m, Zenon DEF InTurn, GroupsPhase, ReplicaEnded
  <2>4. toReplica # <<>> => toReplica = <<Head(toReplica)>> /\ InTurn(clean, Head(toReplica))
    BY <2>2, <2>3, OneMessage, Zenon
  <2> QED BY <2>1, <2>4, Zenon DEF GroupsPhase, FailedPhase
<1>3. CASE opc = "pages"
  <2>1. PagesPhase(clean)
    BY <1>3, Zenon DEF Phases
  <2>m. PICK m : m = NeedMsg(oneed)
    BY Zenon
  <2>2. ASSUME toReplica # <<>> PROVE toReplica = <<m>> /\ rpc \in {"need", "err"}
    BY <2>1, <2>2, <2>m, Zenon DEF PagesPhase
  <2>3. rpc \in {"need", "err"} => InTurn(clean, m)
    BY <2>m, Zenon DEF InTurn, NeedMsg, ReplicaEnded
  <2>4. toReplica # <<>> => toReplica = <<Head(toReplica)>> /\ InTurn(clean, Head(toReplica))
    BY <2>2, <2>3, OneMessage, Zenon
  <2> QED BY <2>1, <2>4, Zenon DEF PagesPhase, FailedPhase
<1>4. CASE opc = "ack"
  <2>1. AckPhase(clean)
    BY <1>4, Zenon DEF Phases
  <2>2. oneed # {} /\ (clean => OthersSynced)
    BY <2>1, Zenon DEF AckPhase
  <2>3. CASE PagesSent(clean, Least(oneed))
    <3>p. PICK P : P = Head(toReplica).pages
      BY Zenon
    <3>1. /\ rpc \in {"pages", "err"} /\ toReplica = <<PagesMsg(P)>>
          /\ OfGroup(P, Least(oneed)) /\ (clean => Completes(P, Least(oneed)))
      BY <2>3, <3>p, Zenon DEF PagesSent
    <3>2. Sound(clean, P)
      BY <2>2, <3>1, <1>GroupIsSound, Zenon
    <3>3. InTurn(clean, PagesMsg(P))
      BY <3>1, <3>2, Zenon DEF InTurn, PagesMsg, ReplicaEnded
    <3>4. Head(toReplica) = PagesMsg(P)
      BY <3>1, OneMessage, Zenon
    <3> QED BY <3>1, <3>3, <3>4, Zenon DEF FailedPhase
  <2>4. CASE PagesWriting(clean, Least(oneed))
    <3>1. /\ rpc = "write" /\ toReplica = <<>>
          /\ OfGroup(rpend, Least(oneed)) /\ (clean => Completes(rpend, Least(oneed)))
      BY <2>4, Zenon DEF PagesWriting
    <3>2. PICK P : P = rpend
      BY Zenon
    <3>3. Sound(clean, P)
      BY <2>2, <3>1, <3>2, <1>GroupIsSound, Zenon
    <3> QED BY <3>1, <3>2, <3>3, Zenon DEF FailedPhase
  <2>5. CASE toReplica = <<>> /\ rpc \notin {"write", "ok"}
    BY <2>5, Zenon DEF FailedPhase
  <2> QED BY <2>1, <2>3, <2>4, <2>5, Zenon DEF AckPhase, PagesAcked, ReplicaGone
<1> QED BY <1>1, <1>2, <1>3, <1>4, Zenon DEF Phases

(* What the replica is about to write is sound to write. *)
LEMMA WritesAreSound ==
  ASSUME NEW clean \in BOOLEAN, IInv(clean), rpc = "write"
  PROVE  Sound(clean, rpend)
<1>1. opc # "ok"
  BY Zenon DEF IInv, Phases, OkPhase
<1>2. FailedPhase(clean)
  BY <1>1, Unfinished, TypedParts, Zenon DEF IInv, OriginTyped
<1> QED BY <1>2, Zenon DEF FailedPhase

(* What an origin that has not failed can have sent last. *)
LEMMA FirstMessage ==
  ASSUME NEW clean \in BOOLEAN, IInv(clean), opc \notin {"err", "panic"}, toReplica # <<>>
  PROVE  /\ Head(toReplica).type \in {"HelloAck", "GroupsNeedFine", "SendPages", "Done"}
         /\ Head(toReplica).type = "SendPages" => opc = "ack"
<1>0. Phases(clean) /\ OriginTyped
  BY TypedParts, Zenon DEF IInv
<1>1. CASE opc \in {"idle", "hello"}
  BY <1>0, <1>1, Zenon DEF Phases, HelloPhase
<1>2. CASE opc = "groups"
  <2>1. GroupsPhase
    BY <1>0, <1>2, Zenon DEF Phases
  <2>2. toReplica = <<[type |-> "HelloAck", version |-> oalg]>>
    BY <2>1, Zenon DEF GroupsPhase
  <2> QED BY <2>2, OneMessage
<1>3. CASE opc = "pages"
  <2>1. PagesPhase(clean)
    BY <1>0, <1>3, Zenon DEF Phases
  <2>2. toReplica = <<NeedMsg(oneed)>>
    BY <2>1, Zenon DEF PagesPhase
  <2>3. NeedMsg(oneed).type = "GroupsNeedFine"
    BY Zenon DEF NeedMsg
  <2> QED BY <2>2, <2>3, OneMessage, Zenon
<1>4. CASE opc = "ack"
  <2>1. AckPhase(clean)
    BY <1>0, <1>4, Zenon DEF Phases
  <2>2. PagesSent(clean, Least(oneed))
    BY <2>1, Zenon DEF AckPhase, PagesWriting, PagesAcked, ReplicaGone
  <2>3. PICK P : toReplica = <<PagesMsg(P)>>
    BY <2>2, Zenon DEF PagesSent
  <2>4. PagesMsg(P).type = "SendPages"
    BY Zenon DEF PagesMsg
  <2> QED BY <1>4, <2>3, <2>4, OneMessage, Zenon
<1>5. CASE opc = "ok"
  <2>1. OkPhase(clean)
    BY <1>0, <1>5, Zenon DEF Phases
  <2>2. toReplica = <<DoneMsg>> \/ toReplica = <<NeedMsg({}), DoneMsg>>
    BY <2>1, Zenon DEF OkPhase
  <2>3. Head(toReplica) \in {DoneMsg, NeedMsg({})}
    BY <2>2, OneMessage, TwoMessages
  <2>4. DoneMsg.type = "Done" /\ NeedMsg({}).type = "GroupsNeedFine"
    BY Zenon DEF DoneMsg, NeedMsg
  <2> QED BY <2>3, <2>4, Zenon
<1> QED BY <1>0, <1>1, <1>2, <1>3, <1>4, <1>5, Zenon DEF OriginTyped

-----------------------------------------------------------------------------
(* The initial state and the origin handler *)

(* The first state satisfies the invariant. *)
LEMMA InitInv ==
  ASSUME NEW clean \in BOOLEAN, Init, clean => wal = NoWal
  PROVE  IInv(clean)
(* Frames that a writer left mask the file as WalOK says. *)
<1>LeftoverFrames.
    ASSUME file \in DB, wal \in Wals(file)
    PROVE  WalOK /\ wal.size \in 0..MaxPages /\ wal.pages \in PageMap(Content)
  <2> USE <1>LeftoverFrames
  <2>1. CASE wal = NoWal
    BY <2>1, NoPagesTyped, SizesAssumption DEF WalOK, NoWal
  <2>2. CASE wal # NoWal
    <3>1. PICK n \in 1..MaxPages :
            wal \in {[size |-> n, pages |-> w] : w \in UNION {[S -> Content] :
                   S \in {T \in SUBSET (1..n) : T # {} /\ (1..n) \ T \subseteq DOMAIN file}}}
      BY <2>2, Zenon DEF Wals
    <3>2. PICK w \in UNION {[S -> Content] :
                   S \in {T \in SUBSET (1..n) : T # {} /\ (1..n) \ T \subseteq DOMAIN file}} :
            wal = [size |-> n, pages |-> w]
      BY <3>1, Zenon
    <3>3. PICK S \in SUBSET (1..n) : (1..n) \ S \subseteq DOMAIN file /\ w \in [S -> Content]
      BY <3>2, Zenon
    <3>4. wal.size = n /\ wal.pages = w /\ DOMAIN w = S /\ S \subseteq 1..MaxPages
      BY <3>2, <3>3, SizesAssumption
    <3>5. w \in PageMap(Content)
      BY <3>3, <3>4, PageMapIs, Zenon
    <3>6. WalOK
      BY <3>3, <3>4, Zenon DEF WalOK
    <3>7. n \in 0..MaxPages
      BY SizesAssumption
    <3> QED BY <3>4, <3>5, <3>6, <3>7, Zenon
  <2> QED BY <2>1, <2>2, Zenon

<1>1. NoPages \in DB /\ \A S : NoPages \in PageMap(S)
  BY NoPagesTyped, Zenon
<1>2. file \in PageMap(Content)
  BY DBIsPageMap, Zenon DEF Init
<1>3. WalOK /\ wal.size \in 0..MaxPages /\ wal.pages \in PageMap(Content)
  BY <1>LeftoverFrames, Zenon DEF Init
<1>4. rsize \in ReplicaPageSizes \cup {DefaultPageSize}
  BY Zenon DEF Init
<1>5. TypeOK
  <2>1. /\ origin \in DB /\ snap \in DB /\ offered \in OfferedVersions
        /\ opc = "idle" /\ oalg = 0 /\ oneed = {} /\ oack = {}
    BY <1>1, Zenon DEF Init
  <2>2. /\ rpc = "idle" /\ ralg = 0 /\ rneed = {} /\ racked = {}
        /\ rhash \in PageMap(Hashes) /\ rpend \in PageMap(Content)
    BY <1>1, Zenon DEF Init
  <2>3. toReplica = <<>> /\ link = "up" /\ sessions = 1 /\ faults = 0
    BY Zenon DEF Init
  <2>4. toReplica \in Seq(FromOrigin)
    BY <2>3
  <2>5. sessions \in 1..(MaxSessions + 1) /\ faults \in 0..MaxFaults
    BY <2>3, SizesAssumption
  <2> QED BY <1>2, <1>3, <1>4, <2>1, <2>2, <2>3, <2>4, <2>5 DEF TypeOK
<1>6. NoHole
  <2>1. PICK n \in 0..MaxPages : file \in [1..n -> Content]
    BY Zenon DEF Init, DB
  <2> QED BY <2>1 DEF NoHole
<1>7. Phases(clean)
  BY Zenon DEF Init, Phases, HelloPhase
<1> QED BY <1>3, <1>5, <1>6, <1>7, Zenon DEF IInv, FileOK

(* What a failed origin left fits while nothing else moves, or the replica
   ends too. *)
LEMMA StillInTurn ==
  ASSUME NEW clean \in BOOLEAN, FailedPhase(clean),
         UNCHANGED <<snap, rpend, offered>>, clean => file' = file,
         toReplica' \in {toReplica, <<>>},
         rpc' \in {rpc, "err"}
  PROVE  FailedPhase(clean)'
<1>1. rpc' = "write" => Sound(clean, rpend)'
  BY SameSound, Zenon DEF FailedPhase
<1>2. ASSUME NEW m, InTurn(clean, m) PROVE InTurn(clean, m)'
  BY <1>2, SameSound, Zenon DEF InTurn, ReplicaEnded
<1>3. toReplica' # <<>> =>
        toReplica' = <<Head(toReplica')>> /\ InTurn(clean, Head(toReplica))'
  BY <1>2, Zenon DEF FailedPhase
<1> QED BY <1>1, <1>3, Zenon DEF FailedPhase

(* The steps of the origin handler keep the invariant. *)
LEMMA OriginSteps ==
  ASSUME NEW clean \in BOOLEAN, IInv(clean), OriginStep
  PROVE  TypeOK' /\ Phases(clean)'
(* Equal group hashes are hashes of equal groups. *)
<1>EqualHashes.
    ASSUME NEW a, NEW d, NEW e, NEW g,
           hash_group_for(a, d, g) = hash_group_for(a, e, g)
    PROVE  /\ PagesIn(d, g) = PagesIn(e, g)
           /\ \A p \in PagesIn(d, g) : d[p] = e[p]
  <2> USE <1>EqualHashes
  <2>1. PagesIn(d, g) = PagesIn(e, g)
    BY Zenon DEF hash_group_for
  <2>2. ASSUME NEW p \in PagesIn(d, g) PROVE d[p] = e[p]
    <3>1. hash_group_for(a, d, g)[p] = <<a, d[p]>> /\ hash_group_for(a, e, g)[p] = <<a, e[p]>>
      BY <2>1, <2>2, Zenon DEF hash_group_for, hash_page_for
    <3> QED BY <3>1
  <2> QED BY <2>1, <2>2, Zenon

(* In a clean session the coarse pass leaves out only groups that are equal
   already. *)
<1>CoarsePass.
    ASSUME TypeOK, wal = NoWal, NEW g \in Groups, NEW hashes,
           hashes = [h \in GroupsOf(View) \cup {0} |-> hash_group_for(oalg, View, h)],
           g \notin NeedFine(hashes)
    PROVE  GroupSynced(g)
  <2> USE <1>CoarsePass
  <2>0. View = file
    BY ViewIs, Zenon
  <2>1. CASE g \in DOMAIN hashes
    <3>1. hash_group_for(oalg, snap, g) = hash_group_for(oalg, file, g)
      BY <2>0, <2>1, Zenon DEF NeedFine
    <3>2. PagesIn(snap, g) = PagesIn(file, g) /\ \A p \in PagesIn(snap, g) : snap[p] = file[p]
      BY <3>1, <1>EqualHashes
    <3> QED BY <3>2, Zenon DEF GroupSynced, PageSynced, PagesIn
  <2>2. CASE g \notin DOMAIN hashes
    <3>1. g \notin GroupsOf(snap) /\ g \notin GroupsOf(file)
      BY <2>0, <2>2, Zenon DEF NeedFine
    <3> QED BY <3>1, Zenon DEF GroupSynced, GroupsOf
  <2> QED BY <2>1, <2>2, Zenon

(* The coarse pass asks for groups of the model only. *)
<1>NeedFineInGroups.
    ASSUME TypeOK, WalOK, NEW hashes, DOMAIN hashes = GroupsOf(View) \cup {0}
    PROVE  NeedFine(hashes) \subseteq Groups
  <2> USE <1>NeedFineInGroups
  <2>1. DOMAIN View \subseteq 1..MaxPages /\ DOMAIN snap \subseteq 1..MaxPages
    BY DBIsPageMap, PageMapIs, ViewIs, Zenon DEF TypeOK
  <2>2. GroupsOf(View) \subseteq Groups /\ GroupsOf(snap) \subseteq Groups
    BY <2>1, GroupsNat, Zenon DEF GroupsOf
  <2>3. 0 \in Groups
    BY Zenon DEF Groups
  <2> QED BY <2>2, <2>3, Zenon DEF NeedFine

(* The fine pass sends pages of the group's snapshot... *)
<1>FinePass.
    ASSUME NEW g, NEW hashes, hashes = hash_group_for(oalg, View, g),
           DOMAIN hashes \subseteq DOMAIN snap,
           NEW C, C = ChangedPages(hashes, g),
           NEW P, P = [p \in C |-> snap[p]]
    PROVE  OfGroup(P, g) /\ C \subseteq DOMAIN snap
  <2> USE <1>FinePass
  <2>1. DOMAIN hashes = PagesIn(View, g)
    BY Zenon DEF hash_group_for
  <2>2. C \subseteq PagesIn(snap, g)
    BY <2>1, Zenon DEF ChangedPages, PagesIn
  <2>3. DOMAIN P = C /\ \A p \in C : P[p] = snap[p]
    BY Zenon
  <2> QED BY <2>2, <2>3, Zenon DEF OfGroup, OfSnapshot, PagesIn

(* ... and in a clean session all that the group lacks. *)
<1>FinePassCompletes.
    ASSUME wal = NoWal, NEW g, NEW hashes, hashes = hash_group_for(oalg, View, g),
           DOMAIN hashes \subseteq DOMAIN snap,
           NEW C, C = ChangedPages(hashes, g),
           NEW P, P = [p \in C |-> snap[p]]
    PROVE  Completes(P, g)
  <2> USE <1>FinePassCompletes
  <2>1. hashes = hash_group_for(oalg, file, g)
    BY ViewIs, Zenon
  <2>2. DOMAIN hashes = PagesIn(file, g)
    BY <2>1, Zenon DEF hash_group_for
  <2>3. ASSUME NEW p \in DOMAIN file \cup DOMAIN snap, GroupOf(p) = g, p \notin C
        PROVE  PageSynced(p)
    <3>1. p \in PagesIn(file, g)
      BY <2>2, <2>3, Zenon DEF ChangedPages, PagesIn
    <3>2. <<oalg, snap[p]>> = <<oalg, file[p]>>
      BY <3>1, <2>1, <2>2, <2>3, Zenon DEF ChangedPages, hash_group_for, hash_page_for
    <3> QED BY <3>1, <3>2, <2>2, Zenon DEF PageSynced, PagesIn
  <2> QED BY <2>3, Zenon DEF Completes

(* All groups synced: the replica file is the snapshot. *)
<1>AllSynced.
    ASSUME TypeOK, \A g \in Groups : GroupSynced(g)
    PROVE  file = snap
  <2> USE <1>AllSynced
  <2>1. file \in PageMap(Content) /\ snap \in PageMap(Content)
    BY DBIsPageMap, Zenon DEF TypeOK
  <2>2. \A p \in DOMAIN file \cup DOMAIN snap : PageSynced(p)
    BY <2>1, PageMapIs, GroupsNat, Zenon DEF GroupSynced
  <2>3. DOMAIN file = DOMAIN snap /\ \A p \in DOMAIN file : file[p] = snap[p]
    BY <2>2, Zenon DEF PageSynced
  <2> QED BY <2>1, <2>3, PageMapIs

(* Taking the snapshot. *)
<1>OriginBeginStep. CASE OriginBegin
  <2> USE <1>OriginBeginStep
  <2> USE DEF IInv, OriginBegin, peers, rvars, net, counts
  <2>1. TypeOK'
    BY Zenon DEF TypeOK
  <2>2. Phases(clean)'
    BY Zenon DEF Phases, HelloPhase
  <2> QED BY <2>1, <2>2, Zenon

(* Answering Hello, or refusing it. *)
<1>OriginHelloStep. CASE OriginHello
  <2> USE <1>OriginHelloStep
  <2> USE DEF IInv, dbs, peers, rvars, counts
  <2> DEFINE hello == [type |-> "Hello", version |-> offered, size |-> rsize]
  <2>1. HelloPhase /\ toOrigin = <<hello>> /\ toReplica = <<>> /\ rpc \in {"hello", "err"}
    BY Zenon DEF Phases, OriginHello, OriginGets, HelloPhase
  <2>2. Head(toOrigin) = hello /\ Tail(toOrigin) = <<>>
    BY <2>1, OneMessage, Zenon
  <2>3. link' = link /\ toOrigin' = <<>> /\ link = "up"
    BY <2>1, <2>2, Zenon DEF OriginHello, OriginAnswers, Phases, TypeOK
  <2>4. CASE Refused(hello)
    <3>1. opc' = "err" /\ oalg' = oalg /\ toReplica' = <<[type |-> "Error"]>>
      BY <2>1, <2>2, <2>4, OneMessage, Zenon DEF OriginHello, OriginAnswers
    <3>2. toReplica' \in Seq(FromOrigin)
      BY <3>1 DEF FromOrigin
    <3>3. TypeOK'
      BY <3>1, <3>2, <2>3, Zenon DEF TypeOK, OriginHello
    <3>4. FailedPhase(clean)'
      <4>1. rpc' = rpc /\ rpc \notin {"write", "ok"}
        BY <2>1, Zenon DEF OriginHello
      <4>2. toReplica' = <<Head(toReplica')>> /\ Head(toReplica').type = "Error"
        BY <3>1, OneMessage
      <4> QED BY <4>1, <4>2, Zenon DEF FailedPhase, InTurn
    <3> QED BY <3>1, <3>3, <3>4, <2>3, Zenon DEF Phases, OriginHello
  <2>5. CASE ~Refused(hello)
    <3>1. /\ opc' = "groups" /\ oalg' = Negotiated(offered)
          /\ toReplica' = <<[type |-> "HelloAck", version |-> Negotiated(offered)]>>
      <4>0. hello.version = offered
        BY Zenon
      <4>1. ~Refused(Head(toOrigin)) /\ Head(toOrigin).version = offered
        BY <2>2, <2>5, <4>0, Zenon
      <4>2. /\ opc' = "groups" /\ oalg' = Negotiated(offered)
            /\ toReplica' = Append(toReplica, [type |-> "HelloAck", version |-> Negotiated(offered)])
        BY <4>1, Zenon DEF OriginHello, OriginAnswers
      <4> QED BY <2>1, <4>2, OneMessage, Zenon
    <3>2. Negotiated(offered) \in 1..2 /\ Negotiated(offered) \in 1..offered
      <4>1. offered \in Nat /\ offered # 0
        BY <2>5, VersionAssumption, TypedParts, Zenon DEF Refused, DbsTyped
      <4> QED BY <4>1, VersionAssumption DEF Negotiated
    <3>3. toReplica' \in Seq(FromOrigin)
      BY <3>1, <3>2 DEF FromOrigin
    <3>4. TypeOK'
      <4>1. OriginTyped'
        <5>1. UNCHANGED <<oneed, oack>> /\ OriginTyped
          BY TypedParts, Zenon DEF OriginHello
        <5> QED BY <3>1, <3>2, <5>1 DEF OriginTyped
      <4>2. NetTyped'
        BY <3>3, <2>3, TypedParts, Zenon DEF NetTyped
      <4>3. UNCHANGED <<dbs, peers>> /\ UNCHANGED rvars /\ UNCHANGED counts
        BY Zenon DEF OriginHello
      <4> HIDE DEF dbs, peers, rvars, counts
      <4> QED BY <4>1, <4>2, <4>3, TypedWhole, TypedStays, Zenon
    <3>5. GroupsPhase'
      BY <3>1, <3>2, <2>1, <2>3, Zenon DEF GroupsPhase, OriginHello
    <3> QED BY <3>1, <3>4, <3>5, <2>3, Zenon DEF Phases, OriginHello
  <2> QED BY <2>4, <2>5, Zenon

(* The coarse pass: GroupsNeedFine, or Done at once. *)
<1>OriginGroupsStep. CASE OriginGroups
  <2> USE <1>OriginGroupsStep
  <2> USE DEF IInv, dbs, peers, rvars, counts
  <2>0. PICK hashes :
          hashes = [g \in GroupsOf(View) \cup {0} |-> hash_group_for(oalg, View, g)]
    BY Zenon
  <2>a. PICK need : need = NeedFine(hashes)
    BY Zenon
  <2>v. View' = View
    BY SameView, Zenon DEF OriginGroups
  <2>1. GroupsPhase /\ toOrigin = <<GroupHashesMsg>>
    BY Zenon DEF Phases, OriginGroups, OriginGets, GroupsPhase
  <2>2. Head(toOrigin).hashes = hashes /\ Tail(toOrigin) = <<>>
    <3>1. Head(toOrigin) = GroupHashesMsg /\ Tail(toOrigin) = <<>>
      BY <2>1, OneMessage, Zenon
    <3>2. GroupHashesMsg.hashes = hashes
      BY <2>0, Zenon DEF GroupHashesMsg
    <3> QED BY <3>1, <3>2, Zenon
  <2>3. rpc \in {"need", "err"} /\ link = "up"
    BY <2>1, OneMessage, Zenon DEF GroupsPhase, Phases, TypeOK
  <2>4. rpc = "need" => toReplica = <<>> /\ HashesCurrent(Groups)
    BY <2>1, Zenon DEF GroupsPhase
  <2>5. need \subseteq Groups
    BY <2>0, <2>a, <1>NeedFineInGroups, Zenon DEF FileOK
  <2>6. clean => \A g \in Groups : g \notin need => GroupSynced(g)
    <3>1. ASSUME clean, NEW g \in Groups, g \notin need PROVE GroupSynced(g)
      BY <2>0, <2>a, <3>1, <1>CoarsePass, Zenon DEF FileOK
    <3> QED BY <3>1, Zenon
  <2>7. oneed' = need /\ toOrigin' = <<>> /\ link' = link
    BY <2>2, <2>a, Zenon DEF OriginGroups
  <2>8. toReplica = <<>>
    BY <2>1, OneMessage, Zenon DEF GroupsPhase
  <2>9. NeedMsg(need) \in FromOrigin /\ DoneMsg \in FromOrigin
    BY <2>5, Zenon DEF NeedMsg, DoneMsg, FromOrigin
  <2>10. CASE need = {}
    <3>1. /\ toReplica' = toReplica \o <<NeedMsg(need), DoneMsg>>
          /\ opc' = "ok"
      BY <2>2, <2>a, <2>10, Zenon DEF OriginGroups, NeedMsg, DoneMsg
    <3>2. toReplica' = <<NeedMsg({}), DoneMsg>>
      BY <3>1, <2>8, <2>10, TwoMessages, Zenon
    <3>3. toReplica' \in Seq(FromOrigin)
      BY <3>2, <2>9, <2>10
    <3>4. TypeOK'
      BY <3>1, <3>3, <2>5, <2>7, Zenon DEF TypeOK, OriginGroups
    <3>5. clean => file = snap
      BY <2>6, <2>10, <1>AllSynced, Zenon
    <3>6. OkPhase(clean)'
      BY <3>2, <3>5, <2>3, <2>7, TwoMessages, Zenon DEF OkPhase, OriginGroups
    <3> QED BY <3>1, <3>4, <3>6, <2>3, <2>7, Zenon DEF Phases, OriginGroups
  <2>11. CASE need # {}
    <3>1. toReplica' = Append(toReplica, NeedMsg(need)) /\ opc' = "pages"
      BY <2>2, <2>a, <2>11, Zenon DEF OriginGroups, NeedMsg
    <3>2. toReplica' = <<NeedMsg(need)>>
      BY <3>1, <2>8, OneMessage, Zenon
    <3>3. toReplica' \in Seq(FromOrigin)
      BY <3>2, <2>9
    <3>4. TypeOK'
      BY <3>1, <3>3, <2>5, <2>7, Zenon DEF TypeOK, OriginGroups
    <3>5. clean => OthersSynced'
      BY <2>6, <2>7, SameSynced, Zenon DEF OthersSynced, OriginGroups
    <3>6. rpc = "need" => HashesCurrent(Groups)'
      BY <2>4, <2>v, SameCurrent, Zenon DEF OriginGroups
    <3>7. PagesPhase(clean)'
      <4>1. oneed' # {} /\ toReplica' = <<NeedMsg(oneed')>> /\ rpc' \in {"need", "err"}
        BY <2>7, <2>11, <3>2, <2>3, Zenon DEF OriginGroups
      <4>2. NeedMsg(oneed)' = NeedMsg(oneed')
        BY Zenon DEF NeedMsg
      <4> QED BY <4>1, <4>2, <3>5, <3>6, <2>7, Zenon DEF PagesPhase, OriginGroups
    <3> QED BY <3>1, <3>4, <3>7, <2>3, <2>7, Zenon DEF Phases, OriginGroups
  <2> QED BY <2>10, <2>11, Zenon

(* The fine pass of one group: SendPages, or an error. *)
<1>OriginPagesStep. CASE OriginPages
  <2> USE <1>OriginPagesStep
  <2> USE DEF IInv, dbs, peers, rvars, counts
  <2>g. PICK g : g = Least(oneed)
    BY Zenon
  <2>h. PICK hashes : hashes = hash_group_for(oalg, View, g)
    BY Zenon
  <2>c. PICK C : C = ChangedPages(hashes, g)
    BY Zenon
  <2>p. PICK P : P = [p \in C |-> snap[p]]
    BY Zenon
  <2>v. View' = View
    BY SameView, Zenon DEF OriginPages
  <2>1. PagesPhase(clean) /\ toOrigin = <<PageHashesMsg(g)>>
    BY <2>g, Zenon DEF Phases, OriginPages, OriginGets, PagesPhase
  <2>2. Head(toOrigin).hashes = hashes /\ Tail(toOrigin) = <<>> /\ toReplica = <<>>
    <3>1. Head(toOrigin) = PageHashesMsg(g) /\ Tail(toOrigin) = <<>> /\ toOrigin # <<>>
      BY <2>1, OneMessage, Zenon
    <3>2. PageHashesMsg(g).hashes = hashes
      BY <2>h, Zenon DEF PageHashesMsg
    <3> QED BY <2>1, <3>1, <3>2, Zenon DEF PagesPhase
  <2>3. rpc \in {"pages", "err"} /\ link = "up"
    BY <2>1, OneMessage, Zenon DEF PagesPhase, Phases, TypeOK
  <2>4. /\ DOMAIN hashes \subseteq DOMAIN snap
        /\ OriginAnswers(PagesMsg(P))
        /\ oack' = C
    BY <2>2, <2>g, <2>c, <2>p, Zenon DEF OriginPages, PagesMsg, PagesToSend
  <2>5. OfGroup(P, g) /\ C \subseteq DOMAIN snap /\ DOMAIN P = C
    BY <2>4, <2>h, <2>c, <2>p, <1>FinePass, Zenon
  <2>e. clean => Completes(P, g)
    BY <2>4, <2>h, <2>c, <2>p, <1>FinePassCompletes, Zenon DEF FileOK
  <2>6. toReplica' = <<PagesMsg(P)>> /\ toOrigin' = <<>> /\ link' = link
    BY <2>2, <2>4, OneMessage, Zenon DEF OriginAnswers
  <2>7. C \subseteq 1..MaxPages /\ P \in PageMap(Content)
    <3>1. snap \in PageMap(Content)
      BY DBIsPageMap, Zenon DEF TypeOK
    <3>2. DOMAIN snap \subseteq 1..MaxPages /\ snap \in [DOMAIN snap -> Content]
      BY <3>1, PageMapIs, Zenon
    <3>3. P \in [C -> Content]
      BY <3>2, <2>5, <2>p, Zenon
    <3> QED BY <3>2, <3>3, <2>5, PageMapIs, Zenon
  <2>8. toReplica' \in Seq(FromOrigin)
    BY <2>6, <2>7 DEF FromOrigin, PagesMsg
  <2>9. TypeOK'
    BY <2>4, <2>6, <2>7, <2>8, Zenon DEF TypeOK, OriginPages
  <2>10. AckPhase(clean)'
    <3>1. oneed' = oneed /\ oneed # {} /\ rpc' = rpc /\ (clean => OthersSynced')
      BY <2>1, SameOthers, Zenon DEF PagesPhase, OriginPages
    <3>2. Head(toReplica').pages = P /\ toReplica' # <<>>
      BY <2>6, OneMessage DEF PagesMsg
    <3>3. OfGroup(P, g)' /\ (clean => Completes(P, g)')
      BY <2>5, <2>e, SameCompletes, SameOfGroup, Zenon DEF OriginPages
    <3>4. rpc = "pages" => rneed' = oneed' /\ HashesCurrent(oneed \ {g})'
      <4>1. rpc = "pages" => rneed = oneed /\ HashesCurrent(oneed)
        BY <2>1, Zenon DEF PagesPhase
      <4>2. rpc = "pages" => HashesCurrent(oneed)'
        BY <2>v, <4>1, SameCurrent, Zenon DEF OriginPages
      <4> QED BY <4>1, <4>2, Zenon DEF OriginPages, HashesCurrent
    <3>5. PagesSent(clean, g)'
      BY <3>1, <3>2, <3>3, <3>4, <2>3, <2>4, <2>5, <2>6, Zenon DEF PagesSent, PagesMsg
    <3>6. g = Least(oneed')
      BY <2>g, <3>1, Zenon
    <3> QED BY <3>1, <3>5, <3>6, Zenon DEF AckPhase
  <2> QED BY <2>9, <2>10, <2>3, <2>6, Zenon DEF Phases, OriginPages

(* The slice beyond the snapshot ends the task. *)
<1>OriginPanicStep. CASE OriginPanic
  <2> USE <1>OriginPanicStep
  <2> USE DEF IInv, OriginPanic, dbs, peers, counts
  <2>1. TypeOK'
    BY Zenon DEF TypeOK
  <2>2. PagesPhase(clean) /\ toOrigin # <<>>
    BY Zenon DEF Phases, OriginGets
  <2>3. link = "up" /\ link' = link
    BY <2>2, Zenon DEF Phases, TypeOK
  <2>4. FailedPhase(clean)
    BY Unfinished, Zenon
  <2>5. FailedPhase(clean)'
    BY <2>4, StillInTurn, Zenon
  <2> QED BY <2>1, <2>3, <2>5, Zenon DEF Phases

(* The replica's side is closed. *)
<1>OriginEofStep. CASE OriginEof
  <2> USE <1>OriginEofStep
  <2> USE DEF IInv, OriginEof, dbs, peers, rvars, net, counts
  <2>1. TypeOK'
    BY Zenon DEF TypeOK
  <2>2. FailedPhase(clean)
    BY Unfinished, Zenon
  <2>3. FailedPhase(clean)'
    BY <2>2, StillInTurn, Zenon
  <2> QED BY <2>1, <2>3, Zenon DEF Phases

(* PagesAck: the next group, or Done after the last one. *)
<1>OriginAckStep. CASE OriginAck
  <2> USE <1>OriginAckStep
  <2> USE DEF IInv, dbs, peers, rvars, counts
  <2>g. PICK g : g = Least(oneed)
    BY Zenon
  <2>r. PICK rest : rest = oneed \ {g}
    BY Zenon
  <2>v. View' = View
    BY SameView, Zenon DEF OriginAck
  <2>1. AckPhase(clean) /\ toOrigin # <<>> /\ link = "up"
    BY Zenon DEF Phases, OriginAck, OriginGets, TypeOK
  <2>2. PagesAcked(clean, g, rest) /\ (clean => OthersSynced)
    BY <2>1, <2>g, <2>r, Zenon DEF AckPhase, PagesSent, PagesWriting, ReplicaGone
  <2>3. oneed' = rest /\ link' = link /\ toReplica = <<>> /\ rpc' = rpc
    BY <2>2, <2>g, <2>r, Zenon DEF OriginAck, PagesAcked
  <2>4. clean => \A h \in Groups : h \notin rest => GroupSynced(h)
    BY <2>2, <2>r, Zenon DEF OthersSynced, PagesAcked
  <2>5. CASE rest = {}
    <3>1. opc' = "ok" /\ toReplica' = <<DoneMsg>>
      BY <2>3, <2>5, OneMessage, Zenon DEF OriginAck, DoneMsg
    <3>2. toOrigin' = <<>> /\ rpc \in {"done", "err"}
      BY <2>2, <2>5, OneMessage, Zenon DEF OriginAck, PagesAcked
    <3>3. toReplica' \in Seq(FromOrigin)
      BY <3>1 DEF DoneMsg, FromOrigin
    <3>4. TypeOK'
      BY <2>3, <2>5, <3>1, <3>3, Zenon DEF TypeOK, OriginAck
    <3>5. clean => file = snap
      BY <2>4, <2>5, <1>AllSynced, Zenon
    <3>6. OkPhase(clean)'
      BY <2>3, <3>1, <3>2, <3>5, TwoMessages, Zenon DEF OkPhase, OriginAck
    <3> QED BY <2>1, <2>3, <3>1, <3>4, <3>6, Zenon DEF Phases, OriginAck
  <2>6. CASE rest # {}
    <3>1. opc' = "pages" /\ toReplica' = <<>>
      BY <2>3, <2>6, Zenon DEF OriginAck
    <3>2. rest \subseteq Groups
      BY <2>r, Zenon DEF TypeOK
    <3>3. TypeOK'
      BY <2>3, <3>1, <3>2, Zenon DEF TypeOK, OriginAck
    <3>4. clean => OthersSynced'
      BY <2>3, <2>4, SameSynced, Zenon DEF OthersSynced, OriginAck
    <3>5. \/ toOrigin' = <<>> /\ rpc \in {"next", "err"}
          \/ toOrigin' = <<PageHashesMsg(Least(rest))>> /\ rpc \in {"pages", "err"}
      <4>1. CASE toOrigin = <<AckMsg>>
        <5>1. rpc \in {"next", "err"}
          BY <2>2, <2>6, <4>1, TwoMessages, Zenon DEF PagesAcked
        <5> QED BY <4>1, <5>1, OneMessage, Zenon DEF OriginAck
      <4>2. CASE toOrigin # <<AckMsg>>
        <5>1. toOrigin = <<AckMsg, PageHashesMsg(Least(rest))>> /\ rpc \in {"pages", "err"}
          BY <2>2, <4>2, Zenon DEF PagesAcked
        <5> QED BY <5>1, TwoMessages, Zenon DEF OriginAck
      <4> QED BY <4>1, <4>2, Zenon
    <3>6. PageHashesMsg(Least(rest)) = PageHashesMsg(Least(oneed))'
      BY <2>3, <2>v, SameHashes, Zenon DEF OriginAck
    <3>7. rpc \in {"next", "pages"} => rneed = rest /\ HashesCurrent(oneed)'
      BY <2>2, <2>3, <2>v, SameCurrent, Zenon DEF PagesAcked, OriginAck
    <3>8. PagesPhase(clean)'
      BY <2>3, <2>6, <3>1, <3>4, <3>5, <3>6, <3>7, Zenon DEF PagesPhase, OriginAck
    <3> QED BY <2>1, <2>3, <3>1, <3>3, <3>8, Zenon DEF Phases, OriginAck
  <2> QED BY <2>5, <2>6, Zenon

<1> QED BY <1>OriginBeginStep, <1>OriginHelloStep, <1>OriginGroupsStep, <1>OriginPagesStep,
           <1>OriginPanicStep, <1>OriginAckStep, <1>OriginEofStep, Zenon DEF OriginStep

-----------------------------------------------------------------------------
(* The link, the origin's writers, and the next session *)

(* Steps that touch nothing the invariant is about. *)
LEMMA Unaffected ==
  ASSUME NEW clean \in BOOLEAN, IInv(clean), UNCHANGED <<snap, peers, ovars, rvars, net>>,
         View' = View, clean => file' = file
  PROVE  Phases(clean)'
<1> USE DEF IInv, peers, ovars, rvars, net
<1>o. clean => (OthersSynced' <=> OthersSynced)
  BY SameOthers, Zenon
<1>1. CASE opc \in {"idle", "hello"}
  BY <1>1, Zenon DEF Phases, HelloPhase
<1>2. CASE opc = "groups"
  <2>1. GroupHashesMsg' = GroupHashesMsg
    BY SameGroupHashes, Zenon
  <2>2. GroupsPhase'
    BY <1>2, <2>1, SameCurrent, Zenon DEF Phases, GroupsPhase
  <2> QED BY <1>2, <2>2, Zenon DEF Phases
<1>3. CASE opc = "pages"
  <2>1. PageHashesMsg(Least(oneed))' = PageHashesMsg(Least(oneed))
    BY SameHashes, Zenon
  <2>2. HashesCurrent(oneed) => HashesCurrent(oneed)'
    BY SameCurrent, Zenon
  <2>3. PagesPhase(clean)'
    BY <1>3, <2>1, <2>2, <1>o, SameCurrent, Zenon DEF Phases, PagesPhase, NeedMsg
  <2> QED BY <1>3, <2>3, Zenon DEF Phases
<1>4. CASE opc = "ack"
  <2>g. PICK g : g = Least(oneed)
    BY Zenon
  <2>r. PICK rest : rest = oneed \ {g}
    BY Zenon
  <2>1. AckPhase(clean) /\ oneed' = oneed
    BY <1>4, Zenon DEF Phases
  <2>2. HashesCurrent(rest) => HashesCurrent(rest)'
    BY SameCurrent, Zenon
  <2>3. ASSUME PagesSent(clean, g) PROVE AckPhase(clean)'
    <3>p. PICK P : P = Head(toReplica).pages
      BY Zenon
    <3>1. OfGroup(P, g)' /\ (clean => Completes(P, g)')
      BY <2>3, <3>p, SameCompletes, SameOfGroup, Zenon DEF PagesSent
    <3>2. PagesSent(clean, g)'
      BY <2>2, <2>3, <2>r, <3>p, <3>1, Zenon DEF PagesSent, PagesMsg
    <3> QED BY <2>1, <2>g, <3>2, <1>o, Zenon DEF AckPhase
  <2>4. ASSUME PagesWriting(clean, g) PROVE AckPhase(clean)'
    <3>p. PICK P : P = rpend
      BY Zenon
    <3>1. OfGroup(P, g)' /\ (clean => Completes(P, g)')
      BY <2>4, <3>p, SameCompletes, SameOfGroup, Zenon DEF PagesWriting
    <3>2. PagesWriting(clean, g)'
      BY <2>2, <2>4, <2>r, <3>p, <3>1, Zenon DEF PagesWriting
    <3> QED BY <2>1, <2>g, <3>2, <1>o, Zenon DEF AckPhase
  <2>5. ASSUME PagesAcked(clean, g, rest) PROVE AckPhase(clean)'
    <3>1. /\ PageHashesMsg(Least(rest))' = PageHashesMsg(Least(rest))
          /\ AckMsg' = AckMsg /\ (clean => GroupSynced(g)')
      BY <2>5, SameHashes, SameSynced, Zenon DEF AckMsg, PagesAcked
    <3>2. PagesAcked(clean, g, rest)'
      BY <2>2, <2>5, <3>1, Zenon DEF PagesAcked
    <3> QED BY <2>1, <2>g, <2>r, <3>2, <1>o, Zenon DEF AckPhase
  <2>6. ASSUME ReplicaGone PROVE AckPhase(clean)'
    <3>1. ReplicaGone'
      BY <2>6, Zenon DEF ReplicaGone
    <3> QED BY <2>1, <3>1, <1>o, Zenon DEF AckPhase
  <2>7. AckPhase(clean)'
    BY <2>1, <2>3, <2>4, <2>5, <2>6, <2>g, <2>r, Zenon DEF AckPhase
  <2> QED BY <1>4, <2>7, Zenon DEF Phases
<1>5. CASE opc = "ok"
  BY <1>5, Zenon DEF Phases, OkPhase
<1>6. CASE opc \in {"err", "panic"}
  <2>1. FailedPhase(clean)'
    BY <1>6, StillInTurn, Zenon DEF Phases
  <2> QED BY <1>6, <2>1, Zenon DEF Phases
<1> QED BY <1>1, <1>2, <1>3, <1>4, <1>5, <1>6, Zenon DEF TypeOK

(* So do what goes on around the handlers: errors, the link, the time limit, the
   writers of the origin, the next session, and no step at all. *)
LEMMA SurroundingSteps ==
  ASSUME NEW clean \in BOOLEAN, IInv(clean),
         OriginFails \/ LinkDown \/ LocalFails \/ StallTimeout \/ OriginWrite \/ NextSession
           \/ UNCHANGED vars
  PROVE  TypeOK' /\ Phases(clean)'
(* An I/O or SQLite error of the origin. *)
<1>OriginFailsStep. CASE OriginFails
  <2> USE <1>OriginFailsStep
  <2> USE DEF IInv, OriginFails, dbs, peers, rvars, net
  <2>1. TypeOK'
    <3>1. CountsTyped'
      BY FaultTyped, Zenon
    <3>2. OriginTyped'
      BY TypedParts, Zenon DEF OriginTyped
    <3> QED BY <3>1, <3>2, TypedWhole, TypedStays, Zenon
  <2>2. FailedPhase(clean)
    BY Unfinished, Zenon
  <2>3. FailedPhase(clean)'
    BY <2>2, StillInTurn, Zenon
  <2> QED BY <2>1, <2>3, Zenon DEF Phases

(* The link takes with it what was in flight. *)
<1>LinkDownStep. CASE LinkDown
  <2> USE <1>LinkDownStep
  <2>1. TypeOK'
    <3>1. CountsTyped'
      BY FaultTyped, Zenon DEF IInv, LinkDown
    <3>2. NetTyped'
      BY DEF NetTyped, LinkDown
    <3>3. UNCHANGED <<dbs, peers>> /\ UNCHANGED ovars /\ UNCHANGED rvars
      BY Zenon DEF LinkDown
    <3> QED BY <3>1, <3>2, <3>3, TypedWhole, TypedStays, Zenon DEF IInv
  <2> USE DEF IInv, LinkDown, dbs, peers, ovars, rvars
  <2>v. View' = View
    BY SameView, Zenon
  <2>2. CASE opc \in {"idle", "hello"}
    BY <2>1, <2>2, Zenon DEF Phases, HelloPhase
  <2>3. CASE opc = "groups"
    <3>1. GroupsPhase'
      BY <2>3, <2>v, SameCurrent, Zenon DEF Phases, GroupsPhase
    <3> QED BY <2>1, <2>3, <3>1, Zenon DEF Phases
  <2>4. CASE opc = "pages"
    <3>1. HashesCurrent(oneed) => HashesCurrent(oneed)'
      BY <2>v, SameCurrent, Zenon
    <3>2. PagesPhase(clean)'
      BY <2>4, <2>v, <3>1, SameCurrent, SameOthers, Zenon DEF Phases, PagesPhase
    <3> QED BY <2>1, <2>4, <3>2, Zenon DEF Phases
  <2>5. CASE opc = "ack"
    <3>g. PICK g : g = Least(oneed)
      BY Zenon
    <3>r. PICK rest : rest = oneed \ {g}
      BY Zenon
    <3>1. AckPhase(clean) /\ oneed' = oneed
      BY <2>5, Zenon DEF Phases
    <3>2. ASSUME PagesWriting(clean, g) PROVE AckPhase(clean)'
      <4>p. PICK P : P = rpend
        BY Zenon
      <4>1. OfGroup(P, g)' /\ (clean => Completes(P, g)') /\ HashesCurrent(rest)'
        BY <2>v, <3>2, <4>p, <3>r, SameCompletes, SameOfGroup, SameCurrent, Zenon DEF PagesWriting
      <4>2. PagesWriting(clean, g)'
        BY <3>2, <4>1, <4>p, <3>r, Zenon DEF PagesWriting
      <4> QED BY <3>1, <3>g, <4>2, SameOthers, Zenon DEF AckPhase
    <3>3. ASSUME PagesSent(clean, g) \/ PagesAcked(clean, g, rest) \/ ReplicaGone PROVE AckPhase(clean)'
      <4>1. ReplicaGone'
        BY <3>3, Zenon DEF PagesSent, PagesAcked, ReplicaGone
      <4> QED BY <3>1, <4>1, SameOthers, Zenon DEF AckPhase
    <3>4. AckPhase(clean)'
      BY <3>1, <3>2, <3>3, <3>g, <3>r, Zenon DEF AckPhase
    <3> QED BY <2>1, <2>5, <3>4, Zenon DEF Phases
  <2>6. CASE opc = "ok"
    BY <2>1, <2>6, OneMessage, TwoMessages, Zenon DEF Phases, OkPhase
  <2>7. CASE opc \in {"err", "panic"}
    <3>1. FailedPhase(clean)'
      BY <2>7, StillInTurn, Zenon DEF Phases
    <3> QED BY <2>1, <2>7, <3>1, Zenon DEF Phases
  <2> QED BY <2>2, <2>3, <2>4, <2>5, <2>6, <2>7, Zenon DEF TypeOK

(* Both handlers of a local sync end together. *)
<1>LocalEndsStep.
    ASSUME LocalEnds, faults' = faults \/ Fault
    PROVE  TypeOK' /\ Phases(clean)'
  <2> USE <1>LocalEndsStep
  <2>1. TypeOK'
    <3>1. CountsTyped'
      BY FaultTyped, TypedParts, Zenon DEF IInv, LocalEnds, CountsTyped
    <3>2. OriginTyped' /\ ReplicaTyped'
      BY TypedParts, Zenon DEF IInv, OriginTyped, ReplicaTyped, LocalEnds
    <3>3. UNCHANGED <<dbs, peers>> /\ UNCHANGED net
      BY Zenon DEF LocalEnds
    <3> QED BY <3>1, <3>2, <3>3, TypedWhole, TypedStays, Zenon DEF IInv
  <2> USE DEF IInv, LocalEnds, OriginEnded, ReplicaEnded, dbs, peers, net
  <2>2. CASE opc = "ok"
    BY <2>1, <2>2, Zenon DEF Phases, OkPhase
  <2>3. CASE opc # "ok"
    <3>1. FailedPhase(clean)
      BY <2>3, Unfinished, TypedParts, Zenon DEF OriginTyped
    <3>2. FailedPhase(clean)'
      BY <3>1, StillInTurn, Zenon
    <3> QED BY <2>1, <2>3, <3>2, Zenon DEF Phases
  <2> QED BY <2>2, <2>3, Zenon

(* The origin's writers do not reach the snapshot. *)
<1>OriginWriteStep. CASE OriginWrite
  <2> USE <1>OriginWriteStep
  <2>1. TypeOK'
    BY Zenon DEF IInv, TypeOK, OriginWrite, peers, ovars, rvars, net, counts
  <2>2. Phases(clean)'
    BY Unaffected, SameView, Zenon DEF OriginWrite
  <2> QED BY <2>1, <2>2, Zenon

(* A step that changes nothing. *)
<1>StutterStep. CASE UNCHANGED vars
  <2> USE <1>StutterStep
  <2>1. TypeOK'
    <3>1. /\ UNCHANGED <<dbs, peers>> /\ UNCHANGED ovars /\ UNCHANGED rvars
          /\ UNCHANGED net /\ UNCHANGED counts
      BY Zenon DEF vars
    <3> QED BY <3>1, TypedWhole, TypedStays, Zenon DEF IInv
  <2>2. Phases(clean)'
    BY Unaffected, SameView, Zenon DEF vars, dbs
  <2> QED BY <2>1, <2>2, Zenon

(* A retry starts from the file the last session left. *)
<1>NextSessionStep. CASE NextSession
  <2> USE <1>NextSessionStep
  <2>1. \A S : NoPages \in PageMap(S)
    BY NoPagesTyped, Zenon
  <2>2. TypeOK'
    <3>1. CountsTyped'
      <4>1. sessions < MaxSessions /\ sessions' = sessions + 1 /\ faults' = faults
        BY Zenon DEF NextSession
      <4>2. CountsTyped
        BY TypedParts, Zenon DEF IInv
      <4> QED BY <4>1, <4>2, SizesAssumption DEF CountsTyped
    <3>2. opc' = "idle" /\ oalg' = 0 /\ oneed' = {} /\ oack' = {}
      BY Zenon DEF NextSession
    <3>3. OriginTyped'
      BY <3>2 DEF OriginTyped
    <3>4. /\ rpc' = "idle" /\ rhash' = NoPages /\ ralg' = 0 /\ rneed' = {}
          /\ rpend' = NoPages /\ racked' = {}
      BY Zenon DEF NextSession
    <3>5. ReplicaTyped'
      BY <2>1, <3>4 DEF ReplicaTyped
    <3>6. toReplica' = <<>> /\ link' = "up" /\ UNCHANGED <<dbs, peers>>
      BY Zenon DEF NextSession
    <3>7. NetTyped'
      BY <3>6 DEF NetTyped
    <3> QED BY <3>1, <3>3, <3>5, <3>6, <3>7, TypedWhole, TypedStays, Zenon DEF IInv
  <2>3. Phases(clean)'
    BY Zenon DEF NextSession, Phases, HelloPhase
  <2> QED BY <2>2, <2>3, Zenon

<1>1. CASE LocalFails \/ StallTimeout
  BY <1>1, <1>LocalEndsStep, Zenon DEF LocalFails, StallTimeout
<1> QED BY <1>1, <1>OriginFailsStep, <1>LinkDownStep, <1>OriginWriteStep, <1>NextSessionStep,
           <1>StutterStep, Zenon

-----------------------------------------------------------------------------
(* The replica handler *)

(* After a write the rest is still sound to write, and a clean session's file
   has no hole. *)
LEMMA SoundWrite ==
  ASSUME NEW clean \in BOOLEAN, IInv(clean), ReplicaWrite
  PROVE  Sound(clean, rpend)' /\ FileOK(clean)'
(* Written from the least one on, the pages make no hole. *)
<1>WriteFills.
    ASSUME NEW P, NEW Q, NEW p, DOMAIN P \subseteq 1..MaxPages, DOMAIN P # {},
           p = Least(DOMAIN P),
           Fills(P), NoHole,
           file' = write_page(file, p, P[p]),
           Q = [q \in DOMAIN P \ {p} |-> P[q]]
    PROVE  NoHole' /\ Fills(Q)'
  <2> USE <1>WriteFills
  <2>1. DOMAIN P \subseteq Nat
    BY SizesAssumption
  <2>2. p \in DOMAIN P /\ \A q \in DOMAIN P : p <= q
    BY <2>1, LeastIn, Zenon
  <2>3. DOMAIN file' = DOMAIN file \cup {p} /\ DOMAIN Q = DOMAIN P \ {p}
    BY Zenon DEF write_page
  <2>4. \A q \in 1..p : q = p \/ q \in DOMAIN file
    BY <2>1, <2>2 DEF Fills
  <2>5. NoHole'
    BY <2>3, <2>4, Zenon DEF NoHole
  <2>6. Fills(Q)'
    BY <2>3, Zenon DEF Fills
  <2> QED BY <2>5, <2>6, Zenon

<1>p. PICK p : p = Least(DOMAIN rpend)
  BY Zenon
<1>q. PICK Q : Q = [q \in DOMAIN rpend \ {p} |-> rpend[q]]
  BY Zenon
<1>r. PICK P : P = rpend
  BY Zenon
<1>1. /\ rpend' = Q /\ file' = write_page(file, p, P[p])
      /\ wal' = wal /\ snap' = snap /\ DOMAIN P # {}
  BY <1>p, <1>q, <1>r, Zenon DEF ReplicaWrite
<1>2. Sound(clean, P)
  BY <1>r, WritesAreSound, Zenon DEF ReplicaWrite
<1>3. DOMAIN P \subseteq 1..MaxPages
  BY <1>r, PageMapIs, Zenon DEF IInv, TypeOK
<1>4. OfSnapshot(Q)'
  BY <1>1, <1>2, <1>q, <1>r, Zenon DEF Sound, OfSnapshot
<1>5. clean => NoHole' /\ Fills(Q)'
  <2>1. clean => Fills(P) /\ NoHole
    BY <1>2, Zenon DEF Sound, IInv, FileOK
  <2> QED BY <1>1, <1>3, <1>p, <1>q, <1>r, <2>1, <1>WriteFills, Zenon
<1>6. WalOK'
  <2>1. DOMAIN file' = DOMAIN file \cup {p}
    BY <1>1, Zenon DEF write_page
  <2> QED BY <1>1, <2>1, Zenon DEF WalOK, IInv, FileOK
<1>7. FileOK(clean)'
  BY <1>1, <1>5, <1>6, Zenon DEF FileOK, IInv
<1> QED BY <1>1, <1>4, <1>5, <1>7, Zenon DEF Sound

(* Writing one page. *)
LEMMA ReplicaWriteStep ==
  ASSUME NEW clean \in BOOLEAN, IInv(clean), ReplicaWrite PROVE TypeOK' /\ Phases(clean)'
(* Each page write keeps what is left to write enough for its group, the
   other groups as they are, and the replica's hashes of them current. *)
<1>WriteOne.
    ASSUME NEW P, NEW Q, NEW g, NEW p \in DOMAIN P,
           OfGroup(P, g),
           file' = write_page(file, p, P[p]),
           Q = [q \in DOMAIN P \ {p} |-> P[q]],
           snap' = snap
    PROVE  /\ OfGroup(Q, g)'
           /\ Completes(P, g) => Completes(Q, g)'
           /\ \A h : h # g /\ GroupSynced(h) => GroupSynced(h)'
  <2> USE <1>WriteOne
  <2>1. P[p] = snap[p] /\ p \in DOMAIN snap /\ GroupOf(p) = g
    BY Zenon DEF OfGroup, OfSnapshot
  <2>2. DOMAIN file' = DOMAIN file \cup {p} /\ file'[p] = snap[p]
    BY <2>1, Zenon DEF write_page
  <2>3. \A q \in DOMAIN file : q # p => file'[q] = file[q]
    BY Zenon DEF write_page
  <2>4. \A q : q # p /\ PageSynced(q) => PageSynced(q)'
    BY <2>2, <2>3, Zenon DEF PageSynced
  <2>5. PageSynced(p)'
    BY <2>1, <2>2, Zenon DEF PageSynced
  <2>6. ASSUME Completes(P, g) PROVE Completes(Q, g)'
    <3>1. ASSUME NEW q \in DOMAIN file' \cup DOMAIN snap', GroupOf(q) = g
          PROVE  q \in DOMAIN Q \/ PageSynced(q)'
      BY <2>2, <2>4, <2>5, <2>6, <3>1, Zenon DEF Completes
    <3> QED BY <3>1, Zenon DEF Completes
  <2>7. ASSUME NEW h, h # g, GroupSynced(h) PROVE GroupSynced(h)'
    BY <2>1, <2>2, <2>4, <2>7, Zenon DEF GroupSynced
  <2>8. OfGroup(Q, g)'
    BY Zenon DEF OfGroup, OfSnapshot
  <2> QED BY <2>6, <2>7, <2>8, Zenon

(* A page write leaves the hashes of the other groups alone... *)
<1>WriteKeepsHashes.
    ASSUME WalOK, NEW p, NEW c, NEW h, h # GroupOf(p),
           file' = write_page(file, p, c), wal' = wal, oalg' = oalg
    PROVE  hash_group_for(oalg, View, h)' = hash_group_for(oalg, View, h)
  <2> USE <1>WriteKeepsHashes
  <2>1. PagesIn(View, h)' = PagesIn(View, h)
    BY Zenon DEF PagesIn, View, write_page
  <2>2. \A q \in PagesIn(View, h) : View'[q] = View[q]
    <3>1. CASE wal = NoWal
      BY <3>1, Zenon DEF PagesIn, View, write_page
    <3>2. CASE wal # NoWal
      <4>1. \A q \in PagesIn(View, h) : q # p /\ q \in 1..wal.size
        BY <3>2, Zenon DEF PagesIn, View
      <4>2. \A q \in DOMAIN file : q # p => file'[q] = file[q]
        BY Zenon DEF write_page
      <4> QED BY <3>2, <4>1, <4>2, Zenon DEF View, WalOK
    <3> QED BY <3>1, <3>2, Zenon
  <2> QED BY <2>1, <2>2, Zenon DEF hash_group_for, hash_page_for

(* ... and so the page hashes the replica computed once, at the start, are
   still current for the groups it has not written. *)
<1>WriteKeepsCurrent.
    ASSUME WalOK, NEW p, NEW c, NEW G, GroupOf(p) \notin G, HashesCurrent(G),
           file' = write_page(file, p, c), wal' = wal, oalg' = oalg, rhash' = rhash
    PROVE  HashesCurrent(G)'
  <2> USE <1>WriteKeepsCurrent
  <2>1. ASSUME NEW h \in G
        PROVE  [q \in PagesIn(rhash, h)' |-> rhash'[q]] = hash_group_for(oalg, View, h)'
    <3>1. hash_group_for(oalg, View, h)' = hash_group_for(oalg, View, h)
      BY <1>WriteKeepsHashes, Zenon
    <3>2. [q \in PagesIn(rhash, h) |-> rhash[q]] = hash_group_for(oalg, View, h)
      BY Zenon DEF HashesCurrent
    <3>3. PagesIn(rhash, h)' = PagesIn(rhash, h)
      BY Zenon DEF PagesIn
    <3> QED BY <3>1, <3>2, <3>3, Zenon
  <2> QED BY <2>1, Zenon DEF HashesCurrent

<1> USE DEF IInv, peers, ovars, net, counts
<1>0. PICK p : p = Least(DOMAIN rpend)
  BY Zenon
<1>1. /\ rpc = "write" /\ rpc' = "write"
      /\ file' = write_page(file, p, rpend[p])
      /\ racked' = racked \cup {p}
      /\ rpend' = [q \in DOMAIN rpend \ {p} |-> rpend[q]]
  BY <1>0, Zenon DEF ReplicaWrite
<1>2. p \in DOMAIN rpend /\ p \in 1..MaxPages /\ rpend[p] \in Content
  <2>1. DOMAIN rpend \subseteq 1..MaxPages /\ rpend \in [DOMAIN rpend -> Content]
    BY PageMapIs, Zenon DEF TypeOK
  <2>2. DOMAIN rpend \subseteq Nat /\ DOMAIN rpend # {}
    BY <2>1, SizesAssumption DEF ReplicaWrite
  <2>3. p \in DOMAIN rpend
    BY <1>0, <2>2, LeastIn, Zenon
  <2> QED BY <2>1, <2>3, Zenon
<1>3. TypeOK'
  <2>1. file' \in PageMap(Content)
    <3>1. DOMAIN file \subseteq 1..MaxPages /\ file \in [DOMAIN file -> Content]
      BY PageMapIs, Zenon DEF TypeOK
    <3>2. DOMAIN file' = DOMAIN file \cup {p} /\ file' \in [DOMAIN file \cup {p} -> Content]
      BY <1>1, <1>2, <3>1, Zenon DEF write_page
    <3> QED BY <1>2, <3>1, <3>2, PageMapIs, Zenon
  <2>2. rpend' \in PageMap(Content)
    <3>1. DOMAIN rpend \subseteq 1..MaxPages /\ rpend \in [DOMAIN rpend -> Content]
      BY PageMapIs, Zenon DEF TypeOK
    <3>2. DOMAIN rpend' = DOMAIN rpend \ {p} /\ rpend' \in [DOMAIN rpend \ {p} -> Content]
      BY <1>1, <3>1, Zenon
    <3> QED BY <3>1, <3>2, PageMapIs, Zenon
  <2> QED BY <1>1, <1>2, <2>1, <2>2, Zenon DEF TypeOK, ReplicaWrite
<1>4. opc \in {"ack", "err", "panic"}
  BY <1>1, Zenon DEF TypeOK, Phases, HelloPhase, GroupsPhase, PagesPhase, OkPhase
<1>5. CASE opc = "ack"
  <2>g. PICK g : g = Least(oneed)
    BY Zenon
  <2>r. PICK rest : rest = oneed \ {g}
    BY Zenon
  <2>1. AckPhase(clean)
    BY <1>5, Zenon DEF Phases
  <2>2. PagesWriting(clean, g)
    BY <1>1, <2>1, <2>g, Zenon DEF AckPhase, PagesSent, PagesAcked, ReplicaGone
  <2>3. /\ toOrigin = <<>> /\ toReplica = <<>>
        /\ OfGroup(rpend, g) /\ (clean => Completes(rpend, g))
        /\ racked \cup DOMAIN rpend = oack /\ rneed = oneed /\ HashesCurrent(rest)
    BY <2>2, <2>r, Zenon DEF PagesWriting
  <2>4. GroupOf(p) = g
    BY <1>2, <2>3, Zenon DEF OfGroup
  <2>5. PICK Q : Q = [q \in DOMAIN rpend \ {p} |-> rpend[q]]
    BY Zenon
  <2>6. /\ OfGroup(Q, g)' /\ (clean => Completes(Q, g)')
        /\ \A h : h # g /\ GroupSynced(h) => GroupSynced(h)'
    <3>1. snap' = snap
      BY Zenon DEF ReplicaWrite
    <3>2. PICK P : P = rpend
      BY Zenon
    <3> QED BY <1>1, <1>2, <2>3, <2>5, <3>1, <3>2, <1>WriteOne, Zenon
  <2>7. HashesCurrent(rest)'
    <3>1. GroupOf(p) \notin rest
      BY <2>4, <2>r, Zenon
    <3>2. oalg' = oalg /\ rhash' = rhash /\ wal' = wal /\ WalOK
      BY Zenon DEF ReplicaWrite, FileOK
    <3>3. PICK c : c = rpend[p]
      BY Zenon
    <3> QED BY <1>1, <2>3, <3>1, <3>2, <3>3, <1>WriteKeepsCurrent, Zenon
  <2>8. g \in oneed
    BY <2>1, <2>g, LeastIn, GroupsNat, Zenon DEF AckPhase, TypeOK
  <2>9. clean => OthersSynced'
    BY <2>1, <2>6, <2>8, Zenon DEF AckPhase, OthersSynced, ReplicaWrite
  <2>10. racked' \cup DOMAIN rpend' = oack'
    BY <1>1, <1>2, <2>3, Zenon DEF ReplicaWrite
  <2>11. PagesWriting(clean, g)'
    BY <1>1, <2>3, <2>5, <2>6, <2>7, <2>10, <2>r, Zenon DEF PagesWriting, ReplicaWrite
  <2>12. AckPhase(clean)'
    BY <2>1, <2>9, <2>11, <2>g, Zenon DEF AckPhase, ReplicaWrite
  <2> QED BY <1>3, <1>5, <2>3, <2>12, Zenon DEF Phases, ReplicaWrite
<1>6. CASE opc \in {"err", "panic"}
  <2>1. FailedPhase(clean)
    BY <1>6, Zenon DEF Phases
  <2>2. toReplica # <<>> => toReplica = <<Head(toReplica)>> /\ Head(toReplica).type = "Error"
    BY <1>1, <2>1, Zenon DEF FailedPhase, InTurn, ReplicaEnded
  <2>3. Sound(clean, rpend)'
    BY SoundWrite, Zenon
  <2>4. toReplica' = toReplica
    BY Zenon DEF ReplicaWrite
  <2>5. FailedPhase(clean)'
    BY <1>1, <2>2, <2>3, <2>4, Zenon DEF FailedPhase, InTurn
  <2> QED BY <1>3, <1>6, <2>5, Zenon DEF Phases, ReplicaWrite
<1> QED BY <1>4, <1>5, <1>6, Zenon

-----------------------------------------------------------------------------
(* Faults, the environment and the sessions *)

(* The steps of the replica handler but for a page write, and its errors. *)
LEMMA ReplicaSteps ==
  ASSUME NEW clean \in BOOLEAN, IInv(clean), ReplicaFails \/ (ReplicaStep /\ ~ReplicaWrite)
  PROVE  TypeOK' /\ Phases(clean)'
(* Nothing left to write: the group is synced. *)
<1>NothingLeft.
    ASSUME NEW P, NEW g, Completes(P, g), DOMAIN P = {}
    PROVE  GroupSynced(g)
  BY <1>NothingLeft, Zenon DEF Completes, GroupSynced

(* What a failed origin left still fits when the replica reads it, or moves
   without waiting for a message. *)
<1>StillFailed.
    ASSUME opc \in {"err", "panic"},
           UNCHANGED <<snap, file, rpend, offered>>,
           rpc' \notin {"ok", "write"},
           \/ toReplica # <<>> /\ toReplica' = Tail(toReplica)
           \/ toReplica' = toReplica /\ rpc \in {"idle", "next", "write"}
    PROVE  FailedPhase(clean)'
  <2> USE <1>StillFailed
  <2>1. FailedPhase(clean)
    BY Zenon DEF IInv, Phases
  <2>2. CASE toReplica # <<>> /\ toReplica' = Tail(toReplica)
    <3>1. toReplica' = <<>>
      BY <2>1, <2>2, OneMessage, Zenon DEF FailedPhase
    <3> QED BY <3>1, Zenon DEF FailedPhase
  <2>3. CASE toReplica' = toReplica /\ rpc \in {"idle", "next", "write"}
    <3>1. toReplica # <<>> => toReplica = <<Head(toReplica)>> /\ Head(toReplica).type = "Error"
      BY <2>1, <2>3, Zenon DEF FailedPhase, InTurn, ReplicaEnded
    <3> QED BY <2>3, <3>1, Zenon DEF FailedPhase, InTurn
  <2> QED BY <2>2, <2>3, Zenon

(* What is left of a typed channel is typed. *)
<1>TypedTail.
    ASSUME TypeOK, toReplica # <<>>
    PROVE  Head(toReplica) \in FromOrigin /\ Tail(toReplica) \in Seq(FromOrigin)
  BY <1>TypedTail DEF TypeOK

(* Sending Hello. *)
<1>ReplicaHelloStep. CASE ReplicaHello
  <2> USE <1>ReplicaHelloStep
  <2> USE DEF IInv, ReplicaHello, ReplicaSends, dbs, peers, ovars, counts
  <2>1. TypeOK'
    BY Zenon DEF TypeOK
  <2>2. opc \in {"idle", "hello", "err", "panic"}
    BY Zenon DEF TypeOK, Phases, GroupsPhase, PagesPhase, AckPhase, PagesSent, PagesWriting,
           PagesAcked, ReplicaGone, OkPhase
  <2>3. CASE opc \in {"idle", "hello"}
    <3>1. HelloPhase /\ toOrigin = <<>>
      BY <2>3, Zenon DEF Phases, HelloPhase
    <3>2. toOrigin' = <<[type |-> "Hello", version |-> offered, size |-> rsize]>>
      BY <3>1, OneMessage, Zenon
    <3>3. HelloPhase'
      BY <3>1, <3>2, Zenon DEF HelloPhase
    <3> QED BY <2>1, <2>3, <3>3, Zenon DEF Phases
  <2>4. CASE opc \in {"err", "panic"}
    BY <2>1, <2>4, <1>StillFailed, Zenon DEF Phases
  <2> QED BY <2>2, <2>3, <2>4, Zenon

(* HelloAck: the replica hashes its pages and sends the groups. *)
<1>ReplicaGroupsStep. CASE ReplicaGroups
  <2> USE <1>ReplicaGroupsStep
  <2> USE DEF IInv, dbs, peers, ovars, counts
  <2>0. PICK alg : alg = Head(toReplica).version
    BY Zenon
  <2>1. toReplica # <<>> /\ Head(toReplica).type = "HelloAck" /\ rpc = "hello" /\ link = "up"
    BY Zenon DEF ReplicaGroups, ReplicaGets
  <2>2. alg \in 1..2
    BY <2>0, <2>1, <1>TypedTail, Zenon DEF FromOrigin
  <2>3. View' = View
    BY SameView, Zenon DEF ReplicaGroups
  <2>4. rhash' = [p \in DOMAIN View |-> hash_page_for(alg, View[p])]
    BY <2>0, Zenon DEF ReplicaGroups, AllPageHashes
  <2>5. rhash' \in PageMap(Hashes)
    <3>1. DOMAIN View \subseteq 1..MaxPages /\ View \in [DOMAIN View -> Content]
      BY PageMapIs, ViewIs, Zenon DEF FileOK
    <3>2. \A p \in DOMAIN View : hash_page_for(alg, View[p]) \in Hashes
      BY <2>2, <3>1 DEF Hashes
    <3>3. DOMAIN rhash' = DOMAIN View /\ rhash' \in [DOMAIN View -> Hashes]
      BY <2>4, <3>2, Zenon
    <3> QED BY <3>1, <3>3, PageMapIs, Zenon
  <2>6. TypeOK'
    <3>1. ReplicaTyped'
      BY <2>0, <2>2, <2>5, TypedParts DEF ReplicaTyped, ReplicaGroups
    <3>2. NetTyped'
      BY <2>1, <1>TypedTail, TypedParts, Zenon DEF NetTyped, ReplicaGroups
    <3>3. UNCHANGED <<dbs, peers>> /\ UNCHANGED ovars /\ UNCHANGED counts
      BY Zenon DEF ReplicaGroups
    <3> QED BY <3>1, <3>2, <3>3, TypedWhole, TypedStays, Zenon
  <2>7. opc \in {"groups", "err", "panic"}
    BY <2>1, OneMessage, Zenon DEF TypeOK, Phases, HelloPhase, PagesPhase, AckPhase, PagesSent,
         PagesWriting, PagesAcked, ReplicaGone, OkPhase
  <2>8. CASE opc = "groups"
    <3>1. GroupsPhase
      BY <2>8, Zenon DEF Phases
    <3>2. toReplica' = <<>> /\ alg = oalg /\ toOrigin = <<>>
      <4>1. toReplica = <<[type |-> "HelloAck", version |-> oalg]>> /\ toOrigin = <<>>
        BY <2>1, <3>1, Zenon DEF GroupsPhase
      <4>2. Head(toReplica) = [type |-> "HelloAck", version |-> oalg]
        BY <4>1, OneMessage, Zenon
      <4> QED BY <2>0, <4>1, <4>2, OneMessage DEF ReplicaGroups
    <3>3. toOrigin' = <<GroupHashesMsg>>
      BY <2>0, <3>2, OneMessage, Zenon DEF ReplicaGroups, GroupHashesMsg
    <3>4. HashesCurrent(Groups)'
      <4>1. ASSUME NEW g \in Groups
            PROVE  [p \in PagesIn(rhash', g) |-> rhash'[p]] = hash_group_for(oalg, View, g)
        <5>1. PagesIn(rhash', g) = PagesIn(View, g)
          BY <2>4, Zenon DEF PagesIn
        <5>2. \A p \in PagesIn(View, g) : rhash'[p] = hash_page_for(oalg, View[p])
          BY <2>4, <3>2, Zenon DEF PagesIn
        <5> QED BY <5>1, <5>2, Zenon DEF hash_group_for
      <4>2. \A g : PagesIn(rhash, g)' = PagesIn(rhash', g)
        BY Zenon DEF PagesIn
      <4> QED BY <2>3, <4>1, <4>2, SameHashes, Zenon DEF HashesCurrent, ReplicaGroups
    <3>5. GroupHashesMsg' = GroupHashesMsg /\ oalg \in 1..offered
      BY <2>3, <3>1, SameGroupHashes, Zenon DEF ReplicaGroups, GroupsPhase
    <3>6. GroupsPhase'
      BY <3>2, <3>3, <3>4, <3>5, OneMessage, Zenon DEF GroupsPhase, ReplicaGroups
    <3> QED BY <2>1, <2>6, <2>8, <3>6, Zenon DEF Phases, ReplicaGroups
  <2>9. CASE opc \in {"err", "panic"}
    BY <2>1, <2>6, <2>9, <1>StillFailed, Zenon DEF Phases, ReplicaGroups
  <2> QED BY <2>7, <2>8, <2>9, Zenon

(* GroupsNeedFine: the list of the fine pass, or the end. *)
<1>ReplicaNeedStep. CASE ReplicaNeed
  <2> USE <1>ReplicaNeedStep
  <2> USE DEF IInv, dbs, peers, ovars, counts
  <2>1. toReplica # <<>> /\ Head(toReplica).type = "GroupsNeedFine" /\ rpc = "need" /\ link = "up"
    BY Zenon DEF ReplicaNeed, ReplicaGets, Phases, TypeOK
  <2>2. Head(toReplica).groups \subseteq Groups
    BY <2>1, <1>TypedTail, Zenon DEF FromOrigin
  <2>3. TypeOK'
    <3>1. ReplicaTyped'
      BY <2>2, TypedParts, Zenon DEF ReplicaTyped, ReplicaNeed
    <3>2. NetTyped'
      BY <2>1, <1>TypedTail, TypedParts, Zenon DEF NetTyped, ReplicaNeed
    <3>3. UNCHANGED <<dbs, peers>> /\ UNCHANGED ovars /\ UNCHANGED counts
      BY Zenon DEF ReplicaNeed
    <3> QED BY <3>1, <3>2, <3>3, TypedWhole, TypedStays, Zenon
  <2>v. View' = View
    BY SameView, Zenon DEF ReplicaNeed
  <2>4. opc \in {"pages", "ok", "err", "panic"}
    BY <2>1, Zenon DEF TypeOK, Phases, HelloPhase, GroupsPhase, AckPhase, PagesSent,
         PagesWriting, PagesAcked, ReplicaGone
  <2>5. CASE opc = "pages"
    <3>1. PagesPhase(clean)
      BY <2>5, Zenon DEF Phases
    <3>2. toReplica = <<NeedMsg(oneed)>> /\ toOrigin = <<>> /\ HashesCurrent(Groups)
      BY <2>1, <3>1, Zenon DEF PagesPhase
    <3>3. Head(toReplica) = NeedMsg(oneed)
      BY <3>2, OneMessage, Zenon
    <3>4. rneed' = oneed /\ rpc' = "next" /\ toReplica' = <<>>
      BY <3>1, <3>2, <3>3, OneMessage DEF ReplicaNeed, PagesPhase, NeedMsg
    <3>5. HashesCurrent(oneed)
      BY <3>2, Zenon DEF HashesCurrent, TypeOK
    <3>6. HashesCurrent(oneed)'
      BY <2>v, <3>5, SameCurrent, Zenon DEF ReplicaNeed
    <3>7. PagesPhase(clean)'
      BY <3>1, <3>2, <3>4, <3>6, SameOthers, Zenon DEF PagesPhase, ReplicaNeed
    <3> QED BY <2>1, <2>3, <2>5, <3>7, Zenon DEF Phases, ReplicaNeed
  <2>6. CASE opc = "ok"
    <3>1. OkPhase(clean)
      BY <2>6, Zenon DEF Phases
    <3>2. toReplica = <<NeedMsg({}), DoneMsg>>
      BY <2>1, <3>1, Zenon DEF OkPhase
    <3>3. Head(toReplica) = NeedMsg({}) /\ Tail(toReplica) = <<DoneMsg>>
      BY <3>2, TwoMessages, Zenon
    <3>4. rpc' = "done" /\ toReplica' = <<DoneMsg>>
      BY <3>3 DEF ReplicaNeed, NeedMsg
    <3>5. OkPhase(clean)'
      BY <3>1, <3>4, TwoMessages, Zenon DEF OkPhase, ReplicaNeed
    <3> QED BY <2>1, <2>3, <2>6, <3>5, Zenon DEF Phases, ReplicaNeed
  <2>7. CASE opc \in {"err", "panic"}
    BY <2>1, <2>3, <2>7, <1>StillFailed, Zenon DEF Phases, ReplicaNeed
  <2> QED BY <2>4, <2>5, <2>6, <2>7, Zenon

(* A message the replica does not expect, or an Error. *)
<1>ReplicaErrorStep. CASE ReplicaError
  <2> USE <1>ReplicaErrorStep
  <2> USE DEF IInv, dbs, peers, ovars, counts
  <2>1. toReplica # <<>> /\ Head(toReplica).type = "Error" /\ link = "up"
    BY Zenon DEF ReplicaError, ReplicaGets, Phases, TypeOK
  <2>2. TypeOK'
    <3>1. ReplicaTyped'
      BY TypedParts, Zenon DEF ReplicaTyped, ReplicaError
    <3>2. NetTyped'
      BY <2>1, <1>TypedTail, TypedParts, Zenon DEF NetTyped, ReplicaError
    <3>3. UNCHANGED <<dbs, peers>> /\ UNCHANGED ovars /\ UNCHANGED counts
      BY Zenon DEF ReplicaError
    <3> QED BY <3>1, <3>2, <3>3, TypedWhole, TypedStays, Zenon
  <2>3. opc \in {"err", "panic"}
    BY <2>1, FirstMessage, Zenon
  <2> QED BY <2>1, <2>2, <2>3, <1>StillFailed, Zenon DEF Phases, ReplicaError

(* Sending the page hashes of the next group. *)
<1>ReplicaPageHashesStep. CASE ReplicaPageHashes
  <2> USE <1>ReplicaPageHashesStep
  <2> USE DEF IInv, dbs, peers, ovars, counts
  <2>1. TypeOK'
    BY Zenon DEF TypeOK, ReplicaPageHashes, ReplicaSends
  <2>2. rpc = "next" /\ link = "up" /\ rpc' = "pages" /\ toReplica' = toReplica /\ link' = link
    BY Zenon DEF ReplicaPageHashes, ReplicaSends
  <2>3. ASSUME rneed # {}, HashesCurrent(rneed)
        PROVE  toOrigin' = Append(toOrigin, PageHashesMsg(Least(rneed)))
    <3>1. Least(rneed) \in rneed
      BY <2>3, LeastIn, GroupsNat, Zenon DEF TypeOK
    <3> QED BY <2>3, <3>1, Zenon DEF HashesCurrent, PageHashesMsg, ReplicaPageHashes, ReplicaSends
  <2>v. View' = View
    BY SameView, Zenon DEF ReplicaPageHashes
  <2>4. opc \in {"pages", "ack", "err", "panic"}
    BY <2>2, Zenon DEF TypeOK, Phases, HelloPhase, GroupsPhase, OkPhase
  <2>5. CASE opc = "pages"
    <3>1. PagesPhase(clean)
      BY <2>5, Zenon DEF Phases
    <3>2. /\ toOrigin = <<>> /\ toReplica = <<>>
          /\ rneed = oneed /\ HashesCurrent(oneed) /\ oneed # {}
      BY <2>2, <3>1, Zenon DEF PagesPhase
    <3>3. toOrigin' = <<PageHashesMsg(Least(oneed))>>
      BY <2>3, <3>2, OneMessage, Zenon
    <3>4. PageHashesMsg(Least(oneed))' = PageHashesMsg(Least(oneed)) /\ HashesCurrent(oneed)'
      BY <2>v, <3>2, SameHashes, SameCurrent, Zenon DEF ReplicaPageHashes
    <3>5. PagesPhase(clean)'
      BY <2>2, <3>1, <3>2, <3>3, <3>4, SameOthers, Zenon DEF PagesPhase, ReplicaPageHashes
    <3> QED BY <2>1, <2>2, <2>5, <3>5, Zenon DEF Phases, ReplicaPageHashes
  <2>6. CASE opc = "ack"
    <3>g. PICK g : g = Least(oneed)
      BY Zenon
    <3>r. PICK rest : rest = oneed \ {g}
      BY Zenon
    <3>1. AckPhase(clean)
      BY <2>6, Zenon DEF Phases
    <3>2. PagesAcked(clean, g, rest)
      BY <2>2, <3>1, <3>g, <3>r, Zenon DEF AckPhase, PagesSent, PagesWriting, ReplicaGone
    <3>3. /\ toOrigin = <<AckMsg>> /\ toReplica = <<>>
          /\ rneed = rest /\ HashesCurrent(rest) /\ rest # {} /\ (clean => GroupSynced(g))
      BY <2>2, <3>2, Zenon DEF PagesAcked
    <3>4. toOrigin' = <<AckMsg, PageHashesMsg(Least(rest))>>
      BY <2>3, <3>3, TwoMessages, Zenon
    <3>5. /\ PageHashesMsg(Least(rest))' = PageHashesMsg(Least(rest))
          /\ HashesCurrent(rest)' /\ (clean => GroupSynced(g)') /\ AckMsg' = AckMsg
      BY <2>v, <3>3, SameHashes, SameCurrent, SameSynced, Zenon DEF ReplicaPageHashes, AckMsg
    <3>6. PagesAcked(clean, g, rest)'
      BY <2>2, <3>3, <3>4, <3>5, Zenon DEF PagesAcked, ReplicaPageHashes
    <3>7. AckPhase(clean)'
      BY <3>1, <3>6, <3>g, <3>r, SameOthers, Zenon DEF AckPhase, ReplicaPageHashes
    <3> QED BY <2>1, <2>2, <2>6, <3>7, Zenon DEF Phases, ReplicaPageHashes
  <2>7. CASE opc \in {"err", "panic"}
    BY <2>1, <2>2, <2>7, <1>StillFailed, Zenon DEF Phases, ReplicaPageHashes
  <2> QED BY <2>4, <2>5, <2>6, <2>7, Zenon

(* SendPages: the pages are there to be written. *)
<1>ReplicaPagesStep. CASE ReplicaPages
  <2> USE <1>ReplicaPagesStep
  <2> USE DEF IInv, dbs, peers, ovars, counts
  <2>1. toReplica # <<>> /\ Head(toReplica).type = "SendPages" /\ rpc = "pages" /\ link = "up"
    BY Zenon DEF ReplicaPages, ReplicaGets, Phases, TypeOK
  <2>2. Head(toReplica).pages \in PageMap(Content)
    BY <2>1, <1>TypedTail, Zenon DEF FromOrigin
  <2>3. TypeOK'
    BY <2>1, <2>2, <1>TypedTail, Zenon DEF TypeOK, ReplicaPages
  <2>v. View' = View
    BY SameView, Zenon DEF ReplicaPages
  <2>4. opc \in {"ack", "err", "panic"}
    BY <2>1, Zenon DEF TypeOK, Phases, HelloPhase, GroupsPhase, PagesPhase, OkPhase
  <2>5. CASE opc = "ack"
    <3>g. PICK g : g = Least(oneed)
      BY Zenon
    <3>p. PICK P : P = Head(toReplica).pages
      BY Zenon
    <3>1. AckPhase(clean)
      BY <2>5, Zenon DEF Phases
    <3>2. PagesSent(clean, g)
      BY <2>1, <3>1, <3>g, Zenon DEF AckPhase, PagesWriting, PagesAcked, ReplicaGone
    <3>3. /\ toReplica = <<PagesMsg(P)>> /\ toOrigin = <<>>
          /\ OfGroup(P, g) /\ (clean => Completes(P, g))
          /\ DOMAIN P = oack /\ rneed = oneed /\ HashesCurrent(oneed \ {g})
      BY <2>1, <3>2, <3>p, Zenon DEF PagesSent
    <3>4. toReplica' = <<>> /\ rpend' = P /\ racked' = {}
      BY <3>3, <3>p, OneMessage, Zenon DEF ReplicaPages
    <3>5. OfGroup(P, g)' /\ (clean => Completes(P, g)')
      BY <3>3, SameCompletes, SameOfGroup, Zenon DEF ReplicaPages
    <3>6. HashesCurrent(oneed \ {g})'
      <4>1. PICK G : G = oneed \ {g}
        BY Zenon
      <4>2. HashesCurrent(G)'
        BY <2>v, <3>3, <4>1, SameCurrent, Zenon DEF ReplicaPages
      <4> QED BY <4>1, <4>2, Zenon DEF ReplicaPages
    <3>7. PagesWriting(clean, g)'
      BY <3>3, <3>4, <3>5, <3>6, Zenon DEF PagesWriting, ReplicaPages
    <3>8. AckPhase(clean)'
      BY <3>1, <3>7, <3>g, SameOthers, Zenon DEF AckPhase, ReplicaPages
    <3> QED BY <2>1, <2>3, <2>5, <3>8, Zenon DEF Phases, ReplicaPages
  <2>6. CASE opc \in {"err", "panic"}
    <3>1. FailedPhase(clean)
      BY <2>6, Zenon DEF Phases
    <3>p. PICK P : P = Head(toReplica).pages
      BY Zenon
    <3>2. Sound(clean, P) /\ Tail(toReplica) = <<>>
      BY <2>1, <3>1, <3>p, OneMessage, Zenon DEF FailedPhase, InTurn, ReplicaEnded
    <3>3. Sound(clean, P)'
      BY <3>2, SameSound, Zenon DEF ReplicaPages
    <3>4. toReplica' = <<>> /\ rpend' = P
      BY <3>2, <3>p, Zenon DEF ReplicaPages
    <3>5. FailedPhase(clean)'
      BY <3>3, <3>4, Zenon DEF FailedPhase, ReplicaPages
    <3> QED BY <2>1, <2>3, <2>6, <3>5, Zenon DEF Phases, ReplicaPages
  <2> QED BY <2>4, <2>5, <2>6, Zenon

(* Sending PagesAck. *)
<1>ReplicaAckStep. CASE ReplicaAck
  <2> USE <1>ReplicaAckStep
  <2> USE DEF IInv, dbs, peers, ovars, counts
  <2>1. /\ rpc = "write" /\ DOMAIN rpend = {} /\ link = "up" /\ link' = link
        /\ toReplica' = toReplica
        /\ toOrigin' = Append(toOrigin, [type |-> "PagesAck", pages |-> racked])
        /\ rneed' = rneed \ {Least(rneed)}
        /\ rpc' = IF rneed' = {} THEN "done" ELSE "next"
    BY Zenon DEF ReplicaAck, ReplicaSends
  <2>2. TypeOK'
    BY <2>1, Zenon DEF TypeOK, ReplicaAck
  <2>v. View' = View
    BY SameView, Zenon DEF ReplicaAck
  <2>3. opc \in {"ack", "err", "panic"}
    BY <2>1, Zenon DEF TypeOK, Phases, HelloPhase, GroupsPhase, PagesPhase, OkPhase
  <2>4. CASE opc = "ack"
    <3>g. PICK g : g = Least(oneed)
      BY Zenon
    <3>r. PICK rest : rest = oneed \ {g}
      BY Zenon
    <3>1. AckPhase(clean)
      BY <2>4, Zenon DEF Phases
    <3>2. PagesWriting(clean, g)
      BY <2>1, <3>1, <3>g, Zenon DEF AckPhase, PagesSent, PagesAcked, ReplicaGone
    <3>3. /\ toOrigin = <<>> /\ toReplica = <<>> /\ (clean => Completes(rpend, g))
          /\ racked = oack /\ rneed = oneed /\ HashesCurrent(rest)
      BY <2>1, <3>2, <3>r, Zenon DEF PagesWriting
    <3>4. toOrigin' = <<AckMsg>> /\ rneed' = rest
      BY <2>1, <3>3, <3>g, <3>r, OneMessage, Zenon DEF AckMsg
    <3>5. clean => GroupSynced(g)
      BY <2>1, <3>3, <1>NothingLeft, Zenon
    <3>6. (clean => GroupSynced(g)') /\ HashesCurrent(rest)' /\ AckMsg' = AckMsg
      BY <2>v, <3>3, <3>5, SameSynced, SameCurrent, Zenon DEF ReplicaAck, AckMsg
    <3>7. PagesAcked(clean, g, rest)'
      BY <2>1, <3>3, <3>4, <3>6, Zenon DEF PagesAcked
    <3>8. AckPhase(clean)'
      BY <3>1, <3>7, <3>g, <3>r, SameOthers, Zenon DEF AckPhase, ReplicaAck
    <3> QED BY <2>1, <2>2, <2>4, <3>8, Zenon DEF Phases, ReplicaAck
  <2>5. CASE opc \in {"err", "panic"}
    BY <2>1, <2>2, <2>5, <1>StillFailed, Zenon DEF Phases, ReplicaAck
  <2> QED BY <2>3, <2>4, <2>5, Zenon

(* Done: the replica returns Ok. *)
<1>ReplicaDoneStep. CASE ReplicaDone
  <2> USE <1>ReplicaDoneStep
  <2> USE DEF IInv, dbs, peers, ovars, counts
  <2>1. toReplica # <<>> /\ Head(toReplica).type = "Done" /\ rpc = "done" /\ link = "up"
    BY Zenon DEF ReplicaDone, ReplicaGets, Phases, TypeOK
  <2>2. TypeOK'
    BY <2>1, <1>TypedTail, Zenon DEF TypeOK, ReplicaDone
  <2>3. opc = "ok"
    <3>1. opc \notin {"idle", "hello", "groups", "pages"}
      BY <2>1, Zenon DEF Phases, HelloPhase, GroupsPhase, PagesPhase
    <3>2. opc # "ack"
      BY <2>1, Zenon DEF Phases, AckPhase, PagesSent, PagesWriting, PagesAcked, ReplicaGone
    <3>3. opc \notin {"err", "panic"}
      BY <2>1, Zenon DEF Phases, FailedPhase, InTurn, ReplicaEnded
    <3> QED BY <3>1, <3>2, <3>3, Zenon DEF TypeOK
  <2>4. OkPhase(clean)
    BY <2>3, Zenon DEF Phases
  <2>5. toReplica = <<DoneMsg>>
    BY <2>1, <2>4, Zenon DEF OkPhase
  <2>6. toReplica' = <<>> /\ rpc' = "ok"
    BY <2>5, OneMessage, Zenon DEF ReplicaDone
  <2>7. OkPhase(clean)'
    BY <2>4, <2>6, OneMessage, TwoMessages, Zenon DEF OkPhase, ReplicaDone
  <2> QED BY <2>1, <2>2, <2>3, <2>7, Zenon DEF Phases, ReplicaDone

(* The replica handler may end with an error at any moment. *)
<1>ReplicaStops.
    ASSUME rpc' = "err", UNCHANGED <<dbs, peers, ovars, net>>, rpend' = rpend
    PROVE  Phases(clean)'
  <2> USE <1>ReplicaStops
  <2> USE DEF IInv, dbs, peers, ovars, net
  <2>v. View' = View
    BY SameView, Zenon
  <2>1. CASE opc \in {"idle", "hello"}
    BY <2>1, Zenon DEF Phases, HelloPhase
  <2>2. CASE opc = "groups"
    <3>1. GroupHashesMsg' = GroupHashesMsg
      BY <2>v, SameGroupHashes, Zenon
    <3>2. GroupsPhase'
      BY <2>2, <3>1, Zenon DEF Phases, GroupsPhase
    <3> QED BY <2>2, <3>2, Zenon DEF Phases
  <2>3. CASE opc = "pages"
    <3>1. PageHashesMsg(Least(oneed))' = PageHashesMsg(Least(oneed))
      BY <2>v, SameHashes, Zenon
    <3>2. PagesPhase(clean)'
      BY <2>3, <3>1, SameOthers, Zenon DEF Phases, PagesPhase, NeedMsg
    <3> QED BY <2>3, <3>2, Zenon DEF Phases
  <2>4. CASE opc = "ack"
    <3>g. PICK g : g = Least(oneed)
      BY Zenon
    <3>r. PICK rest : rest = oneed \ {g}
      BY Zenon
    <3>1. AckPhase(clean) /\ oneed' = oneed
      BY <2>4, Zenon DEF Phases
    <3>2. ASSUME PagesSent(clean, g) PROVE AckPhase(clean)'
      <4>p. PICK P : P = Head(toReplica).pages
        BY Zenon
      <4>1. OfGroup(P, g)' /\ (clean => Completes(P, g)')
        BY <3>2, <4>p, SameCompletes, SameOfGroup, Zenon DEF PagesSent
      <4>2. PagesSent(clean, g)'
        BY <3>2, <4>p, <4>1, Zenon DEF PagesSent, PagesMsg
      <4> QED BY <3>1, <3>g, <4>2, SameOthers, Zenon DEF AckPhase
    <3>3. ASSUME PagesWriting(clean, g) \/ ReplicaGone PROVE AckPhase(clean)'
      <4>1. ReplicaGone'
        BY <3>3, Zenon DEF PagesWriting, ReplicaGone
      <4> QED BY <3>1, <4>1, SameOthers, Zenon DEF AckPhase
    <3>4. ASSUME PagesAcked(clean, g, rest) PROVE AckPhase(clean)'
      <4>1. /\ PageHashesMsg(Least(rest))' = PageHashesMsg(Least(rest))
            /\ AckMsg' = AckMsg /\ (clean => GroupSynced(g)')
        BY <2>v, <3>4, SameHashes, SameSynced, Zenon DEF AckMsg, PagesAcked
      <4>2. PagesAcked(clean, g, rest)'
        BY <3>4, <4>1, Zenon DEF PagesAcked
      <4> QED BY <3>1, <3>g, <3>r, <4>2, SameOthers, Zenon DEF AckPhase
    <3>5. AckPhase(clean)'
      BY <3>1, <3>2, <3>3, <3>4, <3>g, <3>r, Zenon DEF AckPhase
    <3> QED BY <2>4, <3>5, Zenon DEF Phases
  <2>5. CASE opc = "ok"
    BY <2>5, Zenon DEF Phases, OkPhase
  <2>6. CASE opc \in {"err", "panic"}
    <3>1. FailedPhase(clean)'
      BY <2>6, StillInTurn, Zenon DEF Phases
    <3> QED BY <2>6, <3>1, Zenon DEF Phases
  <2> QED BY <2>1, <2>2, <2>3, <2>4, <2>5, <2>6, Zenon DEF TypeOK

(* The origin's side is closed. *)
<1>ReplicaEofStep. CASE ReplicaEof
  <2> USE <1>ReplicaEofStep
  <2>1. TypeOK'
    <3>1. ReplicaTyped'
      BY TypedParts, Zenon DEF IInv, ReplicaTyped, ReplicaEof
    <3>2. UNCHANGED <<dbs, peers>> /\ UNCHANGED ovars /\ UNCHANGED net /\ UNCHANGED counts
      BY Zenon DEF ReplicaEof
    <3> QED BY <3>1, <3>2, TypedWhole, TypedStays, Zenon DEF IInv
  <2>2. Phases(clean)'
    BY <1>ReplicaStops, Zenon DEF ReplicaEof
  <2> QED BY <2>1, <2>2, Zenon

(* An I/O or SQLite error of the replica. *)
<1>ReplicaFailsStep. CASE ReplicaFails
  <2> USE <1>ReplicaFailsStep
  <2>1. TypeOK'
    <3>1. CountsTyped'
      BY FaultTyped, Zenon DEF IInv, ReplicaFails
    <3>2. ReplicaTyped'
      BY TypedParts, Zenon DEF IInv, ReplicaTyped, ReplicaFails
    <3>3. UNCHANGED <<dbs, peers>> /\ UNCHANGED ovars /\ UNCHANGED net
      BY Zenon DEF ReplicaFails
    <3> QED BY <3>1, <3>2, <3>3, TypedWhole, TypedStays, Zenon DEF IInv
  <2>2. Phases(clean)'
    BY <1>ReplicaStops, Zenon DEF ReplicaFails
  <2> QED BY <2>1, <2>2, Zenon

<1> QED BY <1>ReplicaHelloStep, <1>ReplicaGroupsStep, <1>ReplicaNeedStep, <1>ReplicaErrorStep,
           <1>ReplicaPageHashesStep, <1>ReplicaPagesStep, <1>ReplicaAckStep, <1>ReplicaDoneStep,
           <1>ReplicaEofStep, <1>ReplicaFailsStep, Zenon DEF ReplicaStep

(* The last connection to the replica moves the WAL frames into the file. *)
LEMMA ReplicaCloseStep ==
  ASSUME IInv(FALSE), ReplicaClose PROVE TypeOK' /\ WalOK' /\ NoHole' /\ Phases(FALSE)'
<1>1. /\ file' = View /\ wal' = NoWal /\ wal # NoWal
      /\ UNCHANGED <<origin, snap>> /\ UNCHANGED peers /\ UNCHANGED ovars
      /\ UNCHANGED rvars /\ UNCHANGED net /\ UNCHANGED counts
  BY Zenon DEF ReplicaClose
<1>v. View' = View
  BY <1>1, Zenon DEF View
<1>2. TypeOK'
  <2>1. View \in PageMap(Content)
    BY ViewIs, Zenon DEF IInv, FileOK
  <2>2. NoWal.size = 0 /\ NoWal.pages = NoPages
    BY Zenon DEF NoWal
  <2>3. wal'.size \in 0..MaxPages /\ wal'.pages \in PageMap(Content)
    BY <1>1, <2>2, NoPagesTyped, SizesAssumption
  <2>4. DbsTyped'
    BY <1>1, <2>1, <2>3, TypedParts, Zenon DEF IInv, DbsTyped, peers
  <2> QED BY <1>1, <2>4, TypedWhole, TypedStays, Zenon DEF IInv
<1>3. WalOK' /\ NoHole'
  <2>1. PICK n \in 0..MaxPages : n = wal.size
    BY Zenon DEF IInv, TypeOK
  <2>2. DOMAIN file' = 1..n
    BY <1>1, <2>1, ViewIs, Zenon
  <2>3. n \in Nat
    BY SizesAssumption
  <2>4. NoHole'
    BY <2>2, <2>3 DEF NoHole
  <2> QED BY <1>1, <2>4, Zenon DEF WalOK
<1>4. Phases(FALSE)'
  BY <1>1, <1>v, Unaffected, Zenon
<1> QED BY <1>2, <1>3, <1>4, Zenon

(* Nothing but a page write and the closing checkpoint reach the file, and
   only the checkpoint the frames. *)
LEMMA FileUntouched ==
  ASSUME Next, ~ReplicaWrite, ~ReplicaClose PROVE file' = file /\ wal' = wal
  BY Zenon DEF Next, OriginStep, ReplicaStep, Environment, OriginBegin, OriginHello,
     OriginGroups, OriginPages, OriginPanic, OriginAck, OriginEof, ReplicaHello, ReplicaGroups,
     ReplicaNeed, ReplicaError, ReplicaPageHashes, ReplicaPages, ReplicaAck, ReplicaDone,
     ReplicaEof, ReplicaFails, OriginFails, LinkDown, LocalFails, LocalEnds, OriginWrite,
     StallTimeout, NextSession, dbs

(* Every step of the system keeps the inductive invariant. *)
LEMMA NextInv ==
  ASSUME NEW clean \in BOOLEAN, IInv(clean), [Next]_vars PROVE IInv(clean)'
<1>1. CASE ReplicaClose
  <2>1. clean = FALSE
    BY <1>1, Zenon DEF IInv, FileOK, ReplicaClose
  <2>2. TypeOK' /\ WalOK' /\ Phases(FALSE)'
    BY <1>1, <2>1, ReplicaCloseStep, Zenon
  <2> QED BY <2>1, <2>2, Zenon DEF IInv, FileOK
<1>2. CASE ReplicaWrite
  BY <1>2, ReplicaWriteStep, SoundWrite, Zenon DEF IInv
<1>3. CASE UNCHANGED vars \/ (Next /\ ~ReplicaWrite /\ ~ReplicaClose)
  <2>1. file' = file /\ wal' = wal
    BY <1>3, FileUntouched, Zenon DEF vars, dbs
  <2>2. FileOK(clean)'
    BY <2>1, Zenon DEF IInv, FileOK, WalOK, NoHole
  <2>3. TypeOK' /\ Phases(clean)'
    <3>1. CASE OriginStep
      BY <3>1, OriginSteps, Zenon
    <3>2. CASE ReplicaFails \/ (ReplicaStep /\ ~ReplicaWrite)
      BY <3>2, ReplicaSteps, Zenon
    <3>3. CASE OriginFails \/ LinkDown \/ LocalFails \/ StallTimeout \/ OriginWrite \/ NextSession
                 \/ UNCHANGED vars
      BY <3>3, SurroundingSteps, Zenon
    <3> QED BY <1>3, <3>1, <3>2, <3>3, Zenon DEF Next, Environment
  <2> QED BY <2>2, <2>3, Zenon DEF IInv
<1> QED BY <1>1, <1>2, <1>3, Zenon

-----------------------------------------------------------------------------
(* The theorems *)

(* In a clean session, a side that has returned Ok stands before a replica
   that is the snapshot. *)
LEMMA InvImpliesSynced == ASSUME IInv(TRUE) PROVE SyncedIsSnapshot
<1> SUFFICES ASSUME opc = "ok" \/ rpc = "ok" PROVE View = snap
  BY Zenon DEF SyncedIsSnapshot
<1>1. opc = "ok"
  BY Zenon DEF IInv, TypeOK, Phases, HelloPhase, GroupsPhase, PagesPhase, AckPhase, PagesSent,
         PagesWriting, PagesAcked, ReplicaGone, FailedPhase
<1> QED BY <1>1, ViewIs, Zenon DEF IInv, FileOK, Phases, OkPhase

(* The inductive invariant of a clean session: from the answer to the coarse
   pass on, only the groups the fine pass still has to do can differ from the
   snapshot. *)
THEOREM CleanStartSyncInv == Spec /\ wal = NoWal => []SyncInv
<1>1. Init /\ wal = NoWal => IInv(TRUE)
  BY InitInv, Zenon
<1>2. IInv(TRUE) /\ [Next]_vars => IInv(TRUE)'
  BY NextInv, Zenon
<1>3. IInv(TRUE) => SyncInv
  BY Zenon DEF IInv, SyncInv
<1> QED BY <1>1, <1>2, <1>3, PTL DEF Spec

(* Started on a replica without WAL frames, the protocol reports Ok only when
   the replica is the snapshot, for every size, every number of sessions and
   faults, whatever the origin's writers do, pages dropped included. *)
THEOREM CleanStartSynced == Spec /\ wal = NoWal => []SyncedIsSnapshot
<1>1. Init /\ wal = NoWal => IInv(TRUE)
  BY InitInv, Zenon
<1>2. IInv(TRUE) /\ [Next]_vars => IInv(TRUE)'
  BY NextInv, Zenon
<1>3. IInv(TRUE) => SyncedIsSnapshot
  BY InvImpliesSynced, Zenon
<1> QED BY <1>1, <1>2, <1>3, PTL DEF Spec

(* From every start, WAL frames or not, the handlers, the files and the
   channels hold what their types say. *)
THEOREM AlwaysTyped == Spec => []TypeOK
<1>1. Init => IInv(FALSE)
  BY InitInv, Zenon
<1>2. IInv(FALSE) /\ [Next]_vars => IInv(FALSE)'
  BY NextInv, Zenon
<1>3. IInv(FALSE) => TypeOK
  BY Zenon DEF IInv
<1> QED BY <1>1, <1>2, <1>3, PTL DEF Spec

-----------------------------------------------------------------------------
(* The pages that reach the replica *)

(* A page written to the replica is a page of the snapshot. *)
LEMMA WritesSnapshot ==
  ASSUME NEW clean \in BOOLEAN, IInv(clean), ReplicaWrite
  PROVE  \E p \in DOMAIN snap :
           file' = [q \in DOMAIN file \cup {p} |-> IF q = p THEN snap[p] ELSE file[q]]
<1>1. PICK p : p = Least(DOMAIN rpend)
  BY Zenon
<1>2. p \in DOMAIN rpend
  <2>1. DOMAIN rpend # {} /\ DOMAIN rpend \subseteq 1..MaxPages
    BY PageMapIs, Zenon DEF ReplicaWrite, IInv, TypeOK
  <2>2. DOMAIN rpend \subseteq Nat
    BY <2>1, SizesAssumption
  <2> QED BY <1>1, <2>1, <2>2, LeastIn, Zenon
<1>3. Sound(clean, rpend)
  BY WritesAreSound, Zenon DEF ReplicaWrite
<1>4. p \in DOMAIN snap /\ rpend[p] = snap[p]
  BY <1>2, <1>3, Zenon DEF Sound, OfSnapshot
<1> QED BY <1>1, <1>4, Zenon DEF ReplicaWrite, write_page

-----------------------------------------------------------------------------
(* The protocol implements SnapshotCopy *)

(* Started on a replica without WAL frames, the protocol implements the copy
   it promises, for every group size, database, number of sessions and faults:
   the replica moves from its own pages to the snapshot's, page by page, and a
   sync succeeds only on the snapshot. *)
THEOREM CleanStartCopies == Spec /\ wal = NoWal => ImplementsCopy
(* A step that moves only the handlers: the command begins nothing, and it may
   finish, on the snapshot, or fail. *)
<1>HandlersMove.
    ASSUME IInv(TRUE), IInv(TRUE)', ~SessionOver,
           UNCHANGED <<origin, snap, file>>,
           opc' = "idle" => opc = "idle",
           opc = "idle" => opc' = "idle" \/ (opc' = "err" /\ rpc' = "err")
    PROVE  [Copy!Next]_(Copy!vars)
  <2> USE <1>HandlersMove
  <2>1. View = file /\ View' = file'
    BY ViewIs, Zenon DEF IInv, FileOK, View
  <2>2. CopyStatus = IF opc = "idle" THEN "idle" ELSE "copying"
    BY Zenon DEF CopyStatus, Reported, SessionOver, OriginEnded, ReplicaEnded
  <2>3. CASE Reported'
    <3>1. CopyStatus' = "done" /\ opc' = "ok"
      BY <2>3, Zenon DEF CopyStatus, Reported
    <3>2. file' = snap'
      BY <3>1, Zenon DEF IInv, Phases, OkPhase
    <3> QED BY <2>1, <2>2, <3>1, <3>2, Zenon DEF Copy!Next, Copy!Finish
  <2>4. CASE ~Reported' /\ SessionOver'
    <3>1. CopyStatus' = "failed"
      BY <2>4, Zenon DEF CopyStatus
    <3> QED BY <2>1, <2>2, <3>1, Zenon DEF Copy!Next, Copy!Fail
  <2>5. CASE ~Reported' /\ ~SessionOver'
    <3>1. CopyStatus' = IF opc' = "idle" THEN "idle" ELSE "copying"
      BY <2>5, Zenon DEF CopyStatus
    <3>2. opc = "idle" => opc' = "idle"
      BY <2>5, Zenon DEF SessionOver, OriginEnded, ReplicaEnded
    <3> QED BY <2>1, <2>2, <3>1, <3>2, Zenon DEF Copy!vars
  <2> QED BY <2>3, <2>4, <2>5, Zenon

(* A page write of the replica copies pages of the snapshot (write_page). *)
<1>WriteCopies.
    ASSUME IInv(TRUE), IInv(TRUE)', ReplicaWrite PROVE Copy!CopyPages
  <2> USE <1>WriteCopies
  <2>1. View = file /\ View' = file'
    BY ViewIs, Zenon DEF IInv, FileOK, View
  <2>2. opc # "idle" /\ rpc = "write" /\ UNCHANGED <<origin, snap, opc, rpc>>
    BY Zenon DEF IInv, Phases, HelloPhase, ReplicaWrite, ovars
  <2>3. CopyStatus = "copying" /\ CopyStatus' = "copying"
    BY <2>2, Zenon DEF CopyStatus, Reported, SessionOver, ReplicaEnded
  <2>4. PICK p \in DOMAIN snap :
          file' = [q \in DOMAIN file \cup {p} |-> IF q = p THEN snap[p] ELSE file[q]]
    BY WritesSnapshot, Zenon
  <2>5. /\ DOMAIN file \subseteq DOMAIN file'
        /\ \A q \in DOMAIN file' : \/ q \in DOMAIN file /\ file'[q] = file[q]
                                   \/ q \in DOMAIN snap /\ file'[q] = snap[q]
    BY <2>4, Zenon
  <2> QED BY <2>1, <2>2, <2>3, <2>5, Zenon DEF Copy!CopyPages

(* The states a command starts in. *)
<1>CopyInit.
    Init /\ wal = NoWal => Copy!Init
  <2> SUFFICES ASSUME Init, wal = NoWal PROVE Copy!Init
    BY Zenon
  <2>1. View = file /\ origin \in DB /\ file \in DB /\ snap \in DB
    BY NoPagesTyped, ViewIs, Zenon DEF Init
  <2>2. CopyStatus = "idle"
    BY Zenon DEF Init, CopyStatus, Reported, SessionOver, OriginEnded
  <2>3. Copy!DB = DB
    BY Zenon DEF Copy!DB, DB
  <2> QED BY <2>1, <2>2, <2>3, Zenon DEF Copy!Init

(* Every step of the protocol is a step of the copy or leaves it as it is. *)
<1>CopyNext.
    IInv(TRUE) /\ IInv(TRUE)' /\ [Next]_vars => [Copy!Next]_(Copy!vars)
  <2> SUFFICES ASSUME IInv(TRUE), IInv(TRUE)', [Next]_vars PROVE [Copy!Next]_(Copy!vars)
    BY Zenon
  <2>1. View = file /\ View' = file'
    BY ViewIs, Zenon DEF IInv, FileOK, View
  <2>2. CASE OriginBegin
    <3>1. opc = "idle" /\ opc' = "hello" /\ snap' = origin /\ UNCHANGED <<origin, file>>
      BY <2>2, Zenon DEF OriginBegin
    <3>2. CopyStatus = "idle" /\ CopyStatus' = "copying"
      BY <3>1, Zenon DEF CopyStatus, Reported, SessionOver, OriginEnded
    <3> QED BY <2>1, <3>1, <3>2, Zenon DEF Copy!Next, Copy!Begin
  <2>3. CASE OriginWrite
    <3>1. CopyStatus' = CopyStatus
      BY <2>3, Zenon DEF OriginWrite, CopyStatus, Reported, SessionOver, OriginEnded,
         ReplicaEnded, ovars, rvars
    <3>2. origin' \in Copy!DB
      BY <2>3, Zenon DEF OriginWrite, Copy!DB, DB
    <3> QED BY <2>1, <2>3, <3>1, <3>2, Zenon DEF OriginWrite, Copy!Next, Copy!Write
  <2>4. CASE NextSession
    <3>1. CopyStatus \in {"done", "failed"} /\ CopyStatus' = "idle"
      BY <2>4, Zenon DEF NextSession, CopyStatus, Reported, SessionOver, OriginEnded
    <3> QED BY <2>1, <2>4, <3>1, Zenon DEF NextSession, dbs, Copy!Next, Copy!Again
  <2>5. CASE ReplicaWrite
    BY <2>5, <1>WriteCopies, Zenon DEF Copy!Next
  <2>6. CASE UNCHANGED vars
    BY <2>6, Zenon DEF vars, dbs, ovars, rvars, Copy!vars, View, CopyStatus, Reported,
       SessionOver, OriginEnded, ReplicaEnded
  <2>7. CASE OriginHello \/ OriginGroups \/ OriginPages \/ OriginPanic \/ OriginAck
               \/ OriginEof \/ OriginFails
    <3>1. ~SessionOver /\ opc # "idle" /\ opc' # "idle" /\ UNCHANGED <<origin, snap, file>>
      BY <2>7, Zenon DEF OriginHello, OriginGroups, OriginPages, OriginPanic, OriginAck, OriginEof,
         OriginFails, SessionOver, OriginEnded, dbs
    <3> QED BY <3>1, <1>HandlersMove, Zenon
  <2>8. CASE ReplicaHello \/ ReplicaGroups \/ ReplicaNeed \/ ReplicaError \/ ReplicaPageHashes
               \/ ReplicaPages \/ ReplicaAck \/ ReplicaDone \/ ReplicaEof \/ ReplicaFails
    <3>1. ~SessionOver /\ UNCHANGED <<origin, snap, file, opc>>
      BY <2>8, Zenon DEF ReplicaHello, ReplicaGroups, ReplicaNeed, ReplicaError, ReplicaPageHashes,
         ReplicaPages, ReplicaAck, ReplicaDone, ReplicaEof, ReplicaFails, SessionOver,
         ReplicaEnded, dbs, ovars
    <3> QED BY <3>1, <1>HandlersMove, Zenon
  <2>9. CASE LinkDown
    <3>1. ~SessionOver /\ UNCHANGED <<origin, snap, file, opc>>
      BY <2>9, Zenon DEF LinkDown, dbs, ovars
    <3> QED BY <3>1, <1>HandlersMove, Zenon
  <2>10. CASE LocalFails \/ StallTimeout
    <3>1. ~SessionOver /\ UNCHANGED <<origin, snap, file>>
      BY <2>10, Zenon DEF LocalFails, StallTimeout, LocalEnds, Stalled, SessionOver, OriginEnded,
         ReplicaEnded, dbs
    <3>2. opc' = IF OriginEnded THEN opc ELSE "err"
      BY <2>10, Zenon DEF LocalFails, StallTimeout, LocalEnds
    <3>3. opc = "idle" => rpc' = "err"
      <4>1. rpc' = IF ReplicaEnded THEN rpc ELSE "err"
        BY <2>10, Zenon DEF LocalFails, StallTimeout, LocalEnds
      <4> QED BY <4>1, Zenon DEF IInv, Phases, HelloPhase, ReplicaEnded
    <3> QED BY <3>1, <3>2, <3>3, <1>HandlersMove, Zenon DEF OriginEnded
  <2>11. ~ReplicaClose
    BY Zenon DEF IInv, FileOK, ReplicaClose
  <2> QED BY <2>2, <2>3, <2>4, <2>5, <2>6, <2>7, <2>8, <2>9, <2>10, <2>11, Zenon
          DEF Next, OriginStep, ReplicaStep, Environment

<1>1. Init /\ wal = NoWal => IInv(TRUE) /\ Copy!Init
  BY InitInv, <1>CopyInit, Zenon
<1>2. IInv(TRUE) /\ [Next]_vars => IInv(TRUE)'
  BY NextInv, Zenon
<1>3. IInv(TRUE) /\ IInv(TRUE)' /\ [Next]_vars => [Copy!Next]_(Copy!vars)
  BY <1>CopyNext, Zenon
<1> QED BY <1>1, <1>2, <1>3, PTL DEF Spec, ImplementsCopy, Copy!Spec

-----------------------------------------------------------------------------
(* The replica file at every moment *)

(* While a session runs, a page that holds the snapshot's content keeps it,
   from every start, WAL frames or not: all that is written while the replica
   handler runs is the snapshot's. *)
THEOREM PagesStay == Spec => SyncedPagesStay
<1> DEFINE Stays == \A p \in DOMAIN file \cap DOMAIN snap :
                      file[p] = snap[p] => file'[p] = snap[p]
<1>1. Init => IInv(FALSE)
  BY InitInv, Zenon
<1>2. IInv(FALSE) /\ [Next]_vars => IInv(FALSE)'
  BY NextInv, Zenon
<1>3. ASSUME IInv(FALSE), Next, ~ReplicaEnded PROVE Stays
  <2>1. CASE ReplicaWrite
    <3>1. PICK p \in DOMAIN snap :
            file' = [q \in DOMAIN file \cup {p} |-> IF q = p THEN snap[p] ELSE file[q]]
      BY <1>3, <2>1, WritesSnapshot, Zenon
    <3> QED BY <3>1, Zenon
  <2>2. CASE ~ReplicaWrite
    <3>1. ~ReplicaClose
      BY <1>3, Zenon DEF ReplicaClose
    <3>2. file' = file
      BY <1>3, <2>2, <3>1, FileUntouched, Zenon
    <3> QED BY <3>2, Zenon
  <2> QED BY <2>1, <2>2, Zenon
<1>4. IInv(FALSE) /\ [Next]_vars =>
        [~ReplicaEnded /\ opc # "idle" /\ opc' # "idle" => Stays]_vars
  BY <1>3, Zenon
<1> QED BY <1>1, <1>2, <1>4, PTL DEF Spec, SyncedPagesStay

(* The pages of the file, each as hashed or as in the snapshot. *)
Mixed ==
  rpc \in {"need", "next", "pages", "write", "done"} =>
    \A p \in DOMAIN file :
      \/ p \in DOMAIN rhash /\ hash_page_for(ralg, file[p]) = rhash[p]
      \/ p \in DOMAIN snap /\ file[p] = snap[p]

(* Started on a replica without WAL frames, the file has no hole at any moment,
   and each of its pages is as the session hashed it or already the snapshot's:
   a session that breaks off anywhere leaves nothing else behind. *)
THEOREM CleanStartOldOrNew == Spec /\ wal = NoWal => []OldOrNew
(* A file without holes has the pages 1..n. *)
<1>GaplessFile.
    ASSUME TypeOK, NoHole
    PROVE  \E n \in 0..MaxPages : DOMAIN file = 1..n
  <2> USE <1>GaplessFile
  <2>1. DOMAIN file \subseteq 1..MaxPages /\ MaxPages \in Nat
    BY PageMapIs, SizesAssumption, Zenon DEF TypeOK
  <2>2. PICK D : D = DOMAIN file
    BY Zenon
  <2>3. PICK S : S = {k \in Nat : k + 1 \notin D}
    BY Zenon
  <2>4. MaxPages \in S /\ S \subseteq Nat
    BY <2>1, <2>2, <2>3
  <2>5. PICK n : n = Least(S)
    BY Zenon
  <2>6. n \in S /\ \A k \in S : n <= k
    BY <2>4, <2>5, LeastIn, Zenon
  <2>7. n \in 0..MaxPages /\ n + 1 \notin D
    BY <2>1, <2>3, <2>4, <2>6
  <2>8. ASSUME NEW p \in 1..n PROVE p \in D
    <3>1. p - 1 \in Nat /\ ~(n <= p - 1) /\ (p - 1) + 1 = p
      BY <2>7
    <3> QED BY <2>3, <2>6, <3>1, Zenon
  <2>9. ASSUME NEW p \in D PROVE p \in 1..n
    <3>1. p \in 1..MaxPages /\ \A q \in 1..p : q \in D
      BY <2>1, <2>2, Zenon DEF NoHole
    <3> QED BY <2>1, <2>7, <3>1
  <2> QED BY <2>2, <2>7, <2>8, <2>9, Zenon

(* Only the start of a session, the hashing and the page writes matter to it. *)
<1>HashesKept.
    ASSUME Next, ~OriginBegin, ~ReplicaGroups, ~NextSession
    PROVE  UNCHANGED <<snap, rhash, ralg>>
  BY <1>HashesKept, Zenon DEF Next, OriginStep, ReplicaStep, Environment, OriginHello, OriginGroups,
     OriginPages, OriginPanic, OriginAck, OriginEof, ReplicaHello, ReplicaNeed, ReplicaError,
     ReplicaPageHashes, ReplicaPages, ReplicaWrite, ReplicaAck, ReplicaDone, ReplicaEof,
     ReplicaFails, OriginFails, LinkDown, LocalFails, LocalEnds, OriginWrite, ReplicaClose,
     StallTimeout, dbs, rvars

(* The replica handler comes past its hashes in one way only. *)
<1>HandlerGoesOn.
    ASSUME Next, ~ReplicaGroups, rpc' \in {"need", "next", "pages", "write", "done"}
    PROVE  rpc \in {"need", "next", "pages", "write", "done"}
  BY <1>HandlerGoesOn, Zenon DEF Next, OriginStep, ReplicaStep, Environment, OriginBegin, OriginHello,
     OriginGroups, OriginPages, OriginPanic, OriginAck, OriginEof, ReplicaHello, ReplicaNeed,
     ReplicaError, ReplicaPageHashes, ReplicaPages, ReplicaWrite, ReplicaAck, ReplicaDone,
     ReplicaEof, ReplicaFails, OriginFails, LinkDown, LocalFails, LocalEnds, OriginWrite,
     ReplicaClose, StallTimeout, NextSession, rvars, ReplicaEnded

(* No step brings in a page that is neither as hashed nor of the snapshot. *)
<1>MixedStep.
    ASSUME IInv(TRUE), Mixed, [Next]_vars PROVE Mixed'
  <2> USE <1>MixedStep
  <2> SUFFICES ASSUME rpc' \in {"need", "next", "pages", "write", "done"}
               PROVE  \A p \in DOMAIN file' :
                        \/ p \in DOMAIN rhash' /\ <<ralg', file'[p]>> = rhash'[p]
                        \/ p \in DOMAIN snap' /\ file'[p] = snap'[p]
    BY Zenon DEF Mixed, hash_page_for
  <2>1. CASE ReplicaGroups
    <3>1. rhash' = [p \in DOMAIN file |-> <<ralg', file[p]>>] /\ file' = file
      BY <2>1, ViewIs, Zenon DEF ReplicaGroups, AllPageHashes, hash_page_for, dbs, IInv, FileOK
    <3> QED BY <3>1, Zenon
  <2>2. CASE Next /\ ~ReplicaGroups
    <3>1. rpc \in {"need", "next", "pages", "write", "done"}
      BY <2>2, <1>HandlerGoesOn, Zenon
    <3>2. ~OriginBegin /\ ~NextSession
      BY <3>1, Zenon DEF OriginBegin, NextSession, IInv, Phases, HelloPhase
    <3>3. UNCHANGED <<snap, rhash, ralg>>
      BY <2>2, <3>2, <1>HashesKept, Zenon
    <3>4. \A p \in DOMAIN file : \/ p \in DOMAIN rhash /\ <<ralg, file[p]>> = rhash[p]
                                 \/ p \in DOMAIN snap /\ file[p] = snap[p]
      BY <3>1, Zenon DEF Mixed, hash_page_for
    <3>5. CASE ReplicaWrite
      <4>1. PICK p \in DOMAIN snap :
              file' = [q \in DOMAIN file \cup {p} |-> IF q = p THEN snap[p] ELSE file[q]]
        BY <3>5, WritesSnapshot, Zenon
      <4>2. DOMAIN file' = DOMAIN file \cup {p} /\ file'[p] = snap[p]
        BY <4>1, Zenon
      <4>3. \A q \in DOMAIN file : q # p => file'[q] = file[q]
        BY <4>1, Zenon
      <4> QED BY <3>3, <3>4, <4>2, <4>3, Zenon
    <3>6. CASE ~ReplicaWrite
      <4>1. ~ReplicaClose
        BY Zenon DEF IInv, FileOK, ReplicaClose
      <4>2. file' = file
        BY <2>2, <3>6, <4>1, FileUntouched, Zenon
      <4> QED BY <3>3, <3>4, <4>2, Zenon
    <3> QED BY <3>5, <3>6, Zenon
  <2>3. CASE UNCHANGED vars
    BY <2>3, Zenon DEF Mixed, hash_page_for, vars, dbs, rvars
  <2> QED BY <2>1, <2>2, <2>3, Zenon

<1>1. Init /\ wal = NoWal => IInv(TRUE) /\ Mixed
  BY InitInv, Zenon DEF Init, Mixed
<1>2. IInv(TRUE) /\ Mixed /\ [Next]_vars => IInv(TRUE)' /\ Mixed'
  BY NextInv, <1>MixedStep, Zenon
<1>3. IInv(TRUE) /\ Mixed => OldOrNew
  BY <1>GaplessFile, Zenon DEF IInv, FileOK, Mixed, OldOrNew
<1> QED BY <1>1, <1>2, <1>3, PTL DEF Spec

-----------------------------------------------------------------------------
(* From every start: WAL frames at first, clean sessions after the checkpoint *)

(* A session may start on WAL frames, the closing checkpoint then moves them
   into the file, and the sessions after it are clean.  So what holds of every
   session, what holds of the file once the frames are gone, and, when a
   replica handler runs without frames, what holds of a clean session. *)
AnyStart ==
  /\ IInv(FALSE)
  /\ wal = NoWal => NoHole
  /\ wal = NoWal /\ ~ReplicaEnded => IInv(TRUE)

(* Every start, WAL frames or not, is such a state. *)
LEMMA AnyStartInit == Init => AnyStart
<1> SUFFICES ASSUME Init PROVE AnyStart
  BY Zenon
<1>1. IInv(FALSE) /\ (wal = NoWal => IInv(TRUE))
  BY InitInv, Zenon
<1> QED BY <1>1, Zenon DEF AnyStart, IInv, FileOK

(* No step leaves these states. *)
LEMMA AnyStartStep == ASSUME AnyStart, [Next]_vars PROVE AnyStart'
(* A replica handler that has ended stays so until the next session. *)
<1>EndedStays.
    ASSUME Next, ReplicaEnded, ~NextSession PROVE ReplicaEnded'
  BY <1>EndedStays, Zenon DEF Next, OriginStep, ReplicaStep, Environment, OriginBegin, OriginHello,
     OriginGroups, OriginPages, OriginPanic, OriginAck, OriginEof, ReplicaHello, ReplicaGroups,
     ReplicaNeed, ReplicaError, ReplicaPageHashes, ReplicaPages, ReplicaWrite, ReplicaAck,
     ReplicaDone, ReplicaEof, ReplicaFails, OriginFails, LinkDown, LocalFails, LocalEnds,
     OriginWrite, ReplicaClose, StallTimeout, rvars, ReplicaEnded

(* The next session of a replica without frames is clean. *)
<1>CleanSession.
    ASSUME IInv(FALSE)', NextSession, wal' = NoWal, NoHole' PROVE IInv(TRUE)'
  <2> USE <1>CleanSession
  <2>1. opc' = "idle" /\ link' = "up"
    BY Zenon DEF NextSession
  <2>2. TypeOK' /\ WalOK' /\ Phases(FALSE)'
    BY Zenon DEF IInv, FileOK
  <2>3. Phases(TRUE)'
    BY <2>1, <2>2, Zenon DEF Phases
  <2> QED BY <2>2, <2>3, Zenon DEF IInv, FileOK

<1>1. IInv(FALSE) /\ IInv(FALSE)'
  BY NextInv, Zenon DEF AnyStart
<1>2. CASE wal = NoWal /\ ~ReplicaEnded
  <2>1. IInv(TRUE)'
    BY <1>2, NextInv, Zenon DEF AnyStart
  <2> QED BY <1>1, <2>1, Zenon DEF AnyStart, IInv, FileOK
<1>3. CASE UNCHANGED vars
  <2>1. UNCHANGED <<wal, file, rpc>>
    BY <1>3, Zenon DEF vars, dbs, rvars
  <2>2. wal = NoWal /\ ~ReplicaEnded => IInv(TRUE)'
    BY NextInv, Zenon DEF AnyStart
  <2> QED BY <1>1, <2>1, <2>2, Zenon DEF AnyStart, NoHole, ReplicaEnded
<1>4. CASE ReplicaClose
  <2>1. NoHole'
    BY <1>1, <1>4, ReplicaCloseStep, Zenon
  <2>2. ReplicaEnded'
    BY <1>4, Zenon DEF ReplicaClose, ReplicaEnded, rvars
  <2> QED BY <1>1, <2>1, <2>2, Zenon DEF AnyStart
<1>5. CASE wal # NoWal /\ Next /\ ~ReplicaClose
  <2>1. wal' = wal
    BY <1>5, FileUntouched, Zenon DEF ReplicaWrite
  <2> QED BY <1>1, <1>5, <2>1, Zenon DEF AnyStart
<1>6. CASE wal = NoWal /\ ReplicaEnded /\ Next
  <2>1. ~ReplicaWrite /\ ~ReplicaClose
    BY <1>6, Zenon DEF ReplicaWrite, ReplicaClose, ReplicaEnded
  <2>2. wal' = NoWal /\ NoHole'
    BY <1>6, <2>1, FileUntouched, Zenon DEF AnyStart, NoHole
  <2>3. ~ReplicaEnded' => NextSession
    BY <1>6, <1>EndedStays, Zenon
  <2>4. ~ReplicaEnded' => IInv(TRUE)'
    BY <1>1, <2>2, <2>3, <1>CleanSession, Zenon
  <2> QED BY <1>1, <2>2, <2>4, Zenon DEF AnyStart
<1> QED BY <1>2, <1>3, <1>4, <1>5, <1>6, Zenon

(* Once the closing checkpoint has moved leftover WAL frames into the file, or
   if there were none, a sync that starts keeps the promise that Ok means the
   snapshot, and so do all later ones. *)
THEOREM LaterSessionsAreClean == Spec => CleanStartIsSynced
<1>1. Init => AnyStart
  BY AnyStartInit, Zenon
<1>2. AnyStart /\ [Next]_vars => AnyStart'
  BY AnyStartStep, Zenon
<1>3. AnyStart /\ wal = NoWal /\ opc = "idle" /\ rpc = "idle" => IInv(TRUE)
  BY Zenon DEF AnyStart, ReplicaEnded
<1>4. IInv(TRUE) /\ [Next]_vars => IInv(TRUE)'
  BY NextInv, Zenon
<1>5. IInv(TRUE) => SyncedIsSnapshot
  BY InvImpliesSynced, Zenon
<1> QED BY <1>1, <1>2, <1>3, <1>4, <1>5, PTL DEF Spec, CleanStartIsSynced

(* From every start and whatever faults happen, neither handler ever meets a
   message out of turn, and every list of hashes and every acknowledgement
   passes the other side's validation. *)
THEOREM HandlersAgree == Spec => []NoViolation
(* A reader of the replica sees no hole. *)
<1>GaplessView.
    ASSUME TypeOK, wal = NoWal => NoHole, NEW p \in DOMAIN View, NEW q \in 1..p
    PROVE  q \in DOMAIN View
  <2> USE <1>GaplessView
  <2>1. CASE wal = NoWal
    BY <2>1, ViewIs, Zenon DEF NoHole
  <2>2. CASE wal # NoWal
    <3>1. DOMAIN View = 1..wal.size
      BY <2>2, ViewIs, Zenon
    <3>2. PICK n \in Nat : n = wal.size
      BY <2>2, SizesAssumption DEF TypeOK
    <3> QED BY <3>1, <3>2
  <2> QED BY <2>1, <2>2, Zenon

(* The pages from the first of a group up to one of the group are its pages. *)
<1>GroupIsInterval.
    ASSUME NEW p \in Nat \ {0}, NEW g \in Nat, GroupOf(p) = g, NEW q \in g * GROUP_SIZE + 1 .. p
    PROVE  q \in 1..p /\ GroupOf(q) = g
  <2> USE <1>GroupIsInterval
  <2>1. PICK d : d = GROUP_SIZE
    BY Zenon
  <2>2. d \in Nat \ {0} /\ q \in g * d + 1 .. p
    BY <2>1, SizesAssumption, Zenon
  <2>3. q \in 1..p /\ q \in Nat \ {0}
    BY <2>2
  <2>4. PICK b \in Nat : b = GroupOf(q)
    BY <2>3, GroupBounds, Zenon
  <2>5. q <= d * b + d
    BY <2>1, <2>3, <2>4, GroupBounds, Zenon
  <2>6. d * g < d * (b + 1)
    BY <2>2, <2>5
  <2>7. b <= g
    BY <2>3, <2>4, SmallerGroup, Zenon
  <2> QED BY <2>2, <2>3, <2>4, <2>6, <2>7

(* The page hashes of a group pass the origin's validation. *)
<1>HashesValidate.
    ASSUME TypeOK, WalOK, wal = NoWal => NoHole, NEW g \in Nat
    PROVE  validate_page_hashes_for_group(hash_group_for(oalg, View, g), g)
  <2> USE <1>HashesValidate
  <2>1. PICK hashes : hashes = hash_group_for(oalg, View, g)
    BY Zenon
  <2>2. DOMAIN hashes = PagesIn(View, g)
    BY <2>1, Zenon DEF hash_group_for
  <2>3. DOMAIN View \subseteq Nat \ {0}
    BY ViewIs, PageMapIs, SizesAssumption
  <2>4. ASSUME NEW p \in DOMAIN hashes PROVE p \in Nat \ {0} /\ p \in DOMAIN View /\ GroupOf(p) = g
    BY <2>2, <2>3, Zenon DEF PagesIn
  <2>5. ASSUME NEW p \in DOMAIN hashes, NEW q \in g * GROUP_SIZE + 1 .. p PROVE q \in DOMAIN hashes
    <3>1. p \in Nat \ {0} /\ p \in DOMAIN View /\ GroupOf(p) = g
      BY <2>4, Zenon
    <3>2. q \in 1..p /\ GroupOf(q) = g
      BY <3>1, <1>GroupIsInterval, Zenon
    <3>3. q \in DOMAIN View
      BY <3>1, <3>2, <1>GaplessView, Zenon
    <3> QED BY <2>2, <3>2, <3>3, Zenon DEF PagesIn
  <2> QED BY <2>1, <2>4, <2>5, Zenon DEF validate_page_hashes_for_group

(* What the origin reads is what it expects. *)
<1>OriginExpects.
    ASSUME AnyStart, toOrigin # <<>>
    PROVE  \/ OriginEnded \/ opc = "idle"
           \/ opc = "hello" /\ OriginGets("Hello")
           \/ opc = "groups" /\ OriginGets("GroupHashes")
           \/ /\ opc = "pages" /\ OriginGets("PageHashes")
              /\ validate_page_hashes_for_group(Head(toOrigin).hashes, Least(oneed))
           \/ /\ opc = "ack" /\ OriginGets("PagesAck")
              /\ validate_pages_ack(Head(toOrigin).pages)
  <2> USE <1>OriginExpects
  <2>0. /\ TypeOK /\ WalOK /\ (wal = NoWal => NoHole) /\ OriginTyped
        /\ Phases(FALSE)
    BY TypedParts, Zenon DEF AnyStart, IInv, FileOK
  <2>1. CASE opc = "hello"
    <3>1. toOrigin = <<[type |-> "Hello", version |-> offered, size |-> rsize]>>
      BY <2>0, <2>1, Zenon DEF Phases, HelloPhase
    <3>2. Head(toOrigin).type = "Hello"
      BY <3>1, OneMessage
    <3> QED BY <2>1, <3>2, Zenon DEF OriginGets
  <2>2. CASE opc = "groups"
    <3>1. toOrigin = <<GroupHashesMsg>>
      BY <2>0, <2>2, Zenon DEF Phases, GroupsPhase
    <3>2. Head(toOrigin) = GroupHashesMsg /\ GroupHashesMsg.type = "GroupHashes"
      BY <3>1, OneMessage, Zenon DEF GroupHashesMsg
    <3> QED BY <2>2, <3>2, Zenon DEF OriginGets
  <2>3. CASE opc = "pages"
    <3>1. PICK g : g = Least(oneed)
      BY Zenon
    <3>2. oneed # {} /\ toOrigin = <<PageHashesMsg(g)>>
      BY <2>0, <2>3, <3>1, Zenon DEF Phases, PagesPhase
    <3>3. g \in Nat
      <4>1. oneed \subseteq Nat
        BY <2>0, GroupsNat, Zenon DEF OriginTyped
      <4> QED BY <3>1, <3>2, <4>1, LeastIn, Zenon
    <3>4. Head(toOrigin) = PageHashesMsg(g)
      BY <3>2, OneMessage, Zenon
    <3>5. PageHashesMsg(g).type = "PageHashes" /\ PageHashesMsg(g).hashes = hash_group_for(oalg, View, g)
      BY Zenon DEF PageHashesMsg
    <3>6. validate_page_hashes_for_group(Head(toOrigin).hashes, g)
      BY <2>0, <3>3, <3>4, <3>5, <1>HashesValidate, Zenon
    <3> QED BY <2>3, <3>1, <3>4, <3>5, <3>6, Zenon DEF OriginGets
  <2>4. CASE opc = "ack"
    <3>1. AckPhase(FALSE)
      BY <2>0, <2>4, Zenon DEF Phases
    <3>2. PagesAcked(FALSE, Least(oneed), oneed \ {Least(oneed)})
      BY <3>1, Zenon DEF AckPhase, PagesSent, PagesWriting, ReplicaGone
    <3>3. PICK m : toOrigin = <<AckMsg>> \/ toOrigin = <<AckMsg, m>>
      BY <3>2, Zenon DEF PagesAcked
    <3>4. Head(toOrigin) = AckMsg
      BY <3>3, OneMessage, TwoMessages
    <3>5. AckMsg.type = "PagesAck" /\ AckMsg.pages = oack
      BY Zenon DEF AckMsg
    <3> QED BY <2>4, <3>4, <3>5, Zenon DEF OriginGets, validate_pages_ack
  <2> QED BY <2>0, <2>1, <2>2, <2>3, <2>4, Zenon DEF OriginTyped, OriginEnded

(* What the replica reads is what it expects. *)
<1>ReplicaExpects.
    ASSUME IInv(FALSE), toReplica # <<>>
    PROVE  \/ ReplicaEnded \/ ReplicaGets("Error")
           \/ rpc = "hello" /\ ReplicaGets("HelloAck") /\ Head(toReplica).version \in 1..offered
           \/ rpc = "need" /\ ReplicaGets("GroupsNeedFine")
           \/ rpc = "pages" /\ ReplicaGets("SendPages")
           \/ rpc \in {"next", "write"}
           \/ rpc = "done" /\ ReplicaGets("Done")
  <2> USE <1>ReplicaExpects
  <2>1. CASE opc = "ok"
    <3>1. OkPhase(FALSE)
      BY <2>1, Zenon DEF IInv, Phases
    <3>2. CASE rpc = "need"
      <4>1. toReplica = <<NeedMsg({}), DoneMsg>>
        BY <3>1, <3>2, Zenon DEF OkPhase
      <4>2. Head(toReplica) = NeedMsg({}) /\ NeedMsg({}).type = "GroupsNeedFine"
        BY <4>1, TwoMessages, Zenon DEF NeedMsg
      <4> QED BY <3>2, <4>2, Zenon DEF ReplicaGets
    <3>3. CASE rpc = "done"
      <4>1. toReplica = <<DoneMsg>>
        BY <3>1, <3>3, Zenon DEF OkPhase
      <4>2. Head(toReplica) = DoneMsg /\ DoneMsg.type = "Done"
        BY <4>1, OneMessage, Zenon DEF DoneMsg
      <4> QED BY <3>3, <4>2, Zenon DEF ReplicaGets
    <3> QED BY <3>1, <3>2, <3>3, Zenon DEF OkPhase, ReplicaEnded
  <2>2. CASE opc # "ok"
    <3>1. FailedPhase(FALSE)
      BY <2>2, Unfinished, TypedParts, Zenon DEF IInv, OriginTyped
    <3>2. InTurn(FALSE, Head(toReplica))
      BY <3>1, Zenon DEF FailedPhase
    <3> QED BY <3>2, Zenon DEF InTurn, ReplicaGets
  <2> QED BY <2>1, <2>2, Zenon

<1>1. Init => AnyStart
  BY AnyStartInit, Zenon
<1>2. AnyStart /\ [Next]_vars => AnyStart'
  BY AnyStartStep, Zenon
<1>3. AnyStart => NoViolation
  BY <1>OriginExpects, <1>ReplicaExpects, Zenon DEF AnyStart, NoViolation
<1> QED BY <1>1, <1>2, <1>3, PTL DEF Spec

-----------------------------------------------------------------------------
(* Sessions without faults *)

(* The premises of a sync that has to succeed: no build offers version 0, and
   the origin's writers do not drop pages. *)
Regular == 0 \notin OfferedVersions /\ ~OriginMayShrink

(* The replica then never has a page the origin or its snapshot lacks. *)
Fits ==
  /\ DOMAIN file \subseteq DOMAIN origin
  /\ DOMAIN snap \subseteq DOMAIN origin
  /\ opc \in {"hello", "groups", "pages", "ack"} => DOMAIN file \subseteq DOMAIN snap

(* Without faults and with one page size, no handler fails, and the messages a
   finished origin sent are there until the replica has read them. *)
Smooth ==
  faults = 0 /\ rsize = OriginPageSize =>
    /\ link = "up"
    /\ opc \notin {"err", "panic"}
    /\ rpc # "err"
    /\ opc = "ok" /\ rpc \in {"need", "done"} => toReplica # <<>>

(* In a session that has gone smoothly so far. *)
Going ==
  /\ IInv(TRUE) /\ Fits /\ Regular /\ rsize = OriginPageSize
  /\ link = "up" /\ opc \notin {"err", "panic"} /\ rpc # "err"
  /\ opc = "ok" /\ rpc \in {"need", "done"} => toReplica # <<>>

(* Between databases of one page size, when the replica has no WAL frames, its
   build offers some version and the origin's writers drop no pages, sessions
   that meet no fault succeed on both sides: no stall, no refusal, no page the
   snapshot lacks.  (With writers that drop pages the run sync_shrink shows
   that it is not so.) *)
THEOREM CleanStartSucceeds ==
  Spec /\ wal = NoWal /\ Regular => []FaultFreeSucceeds
(* Only the page writes reach the file of a clean session, only the start of a
   session takes a snapshot, and only its writers change the origin. *)
<1>DatabasesKept.
    ASSUME Next, ~OriginBegin, ~OriginWrite
    PROVE  UNCHANGED <<origin, snap>>
  BY <1>DatabasesKept, Zenon DEF Next, OriginStep, ReplicaStep, Environment, OriginHello, OriginGroups,
     OriginPages, OriginPanic, OriginAck, OriginEof, ReplicaHello, ReplicaGroups, ReplicaNeed,
     ReplicaError, ReplicaPageHashes, ReplicaPages, ReplicaWrite, ReplicaAck, ReplicaDone,
     ReplicaEof, ReplicaFails, OriginFails, LinkDown, LocalFails, LocalEnds, ReplicaClose,
     StallTimeout, NextSession, dbs

(* The origin handler is at work only after its beginning. *)
<1>OriginGoesOn.
    ASSUME Next, ~OriginBegin, opc' \in {"hello", "groups", "pages", "ack"}
    PROVE  opc \in {"hello", "groups", "pages", "ack"}
  BY <1>OriginGoesOn, Zenon DEF Next, OriginStep, ReplicaStep, Environment, OriginHello, OriginGroups,
     OriginPages, OriginPanic, OriginAck, OriginEof, ReplicaHello, ReplicaGroups, ReplicaNeed,
     ReplicaError, ReplicaPageHashes, ReplicaPages, ReplicaWrite, ReplicaAck, ReplicaDone,
     ReplicaEof, ReplicaFails, OriginFails, LinkDown, LocalFails, LocalEnds, OriginWrite,
     ReplicaClose, StallTimeout, NextSession, ovars, OriginEnded

(* No step makes the replica larger than the origin when writers drop no pages.
   *)
<1>FitsStep.
    ASSUME Regular, IInv(TRUE), Fits, [Next]_vars PROVE Fits'
  <2> USE <1>FitsStep
  <2>1. CASE UNCHANGED vars
    BY <2>1, Zenon DEF Fits, vars, dbs, ovars
  <2>2. CASE OriginBegin
    BY <2>2, Zenon DEF Fits, OriginBegin
  <2>3. CASE OriginWrite
    <3>1. DOMAIN origin \subseteq DOMAIN origin' /\ UNCHANGED <<file, snap, opc>>
      BY <2>3, Zenon DEF OriginWrite, Regular, ovars
    <3> QED BY <3>1, Zenon DEF Fits
  <2>4. CASE ReplicaWrite
    <3>1. PICK p \in DOMAIN snap :
            file' = [q \in DOMAIN file \cup {p} |-> IF q = p THEN snap[p] ELSE file[q]]
      BY <2>4, WritesSnapshot, Zenon
    <3>2. DOMAIN file' = DOMAIN file \cup {p} /\ UNCHANGED <<origin, snap, opc>>
      BY <2>4, <3>1, Zenon DEF ReplicaWrite, ovars
    <3> QED BY <3>2, Zenon DEF Fits
  <2>5. CASE Next /\ ~OriginBegin /\ ~OriginWrite /\ ~ReplicaWrite
    <3>1. ~ReplicaClose
      BY Zenon DEF IInv, FileOK, ReplicaClose
    <3>2. UNCHANGED <<origin, snap, file>>
      BY <2>5, <3>1, <1>DatabasesKept, FileUntouched, Zenon
    <3>3. opc' \in {"hello", "groups", "pages", "ack"} => opc \in {"hello", "groups", "pages", "ack"}
      BY <2>5, <1>OriginGoesOn, Zenon
    <3> QED BY <3>2, <3>3, Zenon DEF Fits
  <2> QED BY <2>1, <2>2, <2>3, <2>4, <2>5, Zenon

(* A fault counts, the page size stays, and a count of faults stays too. *)
<1>FaultsCount.
    ASSUME TypeOK, Next, faults' = 0
    PROVE  /\ faults = 0
           /\ ~ReplicaFails /\ ~OriginFails /\ ~LinkDown /\ ~LocalFails
  <2> USE <1>FaultsCount
  <2>1. faults \in Nat
    BY SizesAssumption DEF TypeOK
  <2>2. ~Fault
    BY <2>1 DEF Fault
  <2>3. ~ReplicaFails /\ ~OriginFails /\ ~LinkDown /\ ~LocalFails
    BY <2>2, Zenon DEF ReplicaFails, OriginFails, LinkDown, LocalFails
  <2>4. faults' = faults
    BY <2>3, Zenon DEF Next, OriginStep, ReplicaStep, Environment, OriginBegin, OriginHello,
       OriginGroups, OriginPages, OriginPanic, OriginAck, OriginEof, ReplicaHello, ReplicaGroups,
       ReplicaNeed, ReplicaError, ReplicaPageHashes, ReplicaPages, ReplicaWrite, ReplicaAck,
       ReplicaDone, ReplicaEof, OriginWrite, ReplicaClose, StallTimeout, NextSession, counts
  <2> QED BY <2>3, <2>4, Zenon

(* The versions and page sizes of the two sides are fixed. *)
<1>PeersStay.
    ASSUME Next PROVE UNCHANGED peers
  BY <1>PeersStay, Zenon DEF Next, OriginStep, ReplicaStep, Environment, OriginBegin, OriginHello,
     OriginGroups, OriginPages, OriginPanic, OriginAck, OriginEof, ReplicaHello, ReplicaGroups,
     ReplicaNeed, ReplicaError, ReplicaPageHashes, ReplicaPages, ReplicaWrite, ReplicaAck,
     ReplicaDone, ReplicaEof, ReplicaFails, OriginFails, LinkDown, LocalFails, LocalEnds,
     OriginWrite, ReplicaClose, StallTimeout, NextSession, peers

(* a replica that has ended means that the origin has... *)
<1>ReplicaLast.
    ASSUME Going, ReplicaEnded PROVE opc = "ok" /\ rpc = "ok"
  <2> USE <1>ReplicaLast
  <2>1. rpc = "ok"
    BY Zenon DEF Going, ReplicaEnded
  <2> QED BY <2>1, Zenon DEF Going, IInv, TypeOK, Phases, HelloPhase, GroupsPhase, PagesPhase,
           AckPhase, PagesSent, PagesWriting, PagesAcked, ReplicaGone

(* ... no one waits for a message that does not come... *)
<1>NoneWaits.
    ASSUME Going
    PROVE  ~StallTimeout /\ ~OriginEof /\ ~ReplicaEof
  <2> USE <1>NoneWaits
  <2>1. ASSUME opc \in {"hello", "groups", "pages", "ack"} PROVE ~ReplicaEnded
    BY <2>1, <1>ReplicaLast, Zenon
  <2>2. ASSUME rpc \in {"hello", "need", "pages", "done"}, OriginEnded PROVE toReplica # <<>>
    <3>1. opc = "ok"
      BY <2>2, Zenon DEF OriginEnded, Going
    <3>2. OkPhase(TRUE)
      BY <3>1, Zenon DEF Going, IInv, Phases
    <3> QED BY <2>2, <3>1, <3>2, Zenon DEF OkPhase, Going
  <2>3. ~StallTimeout
    BY <2>1, <2>2, Zenon DEF StallTimeout, Stalled
  <2>4. ~OriginEof
    BY <2>1, Zenon DEF OriginEof, ClosedToOrigin, Going
  <2>5. ~ReplicaEof
    BY <2>2, Zenon DEF ReplicaEof, ClosedToReplica, Going
  <2> QED BY <2>3, <2>4, <2>5, Zenon

(* ... the origin refuses nothing and finds every page it is asked about... *)
<1>OriginAccepts.
    ASSUME Going
    PROVE  ~OriginPanic /\ ~ReplicaError /\ (OriginHello => opc' = "groups")
  <2> USE <1>OriginAccepts
  <2>1. ~OriginPanic
    <3> SUFFICES ASSUME OriginPanic PROVE FALSE
      BY Zenon
    <3>1. PICK g : g = Least(oneed)
      BY Zenon
    <3>2. opc = "pages" /\ toOrigin # <<>>
      BY Zenon DEF OriginPanic, OriginGets
    <3>3. toOrigin = <<PageHashesMsg(g)>>
      BY <3>1, <3>2, Zenon DEF Going, IInv, Phases, PagesPhase
    <3>4. Head(toOrigin) = PageHashesMsg(g)
      BY <3>3, OneMessage, Zenon
    <3>5. Head(toOrigin).hashes = hash_group_for(oalg, View, g)
      BY <3>4 DEF PageHashesMsg
    <3>6. DOMAIN Head(toOrigin).hashes \subseteq DOMAIN View
      BY <3>5, Zenon DEF hash_group_for, PagesIn
    <3>7. View = file /\ DOMAIN file \subseteq DOMAIN snap
      BY <3>2, ViewIs, Zenon DEF Going, IInv, FileOK, Fits
    <3> QED BY <3>6, <3>7, Zenon DEF OriginPanic
  <2>2. ~ReplicaError
    <3>1. ASSUME toReplica # <<>> PROVE Head(toReplica).type # "Error"
      BY <3>1, FirstMessage, Zenon DEF Going
    <3> QED BY <3>1, Zenon DEF ReplicaError, ReplicaGets
  <2>3. ASSUME OriginHello PROVE opc' = "groups"
    <3>1. PICK m : m = [type |-> "Hello", version |-> offered, size |-> rsize]
      BY Zenon
    <3>2. opc = "hello" /\ toOrigin # <<>>
      BY <2>3, Zenon DEF OriginHello, OriginGets
    <3>3. toOrigin = <<m>>
      BY <3>1, <3>2, Zenon DEF Going, IInv, Phases, HelloPhase
    <3>4. Head(toOrigin) = m
      BY <3>3, OneMessage, Zenon
    <3>5. m.version = offered /\ m.size = rsize
      BY <3>1, Zenon
    <3>6. offered # 0
      BY Zenon DEF Going, IInv, TypeOK, Regular
    <3>7. ~Refused(m)
      BY <3>5, <3>6, Zenon DEF Refused, Going
    <3> QED BY <2>3, <3>4, <3>7, Zenon DEF OriginHello
  <2> QED BY <2>1, <2>2, <2>3, Zenon

(* ... and the last messages of the origin wait for the replica. *)
<1>DoneArrives.
    ASSUME Going, Next, faults' = 0, opc' = "ok", rpc' \in {"need", "done"}
    PROVE  toReplica' # <<>>
  <2> USE <1>DoneArrives
  <2>1. CASE OriginGroups \/ OriginAck
    <3>0. toReplica \in Seq(FromOrigin)
      BY Zenon DEF Going, IInv, TypeOK
    <3>1. PICK s : toReplica' = Append(toReplica, s) \/ toReplica' = toReplica \o <<s, DoneMsg>>
      BY <2>1, Zenon DEF OriginGroups, OriginAck, DoneMsg
    <3> QED BY <3>0, <3>1
  <2>2. CASE opc # "ok" /\ ~OriginGroups /\ ~OriginAck
    BY <2>2, Zenon DEF Next, OriginStep, ReplicaStep, Environment, OriginBegin, OriginHello,
       OriginPages, OriginPanic, OriginEof, ReplicaHello, ReplicaGroups, ReplicaNeed, ReplicaError,
       ReplicaPageHashes, ReplicaPages, ReplicaWrite, ReplicaAck, ReplicaDone, ReplicaEof,
       ReplicaFails, OriginFails, LinkDown, LocalFails, LocalEnds, OriginWrite, ReplicaClose,
       StallTimeout, NextSession, ovars, OriginEnded
  <2>3. CASE opc = "ok"
    <3>1. OkPhase(TRUE)
      BY <2>3, Zenon DEF Going, IInv, Phases
    <3>2. rpc \in {"need", "done", "ok"}
      BY <3>1, Zenon DEF OkPhase, Going
    <3>3. CASE ReplicaNeed
      <4>1. rpc = "need" /\ toReplica # <<>>
        BY <3>3, Zenon DEF ReplicaNeed, ReplicaGets
      <4>2. toReplica = <<NeedMsg({}), DoneMsg>>
        BY <3>1, <4>1, Zenon DEF OkPhase
      <4>3. toReplica' = <<DoneMsg>>
        BY <3>3, <4>2, TwoMessages, Zenon DEF ReplicaNeed
      <4> QED BY <4>3, OneMessage, Zenon
    <3>4. CASE OriginWrite \/ ReplicaClose
      <4>1. toReplica' = toReplica /\ rpc' = rpc
        BY <3>4, Zenon DEF OriginWrite, ReplicaClose, net, rvars
      <4> QED BY <2>3, <4>1, Zenon DEF Going
    <3>5. ~OriginStep
      BY <2>3, Zenon DEF OriginStep, OriginBegin, OriginHello, OriginGroups, OriginPages,
         OriginPanic, OriginAck, OriginEof
    <3>6. ReplicaStep => ReplicaNeed
      <4>1. ~ReplicaDone
        BY Zenon DEF ReplicaDone
      <4>2. ~ReplicaError /\ ~ReplicaEof
        BY <1>NoneWaits, <1>OriginAccepts, Zenon
      <4> QED BY <3>2, <4>1, <4>2, Zenon DEF ReplicaStep, ReplicaHello, ReplicaGroups,
            ReplicaPageHashes, ReplicaPages, ReplicaWrite, ReplicaAck
    <3>7. Environment => OriginWrite \/ ReplicaClose
      BY <1>FaultsCount, Zenon DEF Environment, Going, IInv
    <3>8. ~StallTimeout /\ ~NextSession
      BY <1>NoneWaits, Zenon DEF NextSession
    <3> QED BY <3>3, <3>4, <3>5, <3>6, <3>7, <3>8, Zenon DEF Next
  <2> QED BY <2>1, <2>2, <2>3, Zenon

(* A session without a fault goes on without one. *)
<1>SmoothStep.
    ASSUME Regular, IInv(TRUE), Fits, Smooth, [Next]_vars PROVE Smooth'
  <2> USE <1>SmoothStep
  <2>1. CASE UNCHANGED vars
    BY <2>1, Zenon DEF Smooth, vars, peers, ovars, rvars, net, counts
  <2>2. CASE Next
    <3> SUFFICES ASSUME faults' = 0, rsize' = OriginPageSize
                 PROVE  /\ link' = "up" /\ opc' \notin {"err", "panic"} /\ rpc' # "err"
                        /\ opc' = "ok" /\ rpc' \in {"need", "done"} => toReplica' # <<>>
      BY Zenon DEF Smooth
    <3>1. faults = 0 /\ ~ReplicaFails /\ ~OriginFails /\ ~LinkDown /\ ~LocalFails
      BY <2>2, <1>FaultsCount, Zenon DEF IInv
    <3>2. rsize = OriginPageSize
      BY <2>2, <1>PeersStay, Zenon DEF peers
    <3>3. Going
      BY <3>1, <3>2, Zenon DEF Going, Smooth
    <3>4. /\ ~StallTimeout /\ ~OriginEof /\ ~ReplicaEof
          /\ ~OriginPanic /\ ~ReplicaError /\ (OriginHello => opc' = "groups")
      BY <3>3, <1>NoneWaits, <1>OriginAccepts, Zenon
    <3>5. link = "up" /\ opc \notin {"err", "panic"} /\ rpc # "err"
      BY <3>3, Zenon DEF Going
    <3>6. link' = "up"
      BY <2>2, <3>1, <3>4, <3>5, Zenon DEF Next, OriginStep, ReplicaStep, Environment,
         OriginBegin, OriginHello, OriginGroups, OriginPages, OriginAck, OriginAnswers,
         ReplicaHello, ReplicaGroups, ReplicaNeed, ReplicaPageHashes, ReplicaPages, ReplicaWrite,
         ReplicaAck, ReplicaDone, ReplicaSends, OriginWrite, ReplicaClose, NextSession, net
    <3>7. opc' \notin {"err", "panic"}
      BY <2>2, <3>1, <3>4, <3>5, Zenon DEF Next, OriginStep, ReplicaStep, Environment,
         OriginBegin, OriginGroups, OriginPages, OriginAck, ReplicaHello, ReplicaGroups,
         ReplicaNeed, ReplicaPageHashes, ReplicaPages, ReplicaWrite, ReplicaAck, ReplicaDone,
         OriginWrite, ReplicaClose, NextSession, ovars
    <3>8. rpc' # "err"
      BY <2>2, <3>1, <3>4, <3>5, Zenon DEF Next, OriginStep, ReplicaStep, Environment,
         OriginBegin, OriginHello, OriginGroups, OriginPages, OriginAck, ReplicaHello,
         ReplicaGroups, ReplicaNeed, ReplicaPageHashes, ReplicaPages, ReplicaWrite, ReplicaAck,
         ReplicaDone, OriginWrite, ReplicaClose, NextSession, rvars
    <3> QED BY <2>2, <3>3, <3>6, <3>7, <3>8, <1>DoneArrives, Zenon
  <2> QED BY <2>1, <2>2, Zenon

<1>1. Init /\ wal = NoWal /\ Regular => Regular /\ IInv(TRUE) /\ Fits /\ Smooth
  <2> SUFFICES ASSUME Init, wal = NoWal, Regular PROVE IInv(TRUE) /\ Fits /\ Smooth
    BY Zenon
  <2>1. IInv(TRUE)
    BY InitInv, Zenon
  <2>2. Fits
    BY Zenon DEF Init, Regular, Fits, NoPages
  <2>3. Smooth
    BY Zenon DEF Init, Smooth
  <2> QED BY <2>1, <2>2, <2>3, Zenon
<1>2. Regular /\ IInv(TRUE) /\ Fits /\ Smooth /\ [Next]_vars
        => Regular' /\ IInv(TRUE)' /\ Fits' /\ Smooth'
  BY NextInv, <1>FitsStep, <1>SmoothStep, Zenon DEF Regular
<1>3. IInv(TRUE) /\ Smooth => FaultFreeSucceeds
  BY Zenon DEF Smooth, FaultFreeSucceeds, SessionOver, OriginEnded, ReplicaEnded, Reported
<1> QED BY <1>1, <1>2, <1>3, PTL DEF Spec
=============================================================================
