---------------------------- MODULE DbLocksProofs ---------------------------
(***************************************************************************)
(* The mutex of a database keeps calls apart until drop_database removes   *)
(* it (OneInside), and a batch in a transaction is applied whole or not at *)
(* all (AllOrNothing), for any number of calls of each kind.               *)
(***************************************************************************)
EXTENDS DbLocks, TLAPS

Places == {"new", "lookup", "wait", "in", "unmap", "done"}

Replies == {"none", "not_leader", "ok", "error", "committed", "uncommitted", "timeout"}

Typed ==
  /\ queue \in Seq(Seq(Calls)) /\ entry \in 0..Len(queue)
  /\ pc \in [Calls -> Places]
  /\ mutex \in [Calls -> Nat]
  /\ reply \in [Calls -> Replies]

Queued(c) == pc[c] \in {"wait", "in", "unmap"}

(* A call that waits or works is in the queue of its mutex, first if it works. *)
QueueInv ==
  \A c \in Calls :
    /\ Queued(c) => /\ mutex[c] \in 1..Len(queue)
                    /\ \E i \in 1..Len(queue[mutex[c]]) : queue[mutex[c]][i] = c
    /\ Inside(c) => Head(queue[mutex[c]]) = c

Dropped == \E x \in Drops : reply[x] = "ok"

(* Until a drop has succeeded there is one mutex at most, the one of the map. *)
MapInv == Dropped \/ (entry = Len(queue) /\ Len(queue) <= 1)

(* Only a drop unmaps, and an answer is the end of a call. *)
AnswerInv ==
  \A c \in Calls : (pc[c] = "unmap" => c \in Drops) /\ (reply[c] # "none" => pc[c] = "done")

IInv == Typed /\ QueueInv /\ MapInv /\ AnswerInv

(* The first of a queue is one call, so that two calls inside have two mutexes,
   which takes a drop. *)
LEMMA InvImpliesOneInside == IInv => OneInside
<1> SUFFICES ASSUME IInv, NEW c \in Calls, NEW d \in Calls, Inside(c), Inside(d), c # d
             PROVE  mutex[c] # mutex[d] /\ Dropped
  BY DEF OneInside, Dropped
<1>1. mutex[c] # mutex[d]
  BY DEF IInv, QueueInv
<1>2. mutex[c] \in 1..Len(queue) /\ mutex[d] \in 1..Len(queue) /\ Len(queue) \in Nat
  BY DEF IInv, QueueInv, Queued, Inside, Typed
<1> QED
  BY <1>1, <1>2 DEF IInv, MapInv

(* No call has arrived at the start. *)
LEMMA InitInv == Init => IInv
<1> SUFFICES ASSUME Init PROVE IInv
  OBVIOUS
<1>1. Typed
  <2>1. queue \in Seq(Seq(Calls)) /\ entry \in 0..Len(queue)
    BY DEF Init
  <2>2. pc \in [Calls -> Places] /\ mutex \in [Calls -> Nat] /\ reply \in [Calls -> Replies]
    BY DEF Init, Places, Replies
  <2> QED
    BY <2>1, <2>2 DEF Typed
<1> QED
  BY <1>1 DEF Init, IInv, QueueInv, MapInv, AnswerInv, Queued, Inside

(* A call that is not at a mutex moves, or one that works goes on. *)
LEMMA PlaceStep ==
  ASSUME IInv, NEW c \in Calls, NEW s \in Places, pc' = [pc EXCEPT ![c] = s],
         UNCHANGED <<entry, queue, mutex>>,
         s \in {"wait", "in", "unmap"} => Queued(c),
         s \in {"in", "unmap"} => Head(queue[mutex[c]]) = c,
         s = "unmap" => c \in Drops,
         pc[c] # "done",
         reply' = reply \/ \E a \in Replies : s = "done" /\ reply' = [reply EXCEPT ![c] = a]
  PROVE  IInv'
<1>1. Typed'
  BY Zenon DEF IInv, Typed
<1>2. QueueInv'
  BY DEF IInv, QueueInv, Queued, Inside, Typed
<1>3. AnswerInv'
  BY DEF IInv, AnswerInv, Typed
<1>4. Dropped => Dropped'
  BY DEF IInv, AnswerInv, Typed, Dropped, Calls
<1> QED
  BY <1>1, <1>2, <1>3, <1>4 DEF IInv, MapInv

(* Leave: the call inside is the first of its queue, and nobody else inside has
   the same mutex. *)
LEMMA LeaveStep ==
  ASSUME IInv, NEW c \in Calls, Inside(c), NEW a \in Replies, Leave(c, a), UNCHANGED mutex,
         \/ entry' = entry
         \/ entry' = 0 /\ c \in Drops /\ a = "ok"
  PROVE  IInv'
<1> DEFINE m == mutex[c]
<1>1. /\ queue \in Seq(Seq(Calls)) /\ m \in 1..Len(queue) /\ queue[m] \in Seq(Calls)
      /\ queue[m] # <<>> /\ Head(queue[m]) = c
  BY DEF IInv, QueueInv, Queued, Inside, Typed
<1>2. /\ queue' = [queue EXCEPT ![m] = Tail(@)] /\ pc' = [pc EXCEPT ![c] = "done"]
      /\ reply' = [reply EXCEPT ![c] = a]
  BY DEF Leave
<1>3. /\ queue' \in Seq(Seq(Calls)) /\ Len(queue') = Len(queue) /\ queue'[m] = Tail(queue[m])
      /\ \A n \in 1..Len(queue) : n # m => queue'[n] = queue[n]
  BY <1>1, <1>2
<1>4. Typed'
  BY <1>2, <1>3 DEF IInv, Typed, Places
<1>5. QueueInv'
  <2> SUFFICES ASSUME NEW d \in Calls, Queued(d)'
               PROVE  /\ mutex[d] \in 1..Len(queue')
                      /\ \E i \in 1..Len(queue'[mutex[d]]) : queue'[mutex[d]][i] = d
                      /\ Inside(d)' => Head(queue'[mutex[d]]) = d
    BY DEF QueueInv, Inside, Queued
  <2>1. d # c /\ Queued(d) /\ (Inside(d)' => Inside(d))
    BY <1>2 DEF IInv, Typed, Queued, Inside
  <2>2. /\ mutex[d] \in 1..Len(queue)
        /\ \E i \in 1..Len(queue[mutex[d]]) : queue[mutex[d]][i] = d
        /\ Inside(d) => Head(queue[mutex[d]]) = d
    BY <2>1 DEF IInv, QueueInv
  <2>3. CASE mutex[d] # m
    BY <1>3, <2>1, <2>2, <2>3, Zenon
  <2>4. CASE mutex[d] = m
    <3>1. ~Inside(d)
      BY <1>1, <2>1, <2>2, <2>4
    <3>2. PICK i \in 1..Len(queue[m]) : queue[m][i] = d
      BY <2>2, <2>4
    <3>3. i # 1
      BY <1>1, <2>1, <3>2
    <3>4. i - 1 \in 1..Len(Tail(queue[m])) /\ Tail(queue[m])[i - 1] = d
      BY <1>1, <3>2, <3>3
    <3> QED
      BY <1>3, <2>1, <2>2, <2>4, <3>1, <3>4, Zenon
  <2> QED
    BY <2>3, <2>4
<1>6. AnswerInv'
  BY <1>2 DEF IInv, AnswerInv, Typed
<1>7. Dropped => Dropped'
  BY <1>2, Zenon DEF IInv, AnswerInv, Typed, Dropped, Calls, Inside
<1>8. c \in Drops /\ a = "ok" => Dropped'
  BY <1>2 DEF IInv, Typed, Dropped
<1> QED
  BY <1>3, <1>4, <1>5, <1>6, <1>7, <1>8 DEF IInv, MapInv

(* Lookup: the call goes to the end of the queue of the map's mutex, or of a new
   one. *)
LEMMA LookupStep ==
  ASSUME IInv, NEW c \in Calls, Lookup(c)
  PROVE  IInv'
<1> DEFINE m == LockOf
<1>1. /\ pc[c] = "lookup" /\ entry' = m /\ mutex' = [mutex EXCEPT ![c] = m]
      /\ pc' = [pc EXCEPT ![c] = "wait"] /\ reply' = reply
      /\ queue' = IF m > Len(queue) THEN Append(queue, <<c>>) ELSE [queue EXCEPT ![m] = Append(@, c)]
  BY DEF Lookup
<1>2. /\ queue \in Seq(Seq(Calls)) /\ Len(queue) \in Nat /\ m \in 1..(Len(queue) + 1)
      /\ m = Len(queue) + 1 => entry = 0
  BY DEF IInv, Typed, LockOf
<1>3. MapInv'
  <2>1. CASE Dropped
    BY <1>1, <2>1 DEF MapInv, Dropped
  <2>2. CASE ~Dropped
    <3>1. entry = Len(queue) /\ Len(queue) <= 1
      BY <2>2 DEF IInv, MapInv
    <3>2. m = 1 /\ (Len(queue) = 0 \/ Len(queue) = 1)
      BY <1>2, <3>1 DEF LockOf
    <3>3. Len(queue') = 1
      <4>1. CASE Len(queue) = 0
        <5>1. queue' = Append(queue, <<c>>)
          BY <1>1, <3>2, <4>1
        <5> QED
          BY <1>2, <4>1, <5>1
      <4>2. CASE Len(queue) = 1
        <5>1. queue' = [queue EXCEPT ![m] = Append(@, c)]
          BY <1>1, <3>2, <4>2
        <5>2. Len(queue') = Len(queue)
          BY <1>2, <5>1
        <5> QED
          BY <4>2, <5>2
      <4> QED
        BY <3>2, <4>1, <4>2
    <3> QED
      <4>1. entry' = 1
        BY <1>1, <3>2
      <4> QED
        BY <3>3, <4>1 DEF MapInv
  <2> QED
    BY <2>1, <2>2
<1> HIDE DEF m
<1>4. /\ queue' \in Seq(Seq(Calls)) /\ Len(queue') \in Nat /\ m \in 1..Len(queue') /\ Len(queue) <= Len(queue')
      /\ \A n \in 1..Len(queue) : n # m => queue'[n] = queue[n]
      /\ m \in 1..Len(queue) => queue'[m] = Append(queue[m], c)
      /\ \E i \in 1..Len(queue'[m]) : queue'[m][i] = c
  <2>1. CASE m > Len(queue)
    <3>1. queue' = Append(queue, <<c>>) /\ m = Len(queue) + 1 /\ <<c>> \in Seq(Calls)
      BY <1>1, <1>2, <2>1
    <3>2. /\ queue' \in Seq(Seq(Calls)) /\ Len(queue') = Len(queue) + 1 /\ queue'[m] = <<c>>
          /\ \A n \in 1..Len(queue) : queue'[n] = queue[n]
      BY <1>2, <3>1
    <3> QED
      BY <1>2, <3>1, <3>2
  <2>2. CASE ~(m > Len(queue))
    <3>1. queue' = [queue EXCEPT ![m] = Append(@, c)] /\ m \in 1..Len(queue) /\ queue[m] \in Seq(Calls)
      BY <1>1, <1>2, <2>2
    <3>2. /\ queue' \in Seq(Seq(Calls)) /\ Len(queue') = Len(queue) /\ queue'[m] = Append(queue[m], c)
          /\ \A n \in 1..Len(queue) : n # m => queue'[n] = queue[n]
      BY <1>2, <3>1
    <3>3. Len(queue'[m]) \in 1..Len(queue'[m]) /\ queue'[m][Len(queue'[m])] = c
      BY <3>1, <3>2
    <3> QED
      BY <1>2, <3>1, <3>2, <3>3
  <2> QED
    BY <2>1, <2>2
<1>5. Typed'
  BY <1>1, <1>4 DEF IInv, Typed, Places
<1>6. QueueInv'
  <2> SUFFICES ASSUME NEW d \in Calls, Queued(d)'
               PROVE  /\ mutex'[d] \in 1..Len(queue')
                      /\ \E i \in 1..Len(queue'[mutex'[d]]) : queue'[mutex'[d]][i] = d
                      /\ Inside(d)' => Head(queue'[mutex'[d]]) = d
    BY DEF QueueInv, Inside, Queued
  <2>1. CASE d = c
    BY <1>1, <1>4, <2>1 DEF IInv, Typed, Inside
  <2>2. CASE d # c
    <3>1. mutex'[d] = mutex[d] /\ Queued(d) /\ (Inside(d)' => Inside(d))
      BY <1>1, <2>2 DEF IInv, Typed, Queued, Inside
    <3>2. /\ mutex[d] \in 1..Len(queue)
          /\ \E i \in 1..Len(queue[mutex[d]]) : queue[mutex[d]][i] = d
          /\ Inside(d) => Head(queue[mutex[d]]) = d
      BY <3>1 DEF IInv, QueueInv
    <3>3. CASE mutex[d] # m
      <4>0. \A n \in 1..Len(queue) : n # m => n \in 1..Len(queue') /\ queue'[n] = queue[n]
        <5>1. Len(queue) \in Nat /\ Len(queue') \in Nat /\ Len(queue) <= Len(queue')
          BY <1>2, <1>4
        <5>2. \A n \in 1..Len(queue) : n # m => queue'[n] = queue[n]
          BY <1>4
        <5> QED
          BY <5>1, <5>2
      <4>1. queue'[mutex'[d]] = queue[mutex[d]] /\ mutex'[d] \in 1..Len(queue')
        <5>1. mutex[d] \in 1..Len(queue)
          BY <3>2
        <5>2. queue'[mutex[d]] = queue[mutex[d]] /\ mutex[d] \in 1..Len(queue')
          BY <3>3, <4>0, <5>1
        <5> QED
          BY <3>1, <5>2
      <4>2. \E i \in 1..Len(queue'[mutex'[d]]) : queue'[mutex'[d]][i] = d
        BY <3>2, <4>1
      <4>3. Inside(d)' => Head(queue'[mutex'[d]]) = d
        BY <3>1, <3>2, <4>1
      <4> QED
        BY <4>1, <4>2, <4>3
    <3>4. CASE mutex[d] = m
      <4>1. queue[m] \in Seq(Calls) /\ queue'[m] = Append(queue[m], c)
        BY <1>2, <1>4, <3>2, <3>4
      <4>2. PICK i \in 1..Len(queue[m]) : queue[m][i] = d
        BY <3>2, <3>4
      <4>3. i \in 1..Len(queue'[m]) /\ queue'[m][i] = d /\ Head(queue'[m]) = Head(queue[m])
        <5>1. PICK q : q = queue[m]
          OBVIOUS
        <5>2. q \in Seq(Calls) /\ queue'[m] = Append(q, c) /\ i \in 1..Len(q) /\ q[i] = d
          BY <4>1, <4>2, <5>1
        <5>3. /\ Len(Append(q, c)) = Len(q) + 1
              /\ \A k \in 1..Len(q) : Append(q, c)[k] = q[k]
              /\ Len(q) \in Nat /\ 1 \in 1..Len(q)
          BY <5>2
        <5>4. Head(Append(q, c)) = Head(q) /\ i \in 1..(Len(q) + 1)
          BY <5>2, <5>3
        <5> QED
          BY <5>1, <5>2, <5>3, <5>4
      <4> QED
        BY <1>4, <3>1, <3>2, <3>4, <4>3, Zenon
    <3> QED
      BY <3>3, <3>4
  <2> QED
    BY <2>1, <2>2
<1>7. AnswerInv'
  BY <1>1 DEF IInv, AnswerInv, Typed
<1> QED
  BY <1>3, <1>5, <1>6, <1>7 DEF IInv

(* Steps that neither move a call nor answer one. *)
LEMMA OtherSteps ==
  ASSUME IInv, UNCHANGED <<entry, queue, pc, mutex, reply>>
  PROVE  IInv'
BY Zenon DEF IInv, Typed, QueueInv, MapInv, AnswerInv, Queued, Inside, Dropped

(* Every step of a call keeps the invariant. *)
LEMMA CallStep ==
  ASSUME IInv, NEW c \in Calls, Proceed(c) \/ Prompted(c)
  PROVE  IInv'
<1>1. CASE Arrive(c)
  BY <1>1, PlaceStep, Zenon DEF Arrive, Places
<1>2. CASE Refuse(c)
  BY <1>2, PlaceStep, Zenon DEF Refuse, Places, Replies
<1>3. CASE Lookup(c)
  BY <1>3, LookupStep
<1>4. CASE Enter(c)
  BY <1>4, PlaceStep, Zenon DEF Enter, Places, Queued
<1>5. CASE Execute(c) \/ BatchFails(c) \/ BatchEnd(c) \/ PushEnds(c) \/ PushTimesOut(c)
  <2>1. Inside(c) /\ UNCHANGED <<mutex, entry>> /\ \E a \in Replies : Leave(c, a)
    BY <1>5 DEF Execute, BatchFails, BatchEnd, PushEnds, PushTimesOut, Inside, Replies
  <2> QED
    BY <2>1, LeaveStep
<1>6. CASE DropFiles(c)
  <2>1. Inside(c) /\ pc[c] = "in" /\ c \in Drops /\ UNCHANGED <<mutex, entry>>
    BY <1>6 DEF DropFiles, Inside
  <2>2. CASE Leave(c, "error")
    BY <2>1, <2>2, LeaveStep DEF Replies
  <2>3. CASE pc' = [pc EXCEPT ![c] = "unmap"] /\ UNCHANGED <<queue, reply>>
    <3>1. Head(queue[mutex[c]]) = c /\ Queued(c)
      BY <2>1 DEF IInv, QueueInv, Queued
    <3> QED
      BY <2>1, <2>3, <3>1, PlaceStep, Zenon DEF Places
  <2> QED
    BY <1>6, <2>2, <2>3 DEF DropFiles
<1>7. CASE DropUnmap(c)
  <2>1. Inside(c) /\ c \in Drops /\ mutex' = mutex /\ entry' = 0 /\ Leave(c, "ok")
    BY <1>7 DEF DropUnmap, Inside, IInv, AnswerInv
  <2> QED
    BY <2>1, LeaveStep DEF Replies
<1>8. CASE BatchStatement(c) \/ PushPage(c)
  BY <1>8, OtherSteps DEF BatchStatement, PushPage
<1> QED
  BY <1>1, <1>2, <1>3, <1>4, <1>5, <1>6, <1>7, <1>8 DEF Proceed, Prompted

(* So does every step. *)
LEMMA NextInv == IInv /\ [Next]_vars => IInv'
<1> SUFFICES ASSUME IInv, [Next]_vars PROVE IInv'
  OBVIOUS
<1>1. CASE RoleChanges \/ UNCHANGED vars
  BY <1>1, OtherSteps DEF RoleChanges, vars
<1>2. CASE \E c \in Calls : Proceed(c) \/ Prompted(c)
  BY <1>2, CallStep
<1> QED
  BY <1>1, <1>2 DEF Next

(* Calls and pushes on one database exclude each other until drop_database has
   removed their mutex (engine.rs, get_db_lock and drop_database), for any
   number of calls. *)
THEOREM MutexKeepsApart == Spec => []OneInside
BY InitInv, NextInv, InvImpliesOneInside, PTL DEF Spec
-----------------------------------------------------------------------------
(* A batch in a transaction leaves all or nothing *)

Statement(c, n) == {<<c, s>> : s \in 1..n}

BatchTyped ==
  /\ mode \in [Batches -> [tx : BOOLEAN, stop : BOOLEAN]]
  /\ done \in [Calls -> Nat]
  /\ failed \in [Batches -> BOOLEAN]
  /\ DOMAIN open = Batches
  /\ opened \in [Calls -> Nat]
  /\ file \in Nat \ {0}
  /\ pc \in [Calls -> Places]
  /\ reply \in [Calls -> Replies]

(* Until it ends, what a batch in a transaction has run is in its transaction
   and not in the database; what it holds open is its own. *)
BatchInv(c) ==
  /\ open[c] \subseteq Statement(c, Statements)
  /\ done[c] <= Statements
  /\ pc[c] # "unmap"
  /\ pc[c] \in {"new", "lookup", "wait"} => done[c] = 0 /\ open[c] = {} /\ ~failed[c]
  /\ pc[c] = "in" => opened[c] # 0
  /\ pc[c] = "in" /\ mode[c].tx /\ ~failed[c] => open[c] = Statement(c, done[c])
  /\ mode[c].tx /\ reply[c] = "none" => \A s \in Nat : <<c, s>> \notin rows

AtomInv == BatchTyped /\ \A c \in Batches : BatchInv(c)

(* Before its first statement a batch has run none. *)
LEMMA NoStatement == \A c : Statement(c, 0) = {}
BY DEF Statement

(* Nothing has run at the start. *)
LEMMA InitAtom == Init => AtomInv
<1> SUFFICES ASSUME Init PROVE AtomInv
  OBVIOUS
<1>1. pc \in [Calls -> Places] /\ reply \in [Calls -> Replies]
  BY DEF Init, Places, Replies
<1>2. BatchTyped
  BY <1>1 DEF Init, BatchTyped
<1>3. Batches \subseteq Calls /\ Statements \in Nat
  BY LocksAssumption DEF Calls
<1>4. ASSUME NEW c \in Batches PROVE BatchInv(c)
  BY <1>3 DEF Init, BatchInv
<1> QED
  BY <1>2, <1>4 DEF AtomInv

(* A step of call d leaves the other batches alone. *)
Apart(d) ==
  \A c \in Batches \ {d} :
    /\ open'[c] = open[c] /\ done'[c] = done[c] /\ pc'[c] = pc[c] /\ failed'[c] = failed[c]
    /\ opened'[c] = opened[c] /\ reply'[c] = reply[c]
    /\ \A s \in Nat : <<c, s>> \in rows' => <<c, s>> \in rows

(* So it keeps their invariant. *)
LEMMA ApartKeeps ==
  ASSUME AtomInv, NEW d, Apart(d), UNCHANGED mode, NEW c \in Batches, c # d
  PROVE  BatchInv(c)'
<1>1. /\ open'[c] = open[c] /\ done'[c] = done[c] /\ pc'[c] = pc[c] /\ failed'[c] = failed[c]
      /\ opened'[c] = opened[c] /\ reply'[c] = reply[c] /\ mode' = mode
      /\ \A s \in Nat : <<c, s>> \in rows' => <<c, s>> \in rows
  BY DEF Apart
<1>2. BatchInv(c)
  BY DEF AtomInv
<1> QED
  BY <1>1, <1>2 DEF BatchInv

(* The effects of another call are its own. *)
LEMMA WrittenApart ==
  ASSUME NEW d, NEW c, c # d, NEW s, <<c, s>> \notin rows, NEW n,
         NEW effect \in SUBSET Statement(d, n)
  PROVE  <<c, s>> \notin Written(d, effect)
BY DEF Written, Statement

(* What AllOrNothing asks of the step that answers c. *)
Whole(c) ==
  reply[c] = "none" /\ reply'[c] # "none" /\ mode[c].tx /\ mode[c].stop /\ opened[c] \in {0, file} =>
    LET mine == {s \in 1..Statements : <<c, s>> \in rows'} IN
    mine = IF reply'[c] = "committed" THEN 1..Statements ELSE {}

(* Calls that are no batches, and batches before they work: Arrive, Refuse,
   Lookup, Enter. *)
LEMMA BeforeWork ==
  ASSUME AtomInv, NEW d \in Calls, Arrive(d) \/ Refuse(d) \/ Lookup(d) \/ Enter(d)
  PROVE  AtomInv' /\ Apart(d) /\ (d \in Batches => Whole(d))
<1>1. UNCHANGED <<mode, done, failed, open, file, rows>>
  BY Zenon DEF Arrive, Refuse, Lookup, Enter
<1>2. /\ pc[d] \in {"new", "lookup", "wait"}
      /\ \E s \in {"lookup", "wait", "in", "done"} :
           /\ pc' = [pc EXCEPT ![d] = s]
           /\ s = "in" => opened' = [opened EXCEPT ![d] = file]
      /\ opened' = opened \/ opened' = [opened EXCEPT ![d] = file]
      /\ reply' = reply \/ reply' = [reply EXCEPT ![d] = "not_leader"]
  BY DEF Arrive, Refuse, Lookup, Enter
<1>3. BatchTyped'
  <2>1. pc' \in [Calls -> Places]
    BY <1>2 DEF AtomInv, BatchTyped, Places
  <2>2. opened' \in [Calls -> Nat] /\ reply' \in [Calls -> Replies]
    BY <1>2 DEF AtomInv, BatchTyped, Replies
  <2> QED
    BY <1>1, <2>1, <2>2 DEF AtomInv, BatchTyped
<1>4. Apart(d)
  <2> SUFFICES ASSUME NEW c \in Batches \ {d}
               PROVE  pc'[c] = pc[c] /\ opened'[c] = opened[c] /\ reply'[c] = reply[c]
    BY <1>1 DEF Apart
  <2>1. c \in Calls
    BY DEF Calls
  <2>2. pc'[c] = pc[c]
    BY <1>2, <2>1 DEF AtomInv, BatchTyped
  <2> QED
    BY <1>2, <2>1, <2>2 DEF AtomInv, BatchTyped
<1>5. ASSUME d \in Batches
      PROVE  BatchInv(d)' /\ Whole(d)
  <2>1. BatchInv(d)
    BY <1>5 DEF AtomInv
  <2>2. /\ done'[d] = 0 /\ open'[d] = {} /\ ~failed'[d] /\ file \in Nat \ {0}
        /\ mode' = mode /\ file' = file
        /\ mode[d].tx /\ reply[d] = "none" => \A s \in Nat : <<d, s>> \notin rows'
    <3>1. done[d] = 0 /\ open[d] = {} /\ ~failed[d]
      BY <1>2, <2>1 DEF BatchInv
    <3>2. mode[d].tx /\ reply[d] = "none" => \A s \in Nat : <<d, s>> \notin rows
      BY <2>1 DEF BatchInv
    <3>3. file \in Nat \ {0}
      BY DEF AtomInv, BatchTyped
    <3> QED
      BY <1>1, <3>1, <3>2, <3>3, Zenon
  <2>3. /\ pc'[d] # "unmap"
        /\ pc'[d] = "in" => opened'[d] # 0
    BY <1>2, <2>2 DEF AtomInv, BatchTyped
  <2>4. /\ reply'[d] = "none" => reply[d] = "none"
        /\ reply'[d] # "committed" \/ reply'[d] = reply[d]
    BY <1>2 DEF AtomInv, BatchTyped
  <2>5. BatchInv(d)'
    <3>1. Statement(d, 0) = {} /\ Statements \in Nat
      BY NoStatement, LocksAssumption
    <3>2. open'[d] \subseteq Statement(d, Statements) /\ done'[d] <= Statements
      BY <2>2, <3>1
    <3>3. open'[d] = Statement(d, done'[d])
      BY <2>2, <3>1
    <3>4. mode'[d].tx /\ reply'[d] = "none" => \A s \in Nat : <<d, s>> \notin rows'
      BY <2>2, <2>4
    <3>5. done'[d] = 0 /\ open'[d] = {} /\ ~failed'[d]
      BY <2>2
    <3> QED
      BY <2>3, <3>2, <3>3, <3>4, <3>5, Zenon DEF BatchInv
  <2>6. Whole(d)
    <3> SUFFICES ASSUME reply[d] = "none", reply'[d] # "none", mode[d].tx
                 PROVE  {s \in 1..Statements : <<d, s>> \in rows'}
                          = IF reply'[d] = "committed" THEN 1..Statements ELSE {}
      BY DEF Whole
    <3>1. reply'[d] # "committed"
      BY <2>4
    <3>2. \A s \in 1..Statements : <<d, s>> \notin rows'
      BY <2>2, LocksAssumption
    <3> QED
      BY <3>1, <3>2
  <2> QED
    BY <2>5, <2>6
<1> QED
  BY <1>1, <1>3, <1>4, <1>5, ApartKeeps DEF AtomInv

(* Calls of the other kinds write only what is theirs. *)
LEMMA OtherKinds ==
  ASSUME AtomInv, NEW d \in Calls \ Batches,
         \/ Execute(d) \/ DropFiles(d) \/ DropUnmap(d) \/ PushPage(d) \/ PushEnds(d) \/ PushTimesOut(d)
  PROVE  AtomInv' /\ Apart(d)
<1>1. /\ UNCHANGED <<mode, failed, open, opened>>
      /\ done' = done \/ done' = [done EXCEPT ![d] = @ + 1]
      /\ file' = file \/ file' = file + 1
      /\ pc' = pc \/ \E s \in {"done", "unmap"} : pc' = [pc EXCEPT ![d] = s]
      /\ reply' = reply \/ \E a \in {"ok", "error", "timeout"} : reply' = [reply EXCEPT ![d] = a]
  BY Zenon DEF Execute, DropFiles, DropUnmap, PushPage, PushEnds, PushTimesOut, Leave
<1>2. rows' = rows \/ rows' = {} \/ rows' = Written(d, {<<d, 1>>})
  BY Zenon DEF Execute, DropFiles, DropUnmap, PushPage, PushEnds, PushTimesOut
<1>3. BatchTyped'
  BY <1>1 DEF AtomInv, BatchTyped, Places, Replies
<1>4. ASSUME NEW c \in Batches, NEW s \in Nat, <<c, s>> \in rows'
      PROVE  <<c, s>> \in rows
  <2>1. c # d
    OBVIOUS
  <2> QED
    BY <1>2, <1>4, <2>1 DEF Written
<1>5. Apart(d)
  BY <1>1, <1>4 DEF Apart, AtomInv, BatchTyped, Calls
<1> QED
  BY <1>1, <1>3, <1>5, ApartKeeps DEF AtomInv

(* A statement of a batch runs in its transaction, if it has one. *)
LEMMA StatementStep ==
  ASSUME AtomInv, NEW d \in Batches, BatchStatement(d)
  PROVE  AtomInv' /\ Apart(d) /\ reply' = reply
<1> DEFINE n == done[d] + 1
<1>1. pc[d] = "in" /\ done[d] < Statements /\ UNCHANGED <<pc, mode, file, opened, reply>>
  BY DEF BatchStatement
<1>2. /\ d \in Calls /\ Statements \in Nat /\ BatchInv(d) /\ done[d] \in Nat
      /\ n \in 1..Statements /\ n = done[d] + 1
  <2>1. d \in Calls /\ Statements \in Nat
    BY LocksAssumption DEF Calls
  <2>2. BatchInv(d) /\ done[d] \in Nat
    BY <2>1 DEF AtomInv, BatchTyped
  <2> QED
    BY <1>1, <2>1, <2>2
<1>3. /\ done' = [done EXCEPT ![d] = n] \/ done' = [done EXCEPT ![d] = Statements]
      /\ failed' = failed \/ failed' = [failed EXCEPT ![d] = TRUE]
  BY DEF BatchStatement
<1>4. /\ open' = open \/ open' = [open EXCEPT ![d] = @ \cup {<<d, n>>}]
      /\ rows' = rows \/ rows' = Written(d, {<<d, n>>})
      /\ mode[d].tx => rows' = rows
  BY DEF BatchStatement
<1>5. \/ failed' = [failed EXCEPT ![d] = TRUE]
      \/ /\ failed' = failed /\ done' = [done EXCEPT ![d] = n]
         /\ mode[d].tx => open' = [open EXCEPT ![d] = @ \cup {<<d, n>>}]
  BY Zenon DEF BatchStatement
<1> HIDE DEF n
<1>6. /\ done' \in [Calls -> Nat] /\ done'[d] \in {n, Statements}
      /\ \A c \in Calls \ {d} : done'[c] = done[c]
  BY <1>2, <1>3 DEF AtomInv, BatchTyped
<1>7. failed' \in [Batches -> BOOLEAN] /\ \A c \in Batches \ {d} : failed'[c] = failed[c]
  BY <1>3, Zenon DEF AtomInv, BatchTyped
<1>8. /\ DOMAIN open' = Batches /\ open'[d] \subseteq open[d] \cup {<<d, n>>}
      /\ \A c \in Batches \ {d} : open'[c] = open[c]
  BY <1>4 DEF AtomInv, BatchTyped
<1>9. BatchTyped'
  BY <1>1, <1>6, <1>7, <1>8, Zenon DEF AtomInv, BatchTyped
<1>10. ASSUME NEW c \in Batches, c # d, NEW s \in Nat, <<c, s>> \in rows'
       PROVE  <<c, s>> \in rows
  BY <1>4, <1>10 DEF Written
<1>11. Apart(d)
  BY <1>1, <1>6, <1>7, <1>8, <1>10 DEF Apart, Calls
<1>12. Statement(d, n) = Statement(d, done[d]) \cup {<<d, n>>} /\ Statement(d, n) \subseteq Statement(d, Statements)
  BY <1>2 DEF Statement
<1>13. open'[d] \subseteq Statement(d, Statements)
  <2>1. open[d] \subseteq Statement(d, Statements)
    BY <1>2 DEF BatchInv
  <2> QED
    BY <1>8, <1>12, <2>1
<1>14. mode[d].tx /\ ~failed'[d] => open'[d] = Statement(d, done'[d])
  <2> SUFFICES ASSUME mode[d].tx, ~failed'[d] PROVE open'[d] = Statement(d, done'[d])
    OBVIOUS
  <2>1. open' = [open EXCEPT ![d] = @ \cup {<<d, n>>}] /\ done'[d] = n /\ ~failed[d]
    BY <1>2, <1>5 DEF AtomInv, BatchTyped
  <2>2. open[d] = Statement(d, done[d])
    BY <1>1, <1>2, <2>1, Zenon DEF BatchInv
  <2>3. open'[d] = open[d] \cup {<<d, n>>}
    BY <2>1 DEF AtomInv, BatchTyped
  <2> QED
    BY <1>12, <2>1, <2>2, <2>3, Zenon
<1>15. BatchInv(d)'
  <2>1. done'[d] <= Statements /\ pc'[d] = "in" /\ mode' = mode /\ opened'[d] = opened[d] /\ reply' = reply
    BY <1>1, <1>2, <1>6
  <2>2. /\ opened[d] # 0
        /\ mode[d].tx /\ reply[d] = "none" => \A s \in Nat : <<d, s>> \notin rows
    BY <1>1, <1>2 DEF BatchInv
  <2>3. mode[d].tx /\ reply[d] = "none" => \A s \in Nat : <<d, s>> \notin rows'
    BY <1>4, <2>2
  <2> QED
    BY <1>13, <1>14, <2>1, <2>2, <2>3, Zenon DEF BatchInv
<1> QED
  BY <1>1, <1>9, <1>11, <1>15, ApartKeeps, Zenon DEF AtomInv

(* A batch ends: its transaction is committed as a whole, or not at all. *)
LEMMA EndStep ==
  ASSUME AtomInv, NEW d \in Batches, BatchFails(d) \/ BatchEnd(d)
  PROVE  AtomInv' /\ Apart(d) /\ Whole(d)
<1>1. /\ pc[d] = "in" /\ pc' = [pc EXCEPT ![d] = "done"]
      /\ UNCHANGED <<mode, done, failed, file, opened>>
      /\ open' = open \/ open' = [open EXCEPT ![d] = {}]
      /\ \/ rows' = rows /\ reply' = [reply EXCEPT ![d] = "error"]
         \/ ~mode[d].tx /\ rows' = rows /\ \E a \in {"committed", "uncommitted"} : reply' = [reply EXCEPT ![d] = a]
         \/ /\ mode[d].tx /\ ~(failed[d] /\ mode[d].stop) /\ done[d] = Statements
            /\ rows' = Written(d, open[d]) /\ reply' = [reply EXCEPT ![d] = "committed"]
         \/ rows' = rows /\ reply' = [reply EXCEPT ![d] = "uncommitted"]
  BY Zenon DEF BatchFails, BatchEnd, Leave, RollsBack
<1>2. d \in Calls /\ Statements \in Nat /\ BatchInv(d) /\ opened[d] # 0
  BY <1>1, LocksAssumption, Zenon DEF AtomInv, BatchInv, Calls
<1>3. BatchTyped'
  BY <1>1, <1>2 DEF AtomInv, BatchTyped, Places, Replies
<1>4. ASSUME NEW c \in Batches, c # d, NEW s \in Nat, <<c, s>> \in rows'
      PROVE  <<c, s>> \in rows
  <2>1. open[d] \in SUBSET Statement(d, Statements)
    BY <1>2, Zenon DEF BatchInv
  <2>2. CASE rows' = rows
    BY <1>4, <2>2
  <2>3. CASE rows' = Written(d, open[d])
    BY <1>4, <2>1, <2>3, WrittenApart
  <2> QED
    BY <1>1, <2>2, <2>3, Zenon
<1>5. Apart(d)
  BY <1>1, <1>4, Zenon DEF Apart, AtomInv, BatchTyped, Calls
<1>6. reply'[d] # "none" /\ pc'[d] = "done" /\ open'[d] \subseteq open[d]
  BY <1>1, <1>2 DEF AtomInv, BatchTyped
<1>7. BatchInv(d)'
  BY <1>1, <1>2, <1>6, Zenon DEF BatchInv
<1>8. Whole(d)
  <2> SUFFICES ASSUME reply[d] = "none", mode[d].tx, mode[d].stop, opened[d] \in {0, file}
               PROVE  {s \in 1..Statements : <<d, s>> \in rows'} = IF reply'[d] = "committed" THEN 1..Statements ELSE {}
    BY DEF Whole
  <2>1. \A s \in Nat : <<d, s>> \notin rows
    BY <1>2, Zenon DEF BatchInv
  <2>2. CASE rows' = rows /\ reply'[d] # "committed"
    BY <1>2, <2>1, <2>2
  <2>3. CASE ~failed[d] /\ done[d] = Statements /\ rows' = Written(d, open[d]) /\ reply'[d] = "committed"
    <3>1. open[d] = Statement(d, Statements)
      BY <1>1, <1>2, <2>3, Zenon DEF BatchInv
    <3>2. rows' = rows \cup Statement(d, Statements)
      BY <1>2, <2>3, <3>1, Zenon DEF Written
    <3>3. \A s \in 1..Statements : <<d, s>> \in rows'
      BY <3>2, Zenon DEF Statement
    <3> QED
      BY <2>3, <3>3, Zenon
  <2> QED
    BY <1>1, <1>2, <2>2, <2>3, Zenon DEF AtomInv, BatchTyped
<1> QED
  BY <1>1, <1>3, <1>5, <1>7, <1>8, ApartKeeps, Zenon DEF AtomInv

(* Every step keeps the invariant and answers a batch with all or nothing. *)
LEMMA NextAtom ==
  ASSUME AtomInv, [Next]_vars
  PROVE  AtomInv' /\ (UNCHANGED vars \/ \A c \in Batches : Whole(c))
<1>1. CASE UNCHANGED vars
  BY <1>1, Zenon DEF vars, AtomInv, BatchTyped, BatchInv
<1>2. CASE RoleChanges
  BY <1>2, Zenon DEF RoleChanges, AtomInv, BatchTyped, BatchInv, Whole
<1>3. ASSUME NEW d \in Calls, Proceed(d) \/ Prompted(d)
      PROVE  AtomInv' /\ \A c \in Batches : Whole(c)
  <2>1. AtomInv' /\ Apart(d) /\ (d \in Batches => Whole(d))
    <3>1. CASE Arrive(d) \/ Refuse(d) \/ Lookup(d) \/ Enter(d)
      BY <3>1, BeforeWork
    <3>2. CASE Execute(d) \/ DropFiles(d) \/ DropUnmap(d) \/ PushPage(d) \/ PushEnds(d) \/ PushTimesOut(d)
      <4>1. d \notin Batches
        BY <3>2, LocksAssumption, Zenon
           DEF Execute, DropFiles, DropUnmap, PushPage, PushEnds, PushTimesOut, AtomInv, BatchInv
      <4> QED
        BY <3>2, <4>1, OtherKinds
    <3>3. CASE BatchStatement(d)
      <4>1. d \in Batches /\ reply' = reply
        BY <3>3, Zenon DEF BatchStatement
      <4> QED
        BY <3>3, <4>1, StatementStep DEF Whole
    <3>4. CASE BatchFails(d) \/ BatchEnd(d)
      BY <3>4, EndStep, Zenon DEF BatchFails, BatchEnd
    <3> QED
      BY <1>3, <3>1, <3>2, <3>3, <3>4 DEF Proceed, Prompted
  <2>2. \A c \in Batches \ {d} : Whole(c)
    BY <2>1, Zenon DEF Apart, Whole
  <2> QED
    BY <2>1, <2>2
<1> QED
  BY <1>1, <1>2, <1>3 DEF Next

(* A batch in a transaction that stops at errors leaves all of its statements in
   the database and says "committed", or none (engine.rs, batch), for any number
   of statements and of other calls. *)
THEOREM BatchesAreAtomic == Spec => AllOrNothing
<1>1. AtomInv /\ [Next]_vars => AtomInv'
  BY NextAtom
<1>2. AtomInv /\ [Next]_vars => [\A c \in Batches : Whole(c)]_vars
  BY NextAtom
<1>3. [\A c \in Batches : Whole(c)]_vars =>
      [\A c \in Batches :
       reply[c] = "none" /\ reply'[c] # "none" /\ mode[c].tx /\ mode[c].stop
       /\ opened[c] \in {0, file} =>
         LET mine == {s \in 1..Statements : <<c, s>> \in rows'} IN
         mine = IF reply'[c] = "committed" THEN 1..Statements ELSE {}]_vars
  BY DEF Whole
<1> QED
  BY <1>1, <1>2, <1>3, InitAtom, PTL DEF Spec, AllOrNothing
=============================================================================
