---------------------------- MODULE InputsLemmas ----------------------------
(* What the operators on texts, frames, records, names, scripts and sessions
   compute, for inputs of every length: one lemma for each property that Inputs
   states of an input, and the lemmas below it.  A recursive function over the
   places of a sequence is met by induction over these places, which rests on one
   hypothesis about numbers, WellOrdered. *)
EXTENDS Framing, Records, Shell, Databases, Endpoints, TLAPS

-----------------------------------------------------------------------------
(* Induction over the places of a sequence, and recursion over them. *)

(* Every set of numbers that is not empty has a least one. It is a hypothesis of
   the lemmas that induct; InputsProofs proves it from the library. *)
WellOrdered == \A S \in SUBSET Nat : S # {} => \E x \in S : \A y \in S : x <= y

(* The least number of a set. *)
LEMMA SmallestOf ==
  ASSUME WellOrdered, NEW S, S \subseteq Nat, S # {}
  PROVE  \E x \in S : \A y \in S : x <= y
BY Zenon DEF WellOrdered

(* A set that holds 0, and with a number up to n the next, holds all up to n. *)
LEMMA Upwards ==
  ASSUME WellOrdered, NEW n \in Nat, NEW T, 0 \in T, \A i \in 1..n : i - 1 \in T => i \in T
  PROVE  \A i \in 0..n : i \in T
<1> DEFINE Wrong == {i \in 0..n : i \notin T}
<1>1. SUFFICES ASSUME Wrong # {} PROVE FALSE
  BY Zenon
<1>2. Wrong \subseteq Nat
  OBVIOUS
<1>3. PICK m \in Wrong : \A k \in Wrong : m <= k
  <2> HIDE DEF Wrong
  <2> QED BY <1>1, <1>2, SmallestOf, Zenon
<1>4. m \in 0..n /\ m \notin T
  BY <1>3, Zenon
<1>5. m \in 1..n /\ m - 1 \in 0..n /\ ~(m <= m - 1)
  BY <1>4
<1>6. m - 1 \in T
  BY <1>3, <1>5, Zenon
<1> QED BY <1>4, <1>5, <1>6, Zenon

(* The values of a recursion over the places of a sequence: one for the start and
   one after each place. *)
IsRow(f, n, start, step) == f[0] = start /\ \A i \in 1..n : f[i] = step[i][f[i - 1]]

(* A recursion over the places of a sequence has its values. *)
LEMMA Rows ==
  ASSUME WellOrdered, NEW n \in Nat, NEW S, NEW start \in S, NEW step \in [1..n -> [S -> S]]
  PROVE  \E f \in [0..n -> S] : IsRow(f, n, start, step)
<1> DEFINE T == {m \in 0..n : \E f \in [0..m -> S] : IsRow(f, m, start, step)}
<1>1. 0 \in T
  <2>1. PICK f : f = [i \in 0..0 |-> start]
    BY Zenon
  <2>2. f \in [0..0 -> S] /\ IsRow(f, 0, start, step)
    BY <2>1 DEF IsRow
  <2> QED BY <2>2
<1>2. ASSUME NEW m \in 1..n, m - 1 \in T PROVE m \in T
  <2>1. PICK f \in [0..(m - 1) -> S] : IsRow(f, m - 1, start, step)
    BY <1>2, Zenon
  <2>2. PICK g : g = [i \in 0..m |-> IF i = m THEN step[m][f[m - 1]] ELSE f[i]]
    BY Zenon
  <2>3. \A i \in 0..m : g[i] = IF i = m THEN step[m][f[m - 1]] ELSE f[i]
    BY <2>2
  <2>4. f[m - 1] \in S /\ step[m] \in [S -> S]
    BY <2>1
  <2>5. step[m][f[m - 1]] \in S
    BY <2>4
  <2>6. g \in [0..m -> S]
    <3>1. ASSUME NEW i \in 0..m PROVE (IF i = m THEN step[m][f[m - 1]] ELSE f[i]) \in S
      <4>1. i # m => i \in 0..(m - 1)
        OBVIOUS
      <4> QED BY <2>1, <2>5, <4>1
    <3> QED BY <2>2, <3>1
  <2>7. IsRow(g, m, start, step)
    <3>1. g[0] = start
      <4>1. 0 \in 0..m /\ 0 # m
        OBVIOUS
      <4> QED BY <2>1, <2>3, <4>1 DEF IsRow
    <3>2. ASSUME NEW i \in 1..m PROVE g[i] = step[i][g[i - 1]]
      <4>1. i \in 0..m /\ i - 1 \in 0..m /\ i - 1 # m /\ (i # m => i \in 1..(m - 1))
        OBVIOUS
      <4>2. g[i - 1] = f[i - 1]
        BY <2>3, <4>1, Zenon
      <4>3. CASE i = m
        BY <2>3, <4>1, <4>2, <4>3, Zenon
      <4>4. CASE i # m
        BY <2>1, <2>3, <4>1, <4>2, <4>4, Zenon DEF IsRow
      <4> QED BY <4>3, <4>4, Zenon
    <3> QED BY <3>1, <3>2, Zenon DEF IsRow
  <2>8. m \in 0..n
    OBVIOUS
  <2> QED BY <2>6, <2>7, <2>8, Zenon
<1>3. \A i \in 0..n : i \in T
  <2> HIDE DEF T
  <2> QED BY <1>1, <1>2, Upwards, Zenon
<1>4. n \in 0..n
  OBVIOUS
<1> QED BY <1>3, <1>4, Zenon

(* What a recursion computes is in a set its steps do not leave. *)
LEMMA RowsTyped ==
  ASSUME WellOrdered, NEW n \in Nat, NEW S, NEW f, f[0] \in S, \A i \in 1..n : f[i - 1] \in S => f[i] \in S
  PROVE  \A i \in 0..n : f[i] \in S
<1> DEFINE T == {i \in 0..n : f[i] \in S}
<1>1. 0 \in T /\ \A i \in 1..n : i - 1 \in T => i \in T
  OBVIOUS
<1>2. \A i \in 0..n : i \in T
  <2> HIDE DEF T
  <2> QED BY <1>1, Upwards, Zenon
<1> QED BY <1>2, Zenon

-----------------------------------------------------------------------------
(* Parts of sequences *)

(* The least and the largest of some places. *)
LEMMA FirstPlace ==
  ASSUME WellOrdered, NEW S, S \subseteq Nat, S # {}
  PROVE  Min(S) \in S /\ \A y \in S : Min(S) <= y
BY SmallestOf, Zenon DEF Min

(* The greatest of some places. *)
LEMMA LastPlace ==
  ASSUME WellOrdered, NEW n \in Nat, NEW S, S \subseteq 0..n, S # {}
  PROVE  Max(S) \in S /\ \A y \in S : Max(S) >= y
<1> DEFINE T == {n - x : x \in S}
<1>1. T \subseteq Nat /\ T # {}
  <2>1. \A x \in S : n - x \in Nat
    OBVIOUS
  <2> QED BY <2>1, Zenon
<1>2. PICK t \in T : \A y \in T : t <= y
  <2> HIDE DEF T
  <2> QED BY <1>1, SmallestOf, Zenon
<1>3. PICK x \in S : t = n - x
  BY <1>2
<1>4. ASSUME NEW y \in S PROVE x >= y
  <2>1. n - y \in T
    OBVIOUS
  <2>2. n - x <= n - y
    BY <1>2, <1>3, <2>1, Zenon
  <2> QED BY <2>2
<1> QED BY <1>4, Zenon DEF Max

(* A function on the first numbers is a sequence. *)
LEMMA SeqFrom ==
  ASSUME NEW C, NEW k \in Nat, NEW h \in [1..k -> C]
  PROVE  h \in Seq(C) /\ Len(h) = k
OBVIOUS

(* An element of a sequence has its type. *)
LEMMA SeqElement ==
  ASSUME NEW C, NEW s \in Seq(C), NEW i \in 1..Len(s)
  PROVE  s[i] \in C
OBVIOUS

(* A part of a sequence is one, of known length. *)
LEMMA PartTyped ==
  ASSUME NEW C, NEW s \in Seq(C), NEW m \in 1..(Len(s) + 1), NEW n \in (m - 1)..Len(s)
  PROVE  SubSeq(s, m, n) \in Seq(C) /\ Len(SubSeq(s, m, n)) = n - m + 1
OBVIOUS

(* A sequence with one element more is one. *)
LEMMA AppendTyped ==
  ASSUME NEW C, NEW s \in Seq(C), NEW e \in C
  PROVE  Append(s, e) \in Seq(C)
OBVIOUS

(* A length is a number. *)
LEMMA LenTyped ==
  ASSUME NEW C, NEW s \in Seq(C)
  PROVE  Len(s) \in Nat
OBVIOUS

(* A part of a sequence is one, also when it begins behind its end. *)
LEMMA CutTyped ==
  ASSUME NEW C, NEW s \in Seq(C), NEW m \in Nat \ {0}, NEW e \in 0..Len(s)
  PROVE  SubSeq(s, m, e) \in Seq(C)
OBVIOUS

(* What was joined can be cut apart. *)
LEMMA JoinParts ==
  ASSUME NEW C, NEW s \in Seq(C), NEW t \in Seq(C)
  PROVE  SubSeq(s \o t, 1, Len(s)) = s /\ SubSeq(s \o t, Len(s) + 1, Len(s) + Len(t)) = t
OBVIOUS

(* A sequence over a set is one over a larger set. *)
LEMMA SeqWider ==
  ASSUME NEW C, NEW D, C \subseteq D, NEW s \in Seq(C)
  PROVE  s \in Seq(D)
OBVIOUS

(* Sequences with the same elements are the same. *)
LEMMA SeqEqual ==
  ASSUME NEW C, NEW s \in Seq(C), NEW t \in Seq(C), Len(s) = Len(t), \A i \in 1..Len(s) : s[i] = t[i]
  PROVE  s = t
OBVIOUS

(* The elements of a part. *)
LEMMA PartIs ==
  ASSUME NEW C, NEW text \in Seq(C), NEW m \in Nat \ {0}, NEW n \in Nat,
         m - 1 <= n, n <= Len(text)
  PROVE  /\ SubSeq(text, m, n) \in Seq(C)
         /\ Len(SubSeq(text, m, n)) = n - m + 1
         /\ \A j \in 1..(n - m + 1) : SubSeq(text, m, n)[j] = text[m + j - 1]
OBVIOUS

(* The elements of two sequences one after the other. *)
LEMMA JoinIs ==
  ASSUME NEW C, NEW s \in Seq(C), NEW t \in Seq(C)
  PROVE  /\ s \o t \in Seq(C) /\ Len(s \o t) = Len(s) + Len(t)
         /\ \A j \in 1..(Len(s) + Len(t)) : (s \o t)[j] = IF j <= Len(s) THEN s[j] ELSE t[j - Len(s)]
OBVIOUS

(* Two parts that meet are one part. *)
LEMMA AdjacentParts ==
  ASSUME NEW C, NEW s \in Seq(C), NEW m \in 1..(Len(s) + 1), NEW k \in (m - 1)..Len(s), NEW n \in k..Len(s)
  PROVE  SubSeq(s, m, k) \o SubSeq(s, k + 1, n) = SubSeq(s, m, n)
OBVIOUS

(* The elements after an Append. *)
LEMMA AppendIs ==
  ASSUME NEW C, NEW s \in Seq(C), NEW e \in C, NEW n \in Nat, DOMAIN s = 1..n
  PROVE  Append(s, e) = [k \in 1..(n + 1) |-> IF k = n + 1 THEN e ELSE s[k]]
<1>1. Len(s) = n
  OBVIOUS
<1>2. PICK t : t = [k \in 1..(n + 1) |-> IF k = n + 1 THEN e ELSE s[k]]
  BY Zenon
<1>3. t \in Seq(C) /\ Len(t) = n + 1 /\ \A k \in 1..(n + 1) : t[k] = IF k = n + 1 THEN e ELSE s[k]
  BY <1>1, <1>2
<1>4. \A k \in 1..(n + 1) : t[k] = Append(s, e)[k]
  BY <1>1, <1>3
<1>5. Append(s, e) \in Seq(C) /\ Len(Append(s, e)) = n + 1
  BY <1>1
<1>6. t = Append(s, e)
  BY <1>3, <1>4, <1>5
<1> QED BY <1>2, <1>6, Zenon

-----------------------------------------------------------------------------
(* Sequences one after the other *)

(* The recursion behind Concats, and its type. *)
LEMMA ConcatsIs ==
  ASSUME WellOrdered, NEW C, NEW parts \in Seq(Seq(C))
  PROVE  /\ Concats(parts)[0] = <<>>
         /\ \A i \in 1..Len(parts) : Concats(parts)[i] = Concats(parts)[i - 1] \o parts[i]
         /\ \A i \in 0..Len(parts) : Concats(parts)[i] \in Seq(C)
<1> DEFINE n == Len(parts)
           S == Seq(C)
           op(i, s) == s \o parts[i]
           step == [i \in 1..n |-> [s \in S |-> op(i, s)]]
           Step(f) == [i \in 0..n |-> IF i = 0 THEN <<>> ELSE op(i, f[i - 1])]
<1>1. n \in Nat /\ <<>> \in S /\ \A i \in 1..n, s \in S : op(i, s) \in S
  OBVIOUS
<1>2. Concats(parts) = CHOOSE f : f = Step(f)
  BY Zenon DEF Concats
<1> HIDE DEF n, S, op
<1>3. PICK f \in [0..n -> S] : IsRow(f, n, <<>>, step)
  <2>1. step \in [1..n -> [S -> S]]
    BY <1>1
  <2> HIDE DEF step
  <2> QED BY <1>1, <2>1, Rows, Zenon
<1>4. f = Step(f)
  <2>1. f[0] = <<>>
    BY <1>3, Zenon DEF IsRow
  <2>2. ASSUME NEW i \in 1..n PROVE f[i] = op(i, f[i - 1])
    <3>1. f[i - 1] \in S
      BY <1>1
    <3>2. step[i][f[i - 1]] = op(i, f[i - 1])
      BY <3>1, Zenon
    <3> QED BY <1>3, <3>2, Zenon DEF IsRow
  <2> QED BY <1>1, <2>1, <2>2
<1>5. PICK g : g = Concats(parts) /\ g = Step(g)
  BY <1>2, <1>4, Zenon
<1>6. g[0] = <<>> /\ \A i \in 1..n : g[i] = op(i, g[i - 1])
  BY <1>1, <1>5
<1>7. ASSUME NEW i \in 1..n, g[i - 1] \in S PROVE g[i] \in S
  BY <1>1, <1>6, <1>7, Zenon
<1>8. \A i \in 0..n : g[i] \in S
  BY <1>1, <1>6, <1>7, RowsTyped, Zenon
<1> QED BY <1>5, <1>6, <1>8, Zenon DEF n, S, op

(* One sequence more. *)
(* Another one behind them changes nothing before it. *)
LEMMA ConcatsStay ==
  ASSUME WellOrdered, NEW C, NEW parts \in Seq(Seq(C)), NEW part \in Seq(C)
  PROVE  \A i \in 0..Len(parts) : Concats(Append(parts, part))[i] = Concats(parts)[i]
<1>1. PICK more : more = Append(parts, part)
  BY Zenon
<1>2. PICK n \in Nat : n = Len(parts)
  OBVIOUS
<1>3. more \in Seq(Seq(C)) /\ Len(more) = n + 1 /\ \A i \in 1..n : more[i] = parts[i]
  BY <1>1, <1>2
<1>4. PICK f, g : f = Concats(parts) /\ g = Concats(more)
  BY Zenon
<1>5. f[0] = <<>> /\ \A i \in 1..n : f[i] = f[i - 1] \o parts[i]
  BY <1>2, <1>4, ConcatsIs, Zenon
<1>6. g[0] = <<>> /\ \A i \in 1..(n + 1) : g[i] = g[i - 1] \o more[i]
  BY <1>3, <1>4, ConcatsIs, Zenon
<1> DEFINE T == {i \in 0..n : g[i] = f[i]}
<1>7. \A i \in 0..n : i \in T
  <2>1. 0 \in T
    BY <1>5, <1>6
  <2>2. ASSUME NEW i \in 1..n, i - 1 \in T PROVE i \in T
    <3>1. i \in 0..n /\ i \in 1..(n + 1)
      OBVIOUS
    <3> QED BY <1>3, <1>5, <1>6, <2>2, <3>1, Zenon
  <2> HIDE DEF T
  <2> QED BY <2>1, <2>2, Upwards, Zenon
<1> QED BY <1>1, <1>2, <1>4, <1>7, Zenon

(* One more part at the end. *)
LEMMA ConcatAppend ==
  ASSUME WellOrdered, NEW C, NEW parts \in Seq(Seq(C)), NEW part \in Seq(C)
  PROVE  /\ Concat(parts) \in Seq(C)
         /\ Concat(Append(parts, part)) = Concat(parts) \o part
<1>1. PICK more : more = Append(parts, part)
  BY Zenon
<1>2. PICK n \in Nat : n = Len(parts)
  OBVIOUS
<1>3. more \in Seq(Seq(C)) /\ Len(more) = n + 1 /\ more[n + 1] = part
  BY <1>1, <1>2
<1>4. PICK f, g : f = Concats(parts) /\ g = Concats(more)
  BY Zenon
<1>5. n \in 0..n /\ n + 1 \in 1..(n + 1) /\ (n + 1) - 1 = n
  OBVIOUS
<1>6. f[n] \in Seq(C)
  BY <1>2, <1>4, <1>5, ConcatsIs, Zenon
<1>7. g[n + 1] = g[n] \o more[n + 1]
  BY <1>3, <1>4, <1>5, ConcatsIs, Zenon
<1>8. g[n] = f[n]
  BY <1>1, <1>2, <1>4, <1>5, ConcatsStay, Zenon
<1>9. f[n] \in Seq(C) /\ g[n + 1] = f[n] \o part
  BY <1>3, <1>6, <1>7, <1>8, Zenon
<1> QED BY <1>1, <1>2, <1>3, <1>4, <1>9, Zenon DEF Concat

(* No parts are nothing. *)
LEMMA ConcatNone ==
  ASSUME WellOrdered
  PROVE  Concat(<<>>) = <<>>
<1>1. <<>> \in Seq(Seq({})) /\ Len(<<>>) = 0
  OBVIOUS
<1> QED BY <1>1, ConcatsIs, Zenon DEF Concat

-----------------------------------------------------------------------------
(* Numbers *)

(* The numbers that the first digits of a text are. *)
LEMMA NumbersAre ==
  ASSUME WellOrdered, NEW digits \in Seq(Nat), NEW base \in Nat
  PROVE  /\ Numbers(digits, base)[0] = 0
         /\ \A i \in 1..Len(digits) :
              Numbers(digits, base)[i] = Numbers(digits, base)[i - 1] * base + digits[i]
         /\ \A i \in 0..Len(digits) : Numbers(digits, base)[i] \in Nat
<1> DEFINE n == Len(digits)
           S == Nat
           op(i, s) == s * base + digits[i]
           step == [i \in 1..n |-> [s \in S |-> op(i, s)]]
           Step(f) == [i \in 0..n |-> IF i = 0 THEN 0 ELSE op(i, f[i - 1])]
<1>1. n \in Nat /\ 0 \in S /\ \A i \in 1..n, s \in S : op(i, s) \in S
  OBVIOUS
<1>2. Numbers(digits, base) = CHOOSE f : f = Step(f)
  BY Zenon DEF Numbers
<1> HIDE DEF n, S, op
<1>3. PICK f \in [0..n -> S] : IsRow(f, n, 0, step)
  <2>1. step \in [1..n -> [S -> S]]
    BY <1>1
  <2> HIDE DEF step
  <2> QED BY <1>1, <2>1, Rows, Zenon
<1>4. f = Step(f)
  <2>1. f[0] = 0
    BY <1>3, Zenon DEF IsRow
  <2>2. ASSUME NEW i \in 1..n PROVE f[i] = op(i, f[i - 1])
    <3>1. f[i - 1] \in S
      BY <1>1
    <3>2. step[i][f[i - 1]] = op(i, f[i - 1])
      BY <3>1, Zenon
    <3> QED BY <1>3, <3>2, Zenon DEF IsRow
  <2> QED BY <1>1, <2>1, <2>2
<1>5. PICK g : g = Numbers(digits, base) /\ g = Step(g)
  BY <1>2, <1>4, Zenon
<1>6. g[0] = 0 /\ \A i \in 1..n : g[i] = op(i, g[i - 1])
  BY <1>1, <1>5
<1>7. \A i \in 0..n : g[i] \in S
  <2>1. g[0] \in S
    BY <1>1, <1>6
  <2>2. \A i \in 1..n : g[i - 1] \in S => g[i] \in S
    BY <1>1, <1>6, Zenon
  <2> QED BY <1>1, <2>1, <2>2, RowsTyped, Zenon
<1>8. /\ g[0] = 0 /\ \A i \in 1..Len(digits) : g[i] = g[i - 1] * base + digits[i]
      /\ \A i \in 0..Len(digits) : g[i] \in Nat
  BY <1>6, <1>7, Zenon DEF n, S, op
<1> QED BY <1>5, <1>8, Zenon

-----------------------------------------------------------------------------
(* Records: a text that is read while it is written *)

(* TornIsNoBetter for every holder and all numbers (serialize_lease_record,
   parse_lease_record, parse_freshness_ledger). *)
LEMMA RecordsSurvive ==
  ASSUME WellOrdered
  PROVE  \A holder, generation, renewed, ttl \in Seq(Nat) :
           holder # <<>> /\ IsU64(generation) /\ IsU64(renewed) /\ IsU64(ttl)
             => TornIsNoBetter(holder, generation, renewed, ttl)
<1>TimesAtLeast.
    ASSUME NEW x \in Nat, NEW b \in Nat \ {0}
    PROVE  x * b \in Nat /\ x * b >= x
  <2>1. PICK c \in Nat : b = c + 1
    <3>1. b - 1 \in Nat /\ b = (b - 1) + 1
      OBVIOUS
    <3> QED BY <3>1
  <2>2. x * (c + 1) = x * c + x /\ x * c \in Nat
    OBVIOUS
  <2> QED BY <2>1, <2>2

(* The first digits of a number are a number that is not larger. *)
<1>FewerDigits.
    ASSUME NEW digits \in Seq(Nat), NEW base \in Nat \ {0}, NEW j \in 0..Len(digits)
    PROVE  /\ Number(digits, base) \in Nat /\ Number(SubSeq(digits, 1, j), base) \in Nat
           /\ Number(SubSeq(digits, 1, j), base) <= Number(digits, base)
  <2>1. PICK n \in Nat : n = Len(digits)
    OBVIOUS
  <2>2. PICK d : d = SubSeq(digits, 1, j)
    BY Zenon
  <2>3. d \in Seq(Nat) /\ Len(d) = j /\ j \in 0..n /\ \A i \in 1..j : d[i] = digits[i]
    BY <2>1, <2>2
  <2>4. PICK f, g : f = Numbers(digits, base) /\ g = Numbers(d, base)
    BY Zenon
  <2>5. /\ f[0] = 0 /\ \A i \in 1..n : f[i] = f[i - 1] * base + digits[i]
        /\ \A i \in 0..n : f[i] \in Nat
    BY <2>1, <2>4, NumbersAre, Zenon
  <2>6. /\ g[0] = 0 /\ \A i \in 1..j : g[i] = g[i - 1] * base + d[i]
        /\ \A i \in 0..j : g[i] \in Nat
    BY <2>3, <2>4, NumbersAre, Zenon
  <2> DEFINE T == {i \in 0..j : g[i] = f[i]}
  <2>7. g[j] = f[j]
    <3>1. 0 \in T
      BY <2>3, <2>5, <2>6
    <3>2. ASSUME NEW i \in 1..j, i - 1 \in T PROVE i \in T
      <4>1. i \in 0..j /\ i \in 1..n
        BY <2>3
      <4>2. g[i - 1] = f[i - 1]
        BY <3>2, Zenon
      <4>3. g[i] = f[i]
        BY <2>3, <2>5, <2>6, <4>1, <4>2, Zenon
      <4> QED BY <4>1, <4>3, Zenon
    <3>3. j \in Nat /\ j \in 0..j
      BY <2>3
    <3> HIDE DEF T
    <3>4. j \in T
      BY <3>1, <3>2, <3>3, Upwards, Zenon
    <3> QED BY <3>4, Zenon DEF T
  <2> DEFINE U == {i \in 0..n : i >= j => f[i] >= f[j]}
  <2>8. f[n] >= f[j]
    <3>1. 0 \in U
      BY <2>1, <2>3, <2>5
    <3>2. ASSUME NEW i \in 1..n, i - 1 \in U PROVE i \in U
      <4>1. i \in 0..n /\ i - 1 \in 0..n /\ f[i - 1] \in Nat /\ f[i] \in Nat /\ f[j] \in Nat
        BY <2>3, <2>5
      <4>2. digits[i] \in Nat /\ f[i] = f[i - 1] * base + digits[i]
        BY <2>1, <2>5
      <4>3. f[i - 1] * base >= f[i - 1] /\ f[i - 1] * base \in Nat
        BY <4>1, <1>TimesAtLeast, Zenon
      <4>4. f[i] >= f[i - 1]
        <5>1. PICK x \in Nat : x = f[i - 1] * base /\ x >= f[i - 1]
          BY <4>3, Zenon
        <5>2. PICK z \in Nat : z = digits[i] /\ f[i] = x + z
          BY <4>2, <5>1, Zenon
        <5>3. PICK y \in Nat, w \in Nat : y = f[i - 1] /\ w = f[i] /\ x >= y /\ w = x + z
          BY <4>1, <5>1, <5>2, Zenon
        <5>4. w >= y
          BY <5>3
        <5> QED BY <5>3, <5>4, Zenon
      <4>5. i >= j => i = j \/ i - 1 >= j
        BY <2>3
      <4>6. i - 1 >= j => f[i - 1] >= f[j]
        BY <3>2, Zenon
      <4>7. i >= j => f[i] >= f[j]
        BY <4>1, <4>4, <4>5, <4>6
      <4> QED BY <4>1, <4>7, Zenon
    <3>3. n \in 0..n /\ n >= j
      BY <2>3
    <3> HIDE DEF U
    <3>4. n \in U
      BY <2>1, <3>1, <3>2, <3>3, Upwards, Zenon
    <3> QED BY <3>3, <3>4, Zenon DEF U
  <2>9. f[n] \in Nat /\ f[j] \in Nat
    BY <2>3, <2>5
  <2> QED BY <2>1, <2>2, <2>3, <2>4, <2>7, <2>8, <2>9, Zenon DEF Number

<1> DEFINE
  (* A text without blank lines that has each key once. *)
  Distinct(text, n) ==
    /\ DOMAIN text = 1..n
    /\ \A i \in 1..n : text[i].key # "blank"
    /\ \A i, j \in 1..n : text[i].key = text[j].key => i = j
  (* What such a text is read as. *)
  ReadAs(map, text, n, allowed) ==
    /\ DOMAIN map = {text[i].key : i \in 1..n} /\ DOMAIN map \subseteq allowed
    /\ \A i \in 1..n : map[text[i].key] = text[i].value
<1> HIDE DEF Distinct, ReadAs

<1>KeysRead.
    ASSUME NEW n \in Nat, NEW text, Distinct(text, n), NEW allowed,
           NEW map \in parse_kv_lines(text, allowed)
    PROVE  ReadAs(map, text, n, allowed)
  <2> USE <1>KeysRead
  <2> DEFINE lines == {i \in DOMAIN text : text[i].key # "blank"}
             keys == {text[i].key : i \in lines}
             last(k) == Max({i \in lines : text[i].key = k})
  <2>1. lines = 1..n
    BY Zenon DEF Distinct
  <2>2. keys \subseteq allowed /\ map = [k \in keys |-> text[last(k)].value]
    BY Zenon DEF parse_kv_lines
  <2>3. ASSUME NEW i \in 1..n PROVE last(text[i].key) = i
    <3>1. {j \in 1..n : text[j].key = text[i].key} = {i}
      BY Zenon DEF Distinct
    <3>2. PICK one : one = {i}
      BY Zenon
    <3>3. one \subseteq 0..n /\ one # {}
      BY <3>2
    <3>4. Max(one) \in one
      BY <3>3, LastPlace, Zenon
    <3> QED BY <2>1, <3>1, <3>2, <3>4, Zenon
  <2>4. \A i \in 1..n : text[i].key \in keys
    BY <2>1, Zenon
  <2> HIDE DEF last
  <2>5. \A i \in 1..n : map[text[i].key] = text[i].value
    BY <2>2, <2>3, <2>4, Zenon
  <2> QED BY <2>1, <2>2, <2>5, Zenon DEF ReadAs

<1> DEFINE
  (* A record is made of a text that has its keys and no other, and the numbers
     among its values read as numbers. *)
  KeyedBy(text, n, name, numbers) ==
    name = text[1].key /\ numbers = {text[i].key : i \in 2..n}
  RecordOf(map, name, numbers) ==
    [k \in {name} \cup numbers |-> IF k = name THEN map[k] ELSE ValueOf(map[k])]
  ReadFrom(map, text, n, name, numbers) ==
    /\ \A i \in 1..n : map[text[i].key] = text[i].value
    /\ \A r \in Fields(text, name, numbers) : r = RecordOf(map, name, numbers)
    /\ text[1].value # <<>> /\ (\A i \in 2..n : IsU64(text[i].value))
         => Fields(text, name, numbers) = {RecordOf(map, name, numbers)}
<1> HIDE DEF KeyedBy, RecordOf, ReadFrom

<1>FieldsAre.
    ASSUME NEW n \in Nat \ {0}, NEW text, Distinct(text, n), NEW name, NEW numbers,
           KeyedBy(text, n, name, numbers)
    PROVE  \E map : ReadFrom(map, text, n, name, numbers)
  <2> USE <1>FieldsAre
  <2> DEFINE keys == {name} \cup numbers
             Record(m) == RecordOf(m, name, numbers)
             Good(m) == require_non_empty(m, name) /\ \A k \in numbers : require_u64(m, k)
  <2>1. /\ n \in Nat /\ 1 \in 1..n /\ 2..n \subseteq 1..n
        /\ (\A i \in 1..n : i = 1 \/ i \in 2..n) /\ 1 \notin 2..n
    OBVIOUS
  <2>2. {text[i].key : i \in 1..n} = keys
    BY <2>1, Zenon DEF KeyedBy
  <2>3. PICK map : parse_kv_lines(text, keys) = {map}
    <3>1. {i \in DOMAIN text : text[i].key # "blank"} = 1..n
      BY Zenon DEF Distinct
    <3> HIDE DEF keys
    <3> QED BY <2>2, <3>1, Zenon DEF parse_kv_lines
  <2>4. DOMAIN map = keys /\ \A i \in 1..n : map[text[i].key] = text[i].value
    <3> HIDE DEF keys
    <3>1. map \in parse_kv_lines(text, keys)
      BY <2>3, Zenon
    <3>2. ReadAs(map, text, n, keys)
      BY <2>1, <3>1, <1>KeysRead, Zenon
    <3> QED BY <2>2, <3>2, Zenon DEF ReadAs
  <2>5. \A k \in numbers : k # name /\ k \in keys
    <3>1. ASSUME NEW i \in 2..n PROVE text[i].key # name
      <4>1. i \in 1..n /\ i # 1
        BY <2>1, Zenon
      <4> QED BY <2>1, <4>1, Zenon DEF Distinct, KeyedBy
    <3> QED BY <3>1, Zenon DEF KeyedBy
  <2>6. Fields(text, name, numbers) = {Record(m) : m \in {m \in {map} : Good(m)}}
    BY <2>3, Zenon DEF Fields, RecordOf
  <2>7. Good(map) <=> text[1].value # <<>> /\ \A i \in 2..n : IsU64(text[i].value)
    <3>1. require_non_empty(map, name) <=> text[1].value # <<>>
      BY <2>1, <2>4, Zenon DEF require_non_empty, KeyedBy
    <3>2. (\A k \in numbers : require_u64(map, k)) <=> \A i \in 2..n : IsU64(text[i].value)
      <4>1. ASSUME NEW i \in 2..n PROVE require_u64(map, text[i].key) <=> IsU64(text[i].value)
        <5>1. i \in 1..n /\ text[i].key \in numbers
          BY <2>1, Zenon DEF KeyedBy
        <5>2. text[i].key \in DOMAIN map /\ map[text[i].key] = text[i].value
          BY <2>4, <2>5, <5>1, Zenon
        <5> QED BY <5>2, Zenon DEF require_u64
      <4> QED BY <4>1, Zenon DEF KeyedBy
    <3> QED BY <3>1, <3>2, Zenon
  <2> HIDE DEF Good
  <2>8. \A r \in Fields(text, name, numbers) : r = Record(map) /\ Good(map)
    BY <2>6, Zenon
  <2>9. Good(map) => Fields(text, name, numbers) = {Record(map)}
    <3> HIDE DEF Record
    <3> QED BY <2>6, Zenon
  <2> QED BY <2>4, <2>7, <2>8, <2>9, Zenon DEF ReadFrom

(* No record is made of a text with a key too few, or with another one. *)
<1>NoFields.
    ASSUME NEW n \in Nat, NEW text, Distinct(text, n), NEW name, NEW numbers,
           {text[i].key : i \in 1..n} # {name} \cup numbers
    PROVE  Fields(text, name, numbers) = {}
  <2> USE <1>NoFields
  <2> SUFFICES ASSUME NEW r \in Fields(text, name, numbers) PROVE FALSE
    BY Zenon
  <2>1. PICK map \in parse_kv_lines(text, {name} \cup numbers) :
          require_non_empty(map, name) /\ \A k \in numbers : require_u64(map, k)
    BY Zenon DEF Fields
  <2>2. DOMAIN map = {text[i].key : i \in 1..n} /\ DOMAIN map \subseteq {name} \cup numbers
    <3>1. ReadAs(map, text, n, {name} \cup numbers)
      BY <2>1, <1>KeysRead, Zenon
    <3> QED BY <3>1, Zenon DEF ReadAs
  <2>3. {name} \cup numbers \subseteq DOMAIN map
    BY <2>1, Zenon DEF require_non_empty, require_u64
  <2> QED BY <2>2, <2>3, Zenon

<1> DEFINE
  (* The text of a record, as it is written. *)
  IsRecord(text, n) ==
    /\ Distinct(text, n)
    /\ \A i \in 1..n :
         /\ text[i] = Line(text[i].key, text[i].value) /\ text[i].value \in Seq(Nat)
         /\ text[i].key \notin {"fragment", "none"}
    /\ text[1].value # <<>> /\ \A i \in 2..n : IsU64(text[i].value)
  (* A torn text: whole lines, and a last one that is cut. *)
  CutAt(torn, text, m) == DOMAIN torn = 1..m /\ \A i \in 1..(m - 1) : torn[i] = text[i]
  TornAs(torn, text, n) ==
    \/ torn = <<>>
    \/ \E m \in 1..n : CutAt(torn, text, m) /\ torn[m] = Fragment
    \/ \E m \in 1..n : \E j \in 0..Len(text[m].value) :
         CutAt(torn, text, m) /\ torn[m] = Line(text[m].key, SubSeq(text[m].value, 1, j))
<1> HIDE DEF IsRecord, CutAt, TornAs

<1>TornIs.
    ASSUME NEW C, NEW n \in Nat, NEW text \in Seq(C), Len(text) = n, IsRecord(text, n),
           NEW torn \in Torn(text)
    PROVE  TornAs(torn, text, n)
  <2> USE <1>TornIs
  <2>1. \A i \in 0..n : LET s == SubSeq(text, 1, i) IN
          /\ s \in Seq(C) /\ DOMAIN s = 1..i /\ \A k \in 1..i : s[k] = text[k]
    OBVIOUS
  <2>2. ASSUME NEW i \in 0..(n - 1), NEW line, torn = Append(SubSeq(text, 1, i), line)
        PROVE  i + 1 \in 1..n /\ CutAt(torn, text, i + 1) /\ torn[i + 1] = line
    <3>1. PICK s : s = SubSeq(text, 1, i)
      BY Zenon
    <3>2. i \in 0..n /\ i + 1 \in 1..n /\ (i + 1) - 1 = i
      OBVIOUS
    <3>3. s \in Seq(C) /\ DOMAIN s = 1..i /\ \A k \in 1..i : s[k] = text[k]
      BY <2>1, <3>1, <3>2, Zenon
    <3>4. PICK D : D = C \cup {line}
      BY Zenon
    <3>5. s \in Seq(D) /\ line \in D
      BY <3>3, <3>4
    <3>6. DOMAIN torn = 1..(i + 1) /\ torn[i + 1] = line /\ \A k \in 1..i : torn[k] = s[k]
      BY <2>2, <3>1, <3>3, <3>5
    <3> QED BY <3>2, <3>3, <3>6, Zenon DEF CutAt
  <2>3. CASE torn \in {SubSeq(text, 1, i) : i \in 0..n}
    <3>1. PICK i \in 0..n : torn = SubSeq(text, 1, i)
      BY <2>3, Zenon
    <3>2. torn \in Seq(C) /\ DOMAIN torn = 1..i /\ \A k \in 1..i : torn[k] = text[k]
      BY <2>1, <3>1, Zenon
    <3>3. CASE i = 0
      BY <3>2, <3>3 DEF TornAs
    <3>4. CASE i # 0
      <4>1. i \in 1..n /\ i \in 1..i /\ 1..(i - 1) \subseteq 1..i
        BY <3>4
      <4>2. PICK v \in Seq(Nat) : v = text[i].value
        BY <4>1, Zenon DEF IsRecord
      <4>3. v = SubSeq(v, 1, Len(v)) /\ Len(v) \in 0..Len(v)
        OBVIOUS
      <4>4. torn[i] = Line(text[i].key, SubSeq(text[i].value, 1, Len(v)))
        BY <3>2, <4>1, <4>2, <4>3, Zenon DEF IsRecord
      <4>5. CutAt(torn, text, i)
        BY <3>2, <4>1, Zenon DEF CutAt
      <4> QED BY <4>1, <4>2, <4>3, <4>4, <4>5, Zenon DEF TornAs
    <3> QED BY <3>3, <3>4, Zenon
  <2>4. CASE torn \in {Append(SubSeq(text, 1, i), Fragment) : i \in 0..(n - 1)}
    <3>1. PICK i \in 0..(n - 1) : torn = Append(SubSeq(text, 1, i), Fragment)
      BY <2>4, Zenon
    <3> QED BY <2>2, <3>1, Zenon DEF TornAs
  <2>5. ASSUME NEW i \in 0..(n - 1), NEW j \in 0..Len(text[i + 1].value),
               torn = Append(SubSeq(text, 1, i), Line(text[i + 1].key, SubSeq(text[i + 1].value, 1, j)))
        PROVE  TornAs(torn, text, n)
    <3>1. PICK m : m = i + 1
      BY Zenon
    <3>2. PICK line : line = Line(text[m].key, SubSeq(text[m].value, 1, j))
      BY Zenon
    <3>3. m \in 1..n /\ CutAt(torn, text, m) /\ torn[m] = line
      BY <2>2, <2>5, <3>1, <3>2, Zenon
    <3>4. j \in 0..Len(text[m].value)
      BY <3>1, Zenon
    <3> QED BY <3>2, <3>3, <3>4, Zenon DEF TornAs
  <2>6. \/ torn \in {SubSeq(text, 1, i) : i \in 0..n}
        \/ torn \in {Append(SubSeq(text, 1, i), Fragment) : i \in 0..(n - 1)}
        \/ \E i \in 0..(n - 1) : \E j \in 0..Len(text[i + 1].value) :
             torn = Append(SubSeq(text, 1, i), Line(text[i + 1].key, SubSeq(text[i + 1].value, 1, j)))
    <3>1. \/ torn \in {SubSeq(text, 1, i) : i \in 0..Len(text)}
          \/ torn \in {Append(SubSeq(text, 1, i), Fragment) : i \in 0..(Len(text) - 1)}
          \/ \E i \in 0..(Len(text) - 1) : \E j \in 0..Len(text[i + 1].value) :
               torn = Append(SubSeq(text, 1, i), Line(text[i + 1].key, SubSeq(text[i + 1].value, 1, j)))
      BY Zenon DEF Torn
    <3> QED BY <3>1
  <2> QED BY <2>3, <2>4, <2>5, <2>6, Zenon

(* Such a text is no record file only when it is empty. *)
<1>TornIsThere.
    ASSUME NEW C, NEW n \in Nat, NEW text \in Seq(C), Len(text) = n, IsRecord(text, n),
           NEW torn \in Torn(text)
    PROVE  NoRecord(torn) <=> torn = <<>>
  <2> USE <1>TornIsThere
  <2>1. ASSUME torn = <<>> PROVE NoRecord(torn)
    <3>1. DOMAIN torn = {}
      BY <2>1
    <3>2. Range(torn) = {}
      BY <3>1, Zenon DEF Range
    <3> QED BY <3>2, Zenon DEF NoRecord
  <2>2. ASSUME torn # <<>> PROVE ~NoRecord(torn)
    <3>1. PICK m \in 1..n : DOMAIN torn = 1..m /\ torn[m].key \notin {"blank", "none"}
      <4>1. ASSUME NEW m \in 1..n, CutAt(torn, text, m), torn[m] = Fragment
            PROVE  DOMAIN torn = 1..m /\ torn[m].key \notin {"blank", "none"}
        <5>1. Fragment.key = "fragment"
          BY DEF Fragment, Line
        <5>2. torn[m].key \notin {"blank", "none"}
          BY <4>1, <5>1
        <5> QED BY <4>1, <5>2, Zenon DEF CutAt
      <4>2. ASSUME NEW m \in 1..n, NEW v, CutAt(torn, text, m), torn[m] = Line(text[m].key, v)
            PROVE  DOMAIN torn = 1..m /\ torn[m].key \notin {"blank", "none"}
        <5>1. torn[m].key = text[m].key
          BY <4>2 DEF Line
        <5> QED BY <4>2, <5>1, Zenon DEF CutAt, IsRecord, Distinct
      <4>3. TornAs(torn, text, n)
        BY <1>TornIs, Zenon
      <4> QED BY <2>2, <4>1, <4>2, <4>3, Zenon DEF TornAs
    <3>2. m \in 1..m
      OBVIOUS
    <3>3. Blank.key = "blank" /\ None.key = "none"
      BY DEF Blank, None, Line
    <3>4. torn[m] \in Range(torn) /\ torn[m] # Blank
      BY <3>1, <3>2, <3>3, Zenon DEF Range
    <3>5. torn # <<None>>
      <4>1. ASSUME torn = <<None>> PROVE FALSE
        <5>1. m = 1 /\ torn[1] = None
          BY <3>1, <4>1
        <5> QED BY <3>1, <3>3, <5>1, Zenon
      <4> QED BY <4>1, Zenon
    <3> QED BY <3>4, <3>5, Zenon DEF NoRecord
  <2> QED BY <2>1, <2>2, Zenon

<1> DEFINE
  (* What can be read of a record that is being written. *)
  NoBetter(r, whole, keys, last) ==
    /\ r = [k \in keys |-> r[k]]
    /\ \A k \in keys \ {last} : r[k] = whole[k]
    /\ r[last] <= whole[last]
<1> HIDE DEF NoBetter

<1>TornReads.
    ASSUME NEW C, NEW n \in Nat \ {0, 1}, NEW text \in Seq(C), Len(text) = n, IsRecord(text, n),
           NEW name, NEW numbers, KeyedBy(text, n, name, numbers)
    PROVE  \E whole :
             /\ Fields(text, name, numbers) = {whole}
             /\ whole = [k \in {name} \cup numbers |-> whole[k]]
             /\ whole[name] = text[1].value
             /\ \A i \in 2..n : whole[text[i].key] = ValueOf(text[i].value)
             /\ \A torn \in Torn(text) : \A r \in Fields(torn, name, numbers) :
                  NoBetter(r, whole, {name} \cup numbers, text[n].key)
  <2> USE <1>TornReads
  <2> DEFINE keys == {name} \cup numbers
  <2>1. /\ n \in Nat /\ n \in Nat \ {0} /\ 1 \in 1..n /\ 2..n \subseteq 1..n /\ n \in 2..n
        /\ (\A i \in 1..n : i = 1 \/ i \in 2..n) /\ 1 \notin 2..n
    OBVIOUS
  <2>2. Distinct(text, n)
    BY Zenon DEF IsRecord
  <2>3. PICK map : /\ \A i \in 1..n : map[text[i].key] = text[i].value
                   /\ Fields(text, name, numbers) = {RecordOf(map, name, numbers)}
    <3>1. n \in Nat \ {0}
      OBVIOUS
    <3>2. PICK map : ReadFrom(map, text, n, name, numbers)
      BY <2>2, <3>1, <1>FieldsAre, Zenon
    <3> QED BY <3>2, Zenon DEF IsRecord, ReadFrom
  <2>4. \A i \in 1..n : text[i].key \in keys
    BY <2>1, Zenon DEF KeyedBy
  <2>5. \A k \in keys : \E i \in 1..n : k = text[i].key
    BY <2>1, Zenon DEF KeyedBy
  <2>6. \A i \in 2..n : text[i].key # name
    <3>1. ASSUME NEW i \in 2..n PROVE text[i].key # name
      <4>1. i \in 1..n /\ i # 1
        BY <2>1, Zenon
      <4> QED BY <2>1, <2>2, <4>1, Zenon DEF Distinct, KeyedBy
    <3> QED BY <3>1, Zenon
  <2>7. PICK whole : whole = RecordOf(map, name, numbers)
    BY Zenon
  <2>8. /\ whole = [k \in keys |-> whole[k]]
        /\ whole[name] = text[1].value
        /\ \A i \in 2..n : whole[text[i].key] = ValueOf(text[i].value)
    <3>1. \A k \in keys : whole[k] = IF k = name THEN map[k] ELSE ValueOf(map[k])
      BY <2>7, Zenon DEF RecordOf
    <3>2. whole = [k \in keys |-> whole[k]]
      BY <2>7, <3>1, Zenon DEF RecordOf
    <3>3. whole[name] = text[1].value
      BY <2>1, <2>3, <3>1, Zenon DEF KeyedBy
    <3>4. ASSUME NEW i \in 2..n PROVE whole[text[i].key] = ValueOf(text[i].value)
      <4>1. i \in 1..n /\ text[i].key # name
        BY <2>1, <2>6, Zenon
      <4>2. text[i].key \in keys /\ map[text[i].key] = text[i].value
        BY <2>3, <2>4, <4>1, Zenon
      <4> HIDE DEF keys
      <4> QED BY <3>1, <4>1, <4>2, Zenon
    <3> QED BY <3>2, <3>3, <3>4, Zenon
  <2>9. ASSUME NEW torn \in Torn(text), NEW r \in Fields(torn, name, numbers)
        PROVE  NoBetter(r, whole, keys, text[n].key)
    <3>1. TornAs(torn, text, n)
      <4>1. n \in Nat
        OBVIOUS
      <4> QED BY <4>1, <1>TornIs, Zenon
    <3>2. torn # <<>>
      <4>1. ASSUME torn = <<>> PROVE FALSE
        <5>1. DOMAIN torn = 1..0 /\ 1..0 = {} /\ 0 \in Nat
          BY <4>1
        <5>2. Distinct(torn, 0) /\ {torn[i].key : i \in 1..0} # keys
          BY <5>1, Zenon DEF Distinct
        <5>3. Fields(torn, name, numbers) = {}
          BY <5>1, <5>2, <1>NoFields, Zenon
        <5> QED BY <2>9, <5>3, Zenon
      <4> QED BY <4>1, Zenon
    <3>3. ASSUME NEW m \in 1..n, CutAt(torn, text, m), torn[m] = Fragment PROVE FALSE
      <4>1. torn[m].key = "fragment"
        BY <3>3 DEF Fragment, Line
      <4>0. m \in Nat
        BY <2>1
      <4>2. m \in 1..m /\ \A i \in 1..m : i \in 1..n /\ (i = m \/ i \in 1..(m - 1))
        BY <2>1
      <4>3. \A i \in 1..m : i # m => torn[i].key = text[i].key
        BY <3>3, <4>2, Zenon DEF CutAt
      <4>4. \A i \in 1..n : text[i].key # "fragment" /\ text[i].key # "blank"
        BY Zenon DEF IsRecord, Distinct
      <4>5. "fragment" # "blank"
        OBVIOUS
      <4>6. DOMAIN torn = 1..m
        BY <3>3, Zenon DEF CutAt
      <4>7. \A i \in 1..m : torn[i].key # "blank"
        BY <4>1, <4>2, <4>3, <4>4, <4>5, Zenon
      <4>8. ASSUME NEW i \in 1..m, NEW j \in 1..m, torn[i].key = torn[j].key PROVE i = j
        <5>1. CASE i = m \/ j = m
          BY <4>1, <4>2, <4>3, <4>4, <4>8, <5>1, Zenon
        <5>2. CASE i # m /\ j # m
          BY <2>2, <4>2, <4>3, <4>8, <5>2, Zenon DEF Distinct
        <5> QED BY <5>1, <5>2, Zenon
      <4>9. Distinct(torn, m)
        BY <4>6, <4>7, <4>8, Zenon DEF Distinct
      <4>10. torn[m].key \in {torn[i].key : i \in 1..m} /\ torn[m].key \notin keys
        <5>1. torn[m].key \in {torn[i].key : i \in 1..m}
          BY <4>2, Zenon
        <5>2. torn[m].key \notin keys
          <6>1. ASSUME torn[m].key \in keys PROVE FALSE
            <7>1. PICK i \in 1..n : torn[m].key = text[i].key
              BY <2>5, <6>1, Zenon
            <7> QED BY <4>1, <4>4, <7>1, Zenon
          <6> QED BY <6>1, Zenon
        <5> QED BY <5>1, <5>2, Zenon
      <4>11. {torn[i].key : i \in 1..m} # keys
        <5> HIDE DEF keys
        <5> QED BY <4>10, Zenon
      <4>12. Fields(torn, name, numbers) = {}
        BY <4>0, <4>9, <4>11, <1>NoFields, Zenon
      <4> QED BY <2>9, <4>12, Zenon
    <3>4. ASSUME NEW m \in 1..n, NEW j \in 0..Len(text[m].value), CutAt(torn, text, m),
                 torn[m] = Line(text[m].key, SubSeq(text[m].value, 1, j))
          PROVE  NoBetter(r, whole, keys, text[n].key)
      <4>1. torn[m].key = text[m].key /\ torn[m].value = SubSeq(text[m].value, 1, j)
        BY <3>4 DEF Line
      <4>0. m \in Nat
        BY <2>1
      <4>2. m \in 1..m /\ \A i \in 1..m : i \in 1..n /\ (i = m \/ i \in 1..(m - 1))
        BY <2>1
      <4>3. \A i \in 1..m : torn[i].key = text[i].key /\ (i # m => torn[i] = text[i])
        BY <3>4, <4>1, <4>2, Zenon DEF CutAt
      <4>4. DOMAIN torn = 1..m
        BY <3>4, Zenon DEF CutAt
      <4>5. Distinct(torn, m)
        <5>1. ASSUME NEW i \in 1..m PROVE torn[i].key # "blank"
          BY <2>2, <4>2, <4>3, Zenon DEF Distinct
        <5>2. ASSUME NEW i \in 1..m, NEW k \in 1..m, torn[i].key = torn[k].key PROVE i = k
          <6>1. i \in 1..n /\ k \in 1..n
            BY <4>2, Zenon
          <6>2. text[i].key = text[k].key
            BY <4>3, <5>2, Zenon
          <6> QED BY <2>2, <6>1, <6>2, Zenon DEF Distinct
        <5> QED BY <4>4, <5>1, <5>2, Zenon DEF Distinct
      <4>6. m = n
        <5>1. ASSUME m # n PROVE FALSE
          <6>1. n \in 1..n /\ n \notin 1..m
            BY <2>1, <5>1
          <6>2. text[n].key \notin {torn[i].key : i \in 1..m}
            <7>1. ASSUME NEW i \in 1..m, text[n].key = torn[i].key PROVE FALSE
              <8>1. i \in 1..n /\ text[n].key = text[i].key
                BY <4>2, <4>3, <7>1, Zenon
              <8>2. n = i
                BY <2>2, <6>1, <8>1, Zenon DEF Distinct
              <8> QED BY <6>1, <8>2, Zenon
            <7> QED BY <7>1, Zenon
          <6>3. text[n].key \in keys
            BY <2>4, <6>1, Zenon
          <6>4. {torn[i].key : i \in 1..m} # keys
            <7> HIDE DEF keys
            <7> QED BY <6>2, <6>3, Zenon
          <6>5. Fields(torn, name, numbers) = {}
            BY <4>0, <4>5, <6>4, <1>NoFields, Zenon
          <6> QED BY <2>9, <6>5, Zenon
        <5> QED BY <5>1, Zenon
      <4>7. KeyedBy(torn, n, name, numbers)
        <5>1. \A i \in 1..n : torn[i].key = text[i].key
          BY <4>3, <4>6, Zenon
        <5>2. {torn[i].key : i \in 2..n} = {text[i].key : i \in 2..n}
          <6>1. \A i \in 2..n : torn[i].key = text[i].key
            BY <2>1, <5>1, Zenon
          <6> QED BY <6>1, Zenon
        <5> QED BY <2>1, <5>1, <5>2, Zenon DEF KeyedBy
      <4>8. PICK torn_map : ReadFrom(torn_map, torn, n, name, numbers)
        <5>1. n \in Nat \ {0} /\ Distinct(torn, n)
          BY <4>5, <4>6
        <5> QED BY <4>7, <5>1, <1>FieldsAre, Zenon
      <4>9. \A i \in 1..n : torn_map[torn[i].key] = torn[i].value
        BY <4>8, Zenon DEF ReadFrom
      <4>10. r = RecordOf(torn_map, name, numbers)
        BY <2>9, <4>8, Zenon DEF ReadFrom
      <4>11. \A k \in keys : r[k] = IF k = name THEN torn_map[k] ELSE ValueOf(torn_map[k])
        BY <4>10, Zenon DEF RecordOf
      <4>12. r = [k \in keys |-> r[k]]
        BY <4>10, <4>11, Zenon DEF RecordOf
      <4>13. \A k \in keys : whole[k] = IF k = name THEN map[k] ELSE ValueOf(map[k])
        BY <2>7, Zenon DEF RecordOf
      <4>14. ASSUME NEW k \in keys, k # text[n].key PROVE r[k] = whole[k]
        <5>1. PICK i \in 1..n : k = text[i].key
          BY <2>5, Zenon
        <5>2. i # n
          BY <4>14, <5>1, Zenon
        <5>3. torn[i] = text[i]
          BY <4>3, <4>6, <5>2, Zenon
        <5>4. torn_map[k] = map[k]
          BY <2>3, <4>9, <5>1, <5>3, Zenon
        <5>5. r[k] = IF k = name THEN torn_map[k] ELSE ValueOf(torn_map[k])
          BY <4>11, Zenon
        <5>6. whole[k] = IF k = name THEN map[k] ELSE ValueOf(map[k])
          BY <4>13, Zenon
        <5> QED BY <5>4, <5>5, <5>6, Zenon
      <4>15. r[text[n].key] <= whole[text[n].key]
        <5>1. PICK v \in Seq(Nat) : v = text[n].value
          BY <2>1, Zenon DEF IsRecord
        <5>2. r[text[n].key] = ValueOf(SubSeq(v, 1, j))
          <6>1. torn_map[text[n].key] = SubSeq(v, 1, j)
            BY <2>1, <4>1, <4>6, <4>9, <5>1, Zenon
          <6> QED BY <2>1, <2>4, <2>6, <4>11, <6>1, Zenon
        <5>3. whole[text[n].key] = ValueOf(v)
          BY <2>1, <2>8, <5>1, Zenon
        <5>4. j \in 0..Len(v)
          BY <4>6, <5>1, Zenon
        <5>5. ValueOf(SubSeq(v, 1, j)) <= ValueOf(v)
          BY <5>4, <1>FewerDigits, RecordsAssumption, Zenon DEF ValueOf
        <5> QED BY <5>2, <5>3, <5>5, Zenon
      <4> QED BY <4>12, <4>14, <4>15, Zenon DEF NoBetter
    <3> QED BY <3>1, <3>2, <3>3, <3>4, Zenon DEF TornAs
  <2>10. Fields(text, name, numbers) = {whole}
    BY <2>3, <2>7, Zenon
  <2> QED BY <2>8, <2>9, <2>10, Zenon

<1> DEFINE
  (* A lease and a ledger, as they are written. *)
  LeaseKept(holder, generation, renewed, ttl) ==
    LET lease == serialize_lease_record(holder, generation, renewed, ttl)
        whole == [holder_node_id |-> holder, generation |-> ValueOf(generation),
                  renewed_at_secs |-> ValueOf(renewed), ttl_secs |-> ValueOf(ttl)] IN
    /\ parse_lease_record(lease) = {whole}
    /\ \A text \in Torn(lease) : NoRecord(text) <=> text = <<>>
    /\ \A text \in Torn(lease) : \A r \in parse_lease_record(text) :
         [r EXCEPT !.ttl_secs = whole.ttl_secs] = whole /\ r.ttl_secs <= whole.ttl_secs
<1> HIDE DEF LeaseKept

<1>LeaseReads.
    ASSUME NEW holder \in Seq(Nat), holder # <<>>, NEW generation \in Seq(Nat), IsU64(generation),
           NEW renewed \in Seq(Nat), IsU64(renewed), NEW ttl \in Seq(Nat), IsU64(ttl)
    PROVE  LeaseKept(holder, generation, renewed, ttl)
  <2> USE <1>LeaseReads
  <2> DEFINE name == "holder_node_id"
             numbers == {"generation", "renewed_at_secs", "ttl_secs"}
             whole == [holder_node_id |-> holder, generation |-> ValueOf(generation),
                       renewed_at_secs |-> ValueOf(renewed), ttl_secs |-> ValueOf(ttl)]
  <2>1. PICK lease : lease = serialize_lease_record(holder, generation, renewed, ttl)
    BY Zenon
  <2>2. PICK C : C = {Line("holder_node_id", holder), Line("generation", generation),
                      Line("renewed_at_secs", renewed), Line("ttl_secs", ttl)}
    BY Zenon
  <2>3. /\ lease \in Seq(C) /\ Len(lease) = 4 /\ DOMAIN lease = 1..4
        /\ lease[1] = Line("holder_node_id", holder) /\ lease[2] = Line("generation", generation)
        /\ lease[3] = Line("renewed_at_secs", renewed) /\ lease[4] = Line("ttl_secs", ttl)
    BY <2>1, <2>2 DEF serialize_lease_record
  <2>4. \A k, v : Line(k, v).key = k /\ Line(k, v).value = v
    BY DEF Line
  <2>5. /\ lease[1].key = "holder_node_id" /\ lease[1].value = holder
        /\ lease[2].key = "generation" /\ lease[2].value = generation
        /\ lease[3].key = "renewed_at_secs" /\ lease[3].value = renewed
        /\ lease[4].key = "ttl_secs" /\ lease[4].value = ttl
    BY <2>3, <2>4
  <2>6. /\ \A i \in 1..4 : i = 1 \/ i = 2 \/ i = 3 \/ i = 4
        /\ \A i \in 2..4 : i = 2 \/ i = 3 \/ i = 4
        /\ 2 \in 2..4 /\ 3 \in 2..4 /\ 4 \in 2..4
    OBVIOUS
  <2>7. IsRecord(lease, 4)
    <3>1. Distinct(lease, 4)
      BY <2>3, <2>5, <2>6 DEF Distinct
    <3>2. ASSUME NEW i \in 1..4
          PROVE  /\ lease[i] = Line(lease[i].key, lease[i].value) /\ lease[i].value \in Seq(Nat)
                 /\ lease[i].key \notin {"fragment", "none"}
      <4>1. lease[i].key \notin {"fragment", "none"}
        BY <2>5, <2>6, Zenon
      <4>2. lease[i] = Line(lease[i].key, lease[i].value) /\ lease[i].value \in Seq(Nat)
        BY <2>3, <2>5, <2>6, Zenon
      <4> QED BY <4>1, <4>2, Zenon
    <3>3. \A i \in 2..4 : IsU64(lease[i].value)
      BY <2>5, <2>6, Zenon
    <3> QED BY <2>5, <3>1, <3>2, <3>3, Zenon DEF IsRecord
  <2>8. KeyedBy(lease, 4, name, numbers)
    <3>1. {lease[i].key : i \in 2..4} = numbers
      BY <2>5, <2>6, Zenon
    <3> QED BY <2>5, <3>1, Zenon DEF KeyedBy
  <2>9. \A text : parse_lease_record(text) = Fields(text, name, numbers)
    BY Zenon DEF parse_lease_record
  <2> HIDE DEF name, numbers
  <2>10. PICK w : /\ Fields(lease, name, numbers) = {w}
                  /\ w = [k \in {name} \cup numbers |-> w[k]]
                  /\ w[name] = lease[1].value
                  /\ \A i \in 2..4 : w[lease[i].key] = ValueOf(lease[i].value)
                  /\ \A text \in Torn(lease) : \A r \in Fields(text, name, numbers) :
                       NoBetter(r, w, {name} \cup numbers, lease[4].key)
    <3>1. 4 \in Nat \ {0, 1}
      OBVIOUS
    <3> QED BY <2>3, <2>7, <2>8, <3>1, <1>TornReads, Zenon
  <2>11. {name} \cup numbers = {"holder_node_id", "generation", "renewed_at_secs", "ttl_secs"}
    BY Zenon DEF name, numbers
  <2>12. w = whole
    <3>1. /\ w["holder_node_id"] = holder /\ w["generation"] = ValueOf(generation)
          /\ w["renewed_at_secs"] = ValueOf(renewed) /\ w["ttl_secs"] = ValueOf(ttl)
      BY <2>5, <2>6, <2>10, Zenon DEF name
    <3>2. w = [k \in {"holder_node_id", "generation", "renewed_at_secs", "ttl_secs"} |-> w[k]]
      BY <2>10, <2>11, Zenon
    <3> QED BY <3>1, <3>2
  <2>13. ASSUME NEW text \in Torn(lease), NEW r \in Fields(text, name, numbers)
         PROVE  [r EXCEPT !.ttl_secs = whole.ttl_secs] = whole /\ r.ttl_secs <= whole.ttl_secs
    <3>1. NoBetter(r, w, {name} \cup numbers, "ttl_secs")
      BY <2>5, <2>10, Zenon
    <3>2. /\ r = [k \in {"holder_node_id", "generation", "renewed_at_secs", "ttl_secs"} |-> r[k]]
          /\ \A k \in {"holder_node_id", "generation", "renewed_at_secs", "ttl_secs"} \ {"ttl_secs"} :
               r[k] = w[k]
          /\ r["ttl_secs"] <= w["ttl_secs"]
      BY <2>11, <3>1, Zenon DEF NoBetter
    <3>3. PICK g, d, t : g = ValueOf(generation) /\ d = ValueOf(renewed) /\ t = ValueOf(ttl)
      BY Zenon
    <3>4. w = [holder_node_id |-> holder, generation |-> g, renewed_at_secs |-> d, ttl_secs |-> t]
      BY <2>12, <3>3, Zenon
    <3>5. PICK u : u = r["ttl_secs"]
      BY Zenon
    <3>6. r["holder_node_id"] = holder /\ r["generation"] = g /\ r["renewed_at_secs"] = d
      <4>1. w["holder_node_id"] = holder /\ w["generation"] = g /\ w["renewed_at_secs"] = d
        BY <3>4
      <4>2. /\ r["holder_node_id"] = w["holder_node_id"] /\ r["generation"] = w["generation"]
            /\ r["renewed_at_secs"] = w["renewed_at_secs"]
        BY <3>2, Zenon
      <4> QED BY <4>1, <4>2, Zenon
    <3>7. r = [holder_node_id |-> holder, generation |-> g, renewed_at_secs |-> d, ttl_secs |-> u]
      <4>1. r = [k \in {"holder_node_id", "generation", "renewed_at_secs", "ttl_secs"} |-> r[k]]
        BY <3>2, Zenon
      <4> QED BY <3>5, <3>6, <4>1
    <3>8. [r EXCEPT !.ttl_secs = t] = w /\ r.ttl_secs = u /\ w.ttl_secs = t
      BY <3>4, <3>7
    <3>9. u <= t
      <4>1. w["ttl_secs"] = t
        BY <3>4
      <4> QED BY <3>2, <3>5, <4>1, Zenon
    <3> HIDE DEF whole
    <3> QED BY <2>12, <3>8, <3>9, Zenon
  <2>14. \A text \in Torn(lease) : NoRecord(text) <=> text = <<>>
    <3>1. 4 \in Nat
      OBVIOUS
    <3> QED BY <2>3, <2>7, <3>1, <1>TornIsThere, Zenon
  <2>15. Fields(lease, name, numbers) = {whole}
    BY <2>10, <2>12, Zenon
  <2> HIDE DEF whole
  <2>16. /\ parse_lease_record(lease) = {whole}
         /\ \A text \in Torn(lease) : NoRecord(text) <=> text = <<>>
         /\ \A text \in Torn(lease) : \A r \in parse_lease_record(text) :
              [r EXCEPT !.ttl_secs = whole.ttl_secs] = whole /\ r.ttl_secs <= whole.ttl_secs
    BY <2>9, <2>13, <2>14, <2>15, Zenon
  <2> QED BY <2>1, <2>16, Zenon DEF whole, LeaseKept

<1> DEFINE
  LedgerKept(holder, generation, synced) ==
    LET ledger == print_freshness(holder, generation, synced)
        whole == [source_node_id |-> holder, source_generation |-> ValueOf(generation),
                  synced_at_secs |-> ValueOf(synced)] IN
    /\ parse_freshness_ledger(ledger) = {whole}
    /\ \A text \in Torn(ledger) : NoRecord(text) <=> text = <<>>
    /\ \A text \in Torn(ledger) : \A r \in parse_freshness_ledger(text) :
         [r EXCEPT !.synced_at_secs = whole.synced_at_secs] = whole
           /\ r.synced_at_secs <= whole.synced_at_secs
<1> HIDE DEF LedgerKept

<1>LedgerReads.
    ASSUME NEW holder \in Seq(Nat), holder # <<>>, NEW generation \in Seq(Nat), IsU64(generation),
           NEW synced \in Seq(Nat), IsU64(synced)
    PROVE  LedgerKept(holder, generation, synced)
  <2> USE <1>LedgerReads
  <2> DEFINE name == "source_node_id"
             numbers == {"source_generation", "synced_at_secs"}
             whole == [source_node_id |-> holder, source_generation |-> ValueOf(generation),
                       synced_at_secs |-> ValueOf(synced)]
  <2>1. PICK ledger : ledger = print_freshness(holder, generation, synced)
    BY Zenon
  <2>2. PICK C : C = {Line("source_node_id", holder), Line("source_generation", generation),
                      Line("synced_at_secs", synced)}
    BY Zenon
  <2>3. /\ ledger \in Seq(C) /\ Len(ledger) = 3 /\ DOMAIN ledger = 1..3
        /\ ledger[1] = Line("source_node_id", holder) /\ ledger[2] = Line("source_generation", generation)
        /\ ledger[3] = Line("synced_at_secs", synced)
    BY <2>1, <2>2 DEF print_freshness
  <2>4. \A k, v : Line(k, v).key = k /\ Line(k, v).value = v
    BY DEF Line
  <2>5. /\ ledger[1].key = "source_node_id" /\ ledger[1].value = holder
        /\ ledger[2].key = "source_generation" /\ ledger[2].value = generation
        /\ ledger[3].key = "synced_at_secs" /\ ledger[3].value = synced
    BY <2>3, <2>4
  <2>6. /\ \A i \in 1..3 : i = 1 \/ i = 2 \/ i = 3
        /\ \A i \in 2..3 : i = 2 \/ i = 3
        /\ 2 \in 2..3 /\ 3 \in 2..3
    OBVIOUS
  <2>7. IsRecord(ledger, 3)
    <3>1. Distinct(ledger, 3)
      BY <2>3, <2>5, <2>6 DEF Distinct
    <3>2. ASSUME NEW i \in 1..3
          PROVE  /\ ledger[i] = Line(ledger[i].key, ledger[i].value) /\ ledger[i].value \in Seq(Nat)
                 /\ ledger[i].key \notin {"fragment", "none"}
      <4>1. ledger[i].key \notin {"fragment", "none"}
        BY <2>5, <2>6, Zenon
      <4>2. ledger[i] = Line(ledger[i].key, ledger[i].value) /\ ledger[i].value \in Seq(Nat)
        BY <2>3, <2>5, <2>6, Zenon
      <4> QED BY <4>1, <4>2, Zenon
    <3>3. \A i \in 2..3 : IsU64(ledger[i].value)
      BY <2>5, <2>6, Zenon
    <3> QED BY <2>5, <3>1, <3>2, <3>3, Zenon DEF IsRecord
  <2>8. KeyedBy(ledger, 3, name, numbers)
    <3>1. {ledger[i].key : i \in 2..3} = numbers
      BY <2>5, <2>6, Zenon
    <3> QED BY <2>5, <3>1, Zenon DEF KeyedBy
  <2>9. \A text : parse_freshness_ledger(text) = Fields(text, name, numbers)
    BY Zenon DEF parse_freshness_ledger
  <2> HIDE DEF name, numbers
  <2>10. PICK w : /\ Fields(ledger, name, numbers) = {w}
                  /\ w = [k \in {name} \cup numbers |-> w[k]]
                  /\ w[name] = ledger[1].value
                  /\ \A i \in 2..3 : w[ledger[i].key] = ValueOf(ledger[i].value)
                  /\ \A text \in Torn(ledger) : \A r \in Fields(text, name, numbers) :
                       NoBetter(r, w, {name} \cup numbers, ledger[3].key)
    <3>1. 3 \in Nat \ {0, 1}
      OBVIOUS
    <3> QED BY <2>3, <2>7, <2>8, <3>1, <1>TornReads, Zenon
  <2>11. {name} \cup numbers = {"source_node_id", "source_generation", "synced_at_secs"}
    BY Zenon DEF name, numbers
  <2>12. w = whole
    <3>1. /\ w["source_node_id"] = holder /\ w["source_generation"] = ValueOf(generation)
          /\ w["synced_at_secs"] = ValueOf(synced)
      BY <2>5, <2>6, <2>10, Zenon DEF name
    <3>2. w = [k \in {"source_node_id", "source_generation", "synced_at_secs"} |-> w[k]]
      BY <2>10, <2>11, Zenon
    <3> QED BY <3>1, <3>2
  <2>13. ASSUME NEW text \in Torn(ledger), NEW r \in Fields(text, name, numbers)
         PROVE  [r EXCEPT !.synced_at_secs = whole.synced_at_secs] = whole /\ r.synced_at_secs <= whole.synced_at_secs
    <3>1. NoBetter(r, w, {name} \cup numbers, "synced_at_secs")
      BY <2>5, <2>10, Zenon
    <3>2. /\ r = [k \in {"source_node_id", "source_generation", "synced_at_secs"} |-> r[k]]
          /\ \A k \in {"source_node_id", "source_generation", "synced_at_secs"} \ {"synced_at_secs"} :
               r[k] = w[k]
          /\ r["synced_at_secs"] <= w["synced_at_secs"]
      BY <2>11, <3>1, Zenon DEF NoBetter
    <3>3. PICK g, t : g = ValueOf(generation) /\ t = ValueOf(synced)
      BY Zenon
    <3>4. w = [source_node_id |-> holder, source_generation |-> g, synced_at_secs |-> t]
      BY <2>12, <3>3, Zenon
    <3>5. PICK u : u = r["synced_at_secs"]
      BY Zenon
    <3>6. r["source_node_id"] = holder /\ r["source_generation"] = g
      <4>1. w["source_node_id"] = holder /\ w["source_generation"] = g
        BY <3>4
      <4>2. r["source_node_id"] = w["source_node_id"] /\ r["source_generation"] = w["source_generation"]
        BY <3>2, Zenon
      <4> QED BY <4>1, <4>2, Zenon
    <3>7. r = [source_node_id |-> holder, source_generation |-> g, synced_at_secs |-> u]
      <4>1. r = [k \in {"source_node_id", "source_generation", "synced_at_secs"} |-> r[k]]
        BY <3>2, Zenon
      <4> QED BY <3>5, <3>6, <4>1
    <3>8. [r EXCEPT !.synced_at_secs = t] = w /\ r.synced_at_secs = u /\ w.synced_at_secs = t
      BY <3>4, <3>7
    <3>9. u <= t
      <4>1. w["synced_at_secs"] = t
        BY <3>4
      <4> QED BY <3>2, <3>5, <4>1, Zenon
    <3> HIDE DEF whole
    <3> QED BY <2>12, <3>8, <3>9, Zenon
  <2>14. \A text \in Torn(ledger) : NoRecord(text) <=> text = <<>>
    <3>1. 3 \in Nat
      OBVIOUS
    <3> QED BY <2>3, <2>7, <3>1, <1>TornIsThere, Zenon
  <2>15. Fields(ledger, name, numbers) = {whole}
    BY <2>10, <2>12, Zenon
  <2> HIDE DEF whole
  <2>16. /\ parse_freshness_ledger(ledger) = {whole}
         /\ \A text \in Torn(ledger) : NoRecord(text) <=> text = <<>>
         /\ \A text \in Torn(ledger) : \A r \in parse_freshness_ledger(text) :
              [r EXCEPT !.synced_at_secs = whole.synced_at_secs] = whole /\ r.synced_at_secs <= whole.synced_at_secs
    BY <2>9, <2>13, <2>14, <2>15, Zenon
  <2> QED BY <2>1, <2>16, Zenon DEF whole, LedgerKept

<1> SUFFICES ASSUME NEW holder \in Seq(Nat), holder # <<>>, NEW generation \in Seq(Nat), IsU64(generation),
                    NEW renewed \in Seq(Nat), IsU64(renewed), NEW ttl \in Seq(Nat), IsU64(ttl)
             PROVE  TornIsNoBetter(holder, generation, renewed, ttl)
  BY Zenon
<1>1. LeaseKept(holder, generation, renewed, ttl)
  BY <1>LeaseReads, Zenon
<1>2. LedgerKept(holder, generation, renewed)
  BY <1>LedgerReads, Zenon
<1> QED BY <1>1, <1>2, Zenon DEF LeaseKept, LedgerKept, TornIsNoBetter

-----------------------------------------------------------------------------
(* Frames on a stream *)

(* The first parts of some sequences are in front of what follows them. *)
LEMMA FrontStays ==
  ASSUME NEW C, NEW s \in Seq(C), NEW t \in Seq(C), NEW m \in 0..Len(s)
  PROVE  SubSeq(s \o t, 1, m) = SubSeq(s, 1, m)
OBVIOUS

Grows(f, i, j) == Len(f[i]) <= Len(f[j]) /\ f[i] = SubSeq(f[j], 1, Len(f[i]))

(* What the first parts are stays when more are added. *)
LEMMA ConcatsGrow ==
  ASSUME WellOrdered, NEW C, NEW parts \in Seq(Seq(C)), NEW i \in 0..Len(parts), NEW j \in i..Len(parts)
  PROVE  Grows(Concats(parts), i, j)
<1>1. PICK n \in Nat : n = Len(parts) /\ i \in 0..n /\ j \in i..n /\ j \in 0..n
  OBVIOUS
<1>2. PICK f : f = Concats(parts)
  BY Zenon
<1>3. /\ \A k \in 1..n : f[k] = f[k - 1] \o parts[k]
      /\ \A k \in 0..n : f[k] \in Seq(C)
      /\ \A k \in 1..n : parts[k] \in Seq(C)
  <2>1. \A k \in 1..n : parts[k] \in Seq(C)
    BY <1>1
  <2> QED BY <1>1, <1>2, <2>1, ConcatsIs, Zenon
<1> DEFINE T == {k \in 0..n : k >= i => Grows(f, i, k)}
<1>4. Grows(f, i, i)
  <2>1. PICK s \in Seq(C) : s = f[i]
    BY <1>1, <1>3, Zenon
  <2>2. Len(s) <= Len(s) /\ s = SubSeq(s, 1, Len(s))
    OBVIOUS
  <2> QED BY <2>1, <2>2, Zenon DEF Grows
<1>5. 0 \in T
  <2>1. 0 \in 0..n /\ (0 >= i => i = 0)
    BY <1>1
  <2> QED BY <1>4, <2>1, Zenon
<1>6. ASSUME NEW k \in 1..n, k - 1 \in T PROVE k \in T
  <2>1. k \in 0..n /\ k - 1 \in 0..n /\ (k >= i => k = i \/ k - 1 >= i)
    BY <1>1
  <2>2. ASSUME k - 1 >= i PROVE Grows(f, i, k)
    <3>1. PICK s \in Seq(C), t \in Seq(C) : s = f[k - 1] /\ t = parts[k]
      BY <1>3, <2>1, Zenon
    <3>2. PICK u \in Seq(C) : u = f[i]
      BY <1>1, <1>3, Zenon
    <3>3. Len(u) <= Len(s) /\ u = SubSeq(s, 1, Len(u))
      BY <1>6, <2>2, <3>1, <3>2, Zenon DEF Grows
    <3>4. Len(u) \in 0..Len(s) /\ Len(u) <= Len(s \o t)
      BY <3>3
    <3>5. SubSeq(s \o t, 1, Len(u)) = SubSeq(s, 1, Len(u))
      BY <3>4, FrontStays, Zenon
    <3>6. f[k] = s \o t
      BY <1>3, <3>1, Zenon
    <3> QED BY <3>2, <3>3, <3>4, <3>5, <3>6, Zenon DEF Grows
  <2> QED BY <1>4, <2>1, <2>2, Zenon
<1>7. j \in T
  <2> HIDE DEF T
  <2> QED BY <1>1, <1>5, <1>6, Upwards, Zenon
<1>8. j >= i
  OBVIOUS
<1> QED BY <1>2, <1>7, <1>8, Zenon

(* The four bytes of a length. *)
Byte == 0..(Radix - 1)

(* Quotient and remainder. *)
LEMMA Division ==
  ASSUME NEW x \in Nat, NEW d \in Nat \ {0}
  PROVE  x \div d \in Nat /\ x % d \in 0..(d - 1) /\ x = (x \div d) * d + (x % d)
OBVIOUS

BytesAre(x, h, a, b, c) ==
  /\ a = x \div Radix /\ b = a \div Radix /\ c = b \div Radix
  /\ h \in Seq(Byte) /\ Len(h) = 4
  /\ h[1] = x % Radix /\ h[2] = a % Radix /\ h[3] = b % Radix /\ h[4] = c % Radix

(* The four bytes of a length (u32::to_le_bytes). *)
LEMMA ToBytes ==
  ASSUME WellOrdered, NEW x \in Nat
  PROVE  \E a, b, c \in Nat : BytesAre(x, to_le_bytes(x), a, b, c)
<1>1. Radix \in Nat \ {0}
  BY FramingAssumption
<1> DEFINE n == 4
           S == Nat
           op(i, s) == s \div Radix
           step == [i \in 1..n |-> [s \in S |-> op(i, s)]]
           Step(f) == [i \in 0..n |-> IF i = 0 THEN x ELSE op(i, f[i - 1])]
           Left == CHOOSE f : f = Step(f)
<1>2. n \in Nat /\ x \in S /\ \A i \in 1..n, s \in S : op(i, s) \in S
  <2>1. \A s \in Nat : s \div Radix \in Nat
    BY <1>1, Division, Zenon
  <2> QED BY <2>1
<1>3. to_le_bytes(x) = [i \in 1..n |-> Left[i - 1] % Radix]
  BY Zenon DEF to_le_bytes, PrefixLen
<1> HIDE DEF n, S, op
<1>4. PICK f \in [0..n -> S] : IsRow(f, n, x, step)
  <2>1. step \in [1..n -> [S -> S]]
    BY <1>2
  <2> HIDE DEF step
  <2> QED BY <1>2, <2>1, Rows, Zenon
<1>5. f = Step(f)
  <2>1. f[0] = x
    BY <1>4, Zenon DEF IsRow
  <2>2. ASSUME NEW i \in 1..n PROVE f[i] = op(i, f[i - 1])
    <3>1. f[i - 1] \in S
      BY <1>2
    <3>2. step[i][f[i - 1]] = op(i, f[i - 1])
      BY <3>1, Zenon
    <3> QED BY <1>4, <3>2, Zenon DEF IsRow
  <2> QED BY <1>2, <2>1, <2>2
<1>6. PICK g : g = Left /\ g = Step(g)
  BY <1>5, Zenon
<1> HIDE DEF Left
<1>7. g[0] = x /\ \A i \in 1..n : g[i] = op(i, g[i - 1])
  <2>1. g = Step(g)
    BY <1>6, Zenon
  <2>2. 0 \in 0..n /\ \A i \in 1..n : i \in 0..n /\ i # 0
    BY <1>2
  <2> QED BY <2>1, <2>2, Zenon
<1>8. \A i \in 1..4 : g[i] = g[i - 1] \div Radix
  BY <1>7, Zenon DEF n, op
<1>9. g[1] = x \div Radix /\ g[2] = g[1] \div Radix /\ g[3] = g[2] \div Radix
  <2>1. 1 \in 1..4 /\ 2 \in 1..4 /\ 3 \in 1..4 /\ 1 - 1 = 0 /\ 2 - 1 = 1 /\ 3 - 1 = 2
    OBVIOUS
  <2> QED BY <1>7, <1>8, <2>1, Zenon
<1>10. PICK a \in Nat : a = g[1] /\ a = x \div Radix
  BY <1>1, <1>9, Division, Zenon
<1>11. PICK b \in Nat : b = g[2] /\ b = a \div Radix
  BY <1>1, <1>9, <1>10, Division, Zenon
<1>12. PICK c \in Nat : c = g[3] /\ c = b \div Radix
  BY <1>1, <1>9, <1>11, Division, Zenon
<1>13. PICK h : h = to_le_bytes(x) /\ h = [i \in 1..4 |-> g[i - 1] % Radix]
  BY <1>3, <1>6, Zenon DEF n
<1>14. h[1] = x % Radix /\ h[2] = a % Radix /\ h[3] = b % Radix /\ h[4] = c % Radix
  <2>1. /\ 1 \in 1..4 /\ 2 \in 1..4 /\ 3 \in 1..4 /\ 4 \in 1..4
        /\ 1 - 1 = 0 /\ 2 - 1 = 1 /\ 3 - 1 = 2 /\ 4 - 1 = 3
    OBVIOUS
  <2>2. \A i \in 1..4 : h[i] = g[i - 1] % Radix
    BY <1>13, Zenon
  <2> QED BY <1>7, <1>10, <1>11, <1>12, <2>1, <2>2, Zenon
<1>15. h \in Seq(Byte) /\ Len(h) = 4
  <2>1. x % Radix \in Byte /\ a % Radix \in Byte /\ b % Radix \in Byte /\ c % Radix \in Byte
    BY <1>1, Division, Zenon DEF Byte
  <2>2. \A i \in 1..4 : h[i] \in Byte
    <3>1. \A i \in 1..4 : i = 1 \/ i = 2 \/ i = 3 \/ i = 4
      OBVIOUS
    <3> QED BY <1>14, <2>1, <3>1, Zenon
  <2>3. PICK k \in Nat : k = 4
    OBVIOUS
  <2>4. h \in [1..k -> Byte]
    BY <1>13, <2>2, <2>3, Zenon
  <2>5. h \in Seq(Byte) /\ Len(h) = k
    BY <2>4, SeqFrom, Zenon
  <2> QED BY <2>3, <2>5, Zenon
<1>16. BytesAre(x, h, a, b, c)
  BY <1>10, <1>11, <1>12, <1>14, <1>15, Zenon DEF BytesAre
<1> QED BY <1>13, <1>16, Zenon

(* A frame is four bytes of length and the payload (encode). *)
LEMMA EncodeIs ==
  ASSUME WellOrdered, NEW p \in Seq(Byte)
  PROVE  /\ encode(p) \in Seq(Byte) /\ Len(encode(p)) = 4 + Len(p)
         /\ SubSeq(encode(p), 1, 4) = to_le_bytes(Len(p))
         /\ SubSeq(encode(p), 5, 4 + Len(p)) = p
<1>1. Len(p) \in Nat
  OBVIOUS
<1>2. PICK h : h = to_le_bytes(Len(p)) /\ h \in Seq(Byte) /\ Len(h) = 4
  BY <1>1, ToBytes, Zenon DEF BytesAre
<1>3. encode(p) = h \o p
  BY <1>2, Zenon DEF encode
<1>4. /\ h \o p \in Seq(Byte) /\ Len(h \o p) = 4 + Len(p)
      /\ SubSeq(h \o p, 1, 4) = h
      /\ SubSeq(h \o p, 5, 4 + Len(p)) = p
  <2>0. 4 + 1 = 5
    OBVIOUS
  <2>1. h \o p \in Seq(Byte) /\ Len(h \o p) = Len(h) + Len(p)
    BY <1>2, JoinIs, Zenon
  <2>2. SubSeq(h \o p, 1, Len(h)) = h /\ SubSeq(h \o p, Len(h) + 1, Len(h) + Len(p)) = p
    BY <1>2, JoinParts, Zenon
  <2> QED BY <1>2, <2>0, <2>1, <2>2, Zenon
<1> QED BY <1>2, <1>3, <1>4, Zenon

Inside(s, a, b, m, n) == a \in 0..Len(s) /\ b \in a..Len(s) /\ m \in 1..(b - a + 1) /\ n \in (m - 1)..(b - a)

SameInside(s, a, b, m, n) == SubSeq(SubSeq(s, a + 1, b), m, n) = SubSeq(s, a + m, a + n)

(* A part of a part is a part of the whole. *)
LEMMA PartOfPart ==
  ASSUME NEW C, NEW s \in Seq(C), NEW a, NEW b, NEW m, NEW n, Inside(s, a, b, m, n)
  PROVE  SameInside(s, a, b, m, n)
BY DEF Inside, SameInside

(* Payloads whose length a prefix can say, and the stream that carries them. *)
Sendable == {p \in Seq(Byte) : Len(p) < Radix * Radix * Radix * Radix}

Encoded(payloads) == [j \in DOMAIN payloads |-> encode(payloads[j])]

Framed(payloads, f) ==
  /\ \A i \in 0..Len(payloads) : f[i] \in Seq(Byte)
  /\ Len(f[0]) = 0
  /\ \A i \in 1..Len(payloads) :
       /\ Len(f[i]) = Len(f[i - 1]) + 4 + Len(payloads[i])
       /\ SubSeq(f[Len(payloads)], Len(f[i - 1]) + 1, Len(f[i])) = encode(payloads[i])
  /\ \A i \in 0..Len(payloads) : \A j \in i..Len(payloads) : Len(f[i]) <= Len(f[j])

(* Where the frames of a stream begin and end. *)
LEMMA FramesAre ==
  ASSUME WellOrdered, NEW payloads \in Seq(Sendable)
  PROVE  Framed(payloads, Concats(Encoded(payloads)))
<1>1. PICK n \in Nat : n = Len(payloads) /\ DOMAIN payloads = 1..n
  OBVIOUS
<1>2. \A i \in 1..n : payloads[i] \in Seq(Byte)
  <2>1. \A i \in 1..n : payloads[i] \in Sendable
    BY <1>1, SeqElement, Zenon
  <2> QED BY <2>1, Zenon DEF Sendable
<1>3. PICK parts \in Seq(Seq(Byte)) :
        /\ parts = Encoded(payloads) /\ Len(parts) = n
        /\ \A i \in 1..n : parts[i] = encode(payloads[i])
  <2>1. PICK parts : parts = [j \in 1..n |-> encode(payloads[j])]
    BY Zenon
  <2>2. \A i \in 1..n : encode(payloads[i]) \in Seq(Byte)
    BY <1>2, EncodeIs, Zenon
  <2>3. parts \in [1..n -> Seq(Byte)]
    BY <2>1, <2>2, Zenon
  <2>4. parts \in Seq(Seq(Byte)) /\ Len(parts) = n
    BY <2>3, SeqFrom, Zenon
  <2>5. parts = Encoded(payloads) /\ \A i \in 1..n : parts[i] = encode(payloads[i])
    BY <1>1, <2>1, Zenon DEF Encoded
  <2> QED BY <2>4, <2>5, Zenon
<1>4. PICK f : f = Concats(parts)
  BY Zenon
<1>5. /\ f[0] = <<>>
      /\ \A i \in 1..n : f[i] = f[i - 1] \o parts[i]
      /\ \A i \in 0..n : f[i] \in Seq(Byte)
  BY <1>3, <1>4, ConcatsIs, Zenon
<1>6. \A i \in 0..n : \A j \in i..n : Grows(f, i, j)
  BY <1>3, <1>4, ConcatsGrow, Zenon
<1>7. ASSUME NEW i \in 1..n
      PROVE  /\ Len(f[i]) = Len(f[i - 1]) + 4 + Len(payloads[i])
             /\ SubSeq(f[n], Len(f[i - 1]) + 1, Len(f[i])) = encode(payloads[i])
  <2>1. i - 1 \in 0..n /\ i \in 0..n /\ n \in i..n /\ n \in 0..n
    OBVIOUS
  <2>2. PICK s \in Seq(Byte), t \in Seq(Byte), sent \in Seq(Byte) :
          s = f[i - 1] /\ t = encode(payloads[i]) /\ sent = f[n]
    <3>1. payloads[i] \in Seq(Byte)
      BY <1>2, Zenon
    <3>2. encode(payloads[i]) \in Seq(Byte)
      BY <3>1, EncodeIs, Zenon
    <3>3. f[i - 1] \in Seq(Byte) /\ f[n] \in Seq(Byte)
      BY <1>5, <2>1, Zenon
    <3> QED BY <3>2, <3>3, Zenon
  <2>3. f[i] = s \o t
    BY <1>3, <1>5, <2>2, Zenon
  <2>4. Len(t) = 4 + Len(payloads[i]) /\ Len(payloads[i]) \in Nat
    <3>1. payloads[i] \in Seq(Byte)
      BY <1>2, Zenon
    <3>2. Len(payloads[i]) \in Nat
      BY <3>1
    <3> QED BY <2>2, <3>1, <3>2, EncodeIs, Zenon
  <2>5. Len(s \o t) = Len(s) + Len(t) /\ SubSeq(s \o t, Len(s) + 1, Len(s) + Len(t)) = t
    <3>1. Len(s \o t) = Len(s) + Len(t)
      BY JoinIs, Zenon
    <3>2. SubSeq(s \o t, Len(s) + 1, Len(s) + Len(t)) = t
      BY JoinParts, Zenon
    <3> QED BY <3>1, <3>2, Zenon
  <2>6. Len(s \o t) <= Len(sent) /\ s \o t = SubSeq(sent, 1, Len(s \o t))
    BY <1>6, <2>1, <2>2, <2>3, Zenon DEF Grows
  <2>7. PICK k \in Nat, m \in Nat : k = Len(s) + Len(t) /\ m = Len(s) + 1
    <3>1. PICK a \in Nat, b \in Nat : a = Len(s) /\ b = Len(t)
      BY LenTyped, Zenon
    <3>2. a + b \in Nat /\ a + 1 \in Nat
      BY <3>1
    <3> QED BY <3>1, <3>2, Zenon
  <2>8. SubSeq(SubSeq(sent, 1, k), m, k) = SubSeq(sent, m, k)
    <3>1. Inside(sent, 0, k, m, k)
      BY <2>5, <2>6, <2>7 DEF Inside
    <3>2. SameInside(sent, 0, k, m, k)
      BY <3>1, PartOfPart, Zenon
    <3>3. 0 + 1 = 1 /\ 0 + m = m /\ 0 + k = k
      OBVIOUS
    <3> QED BY <3>2, <3>3, Zenon DEF SameInside
  <2>9. SubSeq(sent, Len(s) + 1, Len(s) + Len(t)) = t
    BY <2>5, <2>6, <2>7, <2>8, Zenon
  <2>10. Len(s) + Len(t) = Len(s) + 4 + Len(payloads[i])
    <3>1. PICK a \in Nat, b \in Nat : a = Len(s) /\ b = Len(payloads[i])
      BY <2>4, LenTyped, Zenon
    <3>2. a + (4 + b) = a + 4 + b
      OBVIOUS
    <3> QED BY <2>4, <3>1, <3>2, Zenon
  <2> QED BY <2>2, <2>3, <2>5, <2>9, <2>10, Zenon
<1>8. Len(f[0]) = 0
  BY <1>5
<1>9. \A i \in 0..n : \A j \in i..n : Len(f[i]) <= Len(f[j])
  BY <1>6, Zenon DEF Grows
<1>10. Framed(payloads, f)
  BY <1>1, <1>5, <1>7, <1>8, <1>9, Zenon DEF Framed
<1> QED BY <1>3, <1>4, <1>10, Zenon

(* Every stream, however it is cut into reads and wherever it breaks off. *)
LEMMA FramesArrive ==
  ASSUME WellOrdered
  PROVE  \A payloads \in Seq(Sendable), reads \in Seq(Seq(Byte)) : FramesSurvive(payloads, reads)
<1>OneMore.
    ASSUME NEW C, NEW s \in Seq(C), NEW c \in Nat, c < Len(s)
    PROVE  Append(SubSeq(s, 1, c), s[c + 1]) = SubSeq(s, 1, c + 1)
  BY <1>OneMore

<1> DEFINE
  Quotient(x, d, q) == q = x \div d
<1> HIDE DEF Quotient

<1>FewerLeft.
    ASSUME NEW x \in Nat, NEW d \in Nat \ {0}, NEW y \in Nat, NEW z \in Nat, z = y * d, x < z,
           NEW k \in Nat, Quotient(x, d, k)
    PROVE  k < y
  <2> USE <1>FewerLeft
  <2>1. PICK q \in Nat, r \in 0..(d - 1) : q = k /\ x = q * d + r
    BY Division, Zenon DEF Quotient
  <2>2. SUFFICES ASSUME q >= y PROVE FALSE
    BY <2>1
  <2>3. PICK e \in Nat : q = y + e
    <3>1. q - y \in Nat /\ q = y + (q - y)
      BY <2>2
    <3> QED BY <3>1
  <2>4. (y + e) * d = y * d + e * d /\ e * d \in Nat /\ y * d \in Nat
    OBVIOUS
  <2> QED BY <2>1, <2>3, <2>4

<1>BytesRead.
    ASSUME NEW bytes \in Seq(Byte), Len(bytes) = 4
    PROVE  /\ from_le_bytes(bytes) \in Nat
           /\ from_le_bytes(bytes) =
                ((bytes[4] * Radix + bytes[3]) * Radix + bytes[2]) * Radix + bytes[1]
  <2> USE <1>BytesRead
  <2>1. Radix \in Nat
    BY FramingAssumption
  <2>2. PICK d : d = [i \in 1..4 |-> bytes[4 + 1 - i]]
    BY Zenon
  <2>3. d[1] = bytes[4] /\ d[2] = bytes[3] /\ d[3] = bytes[2] /\ d[4] = bytes[1]
    BY <2>2
  <2>4. bytes[1] \in Nat /\ bytes[2] \in Nat /\ bytes[3] \in Nat /\ bytes[4] \in Nat
    <3>1. 1 \in 1..Len(bytes) /\ 2 \in 1..Len(bytes) /\ 3 \in 1..Len(bytes) /\ 4 \in 1..Len(bytes)
      OBVIOUS
    <3>2. bytes[1] \in Byte /\ bytes[2] \in Byte /\ bytes[3] \in Byte /\ bytes[4] \in Byte
      BY <3>1, SeqElement, Zenon
    <3>3. \A e \in Byte : e \in Nat
      BY <2>1 DEF Byte
    <3> QED BY <3>2, <3>3, Zenon
  <2>5. d \in Seq(Nat) /\ Len(d) = 4
    <3>1. d \in [1..4 -> Nat] /\ 4 \in Nat
      BY <2>2, <2>3, <2>4
    <3> QED BY <3>1, SeqFrom, Zenon
  <2>6. PICK g : g = Numbers(d, Radix)
    BY Zenon
  <2>7. g[0] = 0 /\ (\A i \in 1..4 : g[i] = g[i - 1] * Radix + d[i]) /\ \A i \in 0..4 : g[i] \in Nat
    BY <2>1, <2>5, <2>6, NumbersAre, Zenon
  <2>8. from_le_bytes(bytes) = g[4] /\ g[4] \in Nat
    <3>1. Number(d, Radix) = g[4]
      BY <2>5, <2>6, Zenon DEF Number
    <3>2. 4 \in 0..4
      OBVIOUS
    <3> QED BY <2>2, <2>7, <3>1, <3>2, Zenon DEF from_le_bytes, PrefixLen
  <2>9. /\ g[1] = g[0] * Radix + d[1] /\ g[2] = g[1] * Radix + d[2]
        /\ g[3] = g[2] * Radix + d[3] /\ g[4] = g[3] * Radix + d[4]
    <3>1. /\ 1 \in 1..4 /\ 2 \in 1..4 /\ 3 \in 1..4 /\ 4 \in 1..4
          /\ 1 - 1 = 0 /\ 2 - 1 = 1 /\ 3 - 1 = 2 /\ 4 - 1 = 3
      OBVIOUS
    <3> QED BY <2>7, <3>1, Zenon
  <2>10. g[1] = bytes[4]
    BY <2>1, <2>3, <2>4, <2>7, <2>9
  <2> QED BY <2>3, <2>8, <2>9, <2>10, Zenon

(* A length below 2^32 is read as it was written. *)
<1>LengthsRead.
    ASSUME NEW x \in Nat, x < Radix * Radix * Radix * Radix
    PROVE  from_le_bytes(to_le_bytes(x)) = x
  <2> USE <1>LengthsRead
  <2>1. Radix \in Nat \ {0} /\ Radix \in Nat
    BY FramingAssumption
  <2>2. PICK h : h = to_le_bytes(x)
    BY Zenon
  <2>3. PICK a, b, c \in Nat : BytesAre(x, h, a, b, c)
    BY <2>2, ToBytes, Zenon
  <2>4. h \in Seq(Byte) /\ Len(h) = 4
    BY <2>3, Zenon DEF BytesAre
  <2>5. c < Radix
    <3>1. PICK two \in Nat : two = Radix * Radix
      BY <2>1
    <3>2. PICK three \in Nat : three = two * Radix
      BY <2>1
    <3>3. PICK four \in Nat : four = three * Radix
      BY <2>1
    <3>4. x < four
      BY <3>1, <3>2, <3>3, Zenon
    <3>5. Quotient(x, Radix, a) /\ Quotient(a, Radix, b) /\ Quotient(b, Radix, c)
      BY <2>3, Zenon DEF Quotient, BytesAre
    <3>6. a < three
      BY <2>1, <3>3, <3>4, <3>5, <1>FewerLeft, Zenon
    <3>7. b < two
      BY <2>1, <3>2, <3>5, <3>6, <1>FewerLeft, Zenon
    <3> QED BY <2>1, <3>1, <3>5, <3>7, <1>FewerLeft, Zenon
  <2>6. x = a * Radix + h[1] /\ a = b * Radix + h[2] /\ b = c * Radix + h[3] /\ c = h[4]
    <3>1. c % Radix = c
      BY <2>1, <2>5
    <3>2. /\ x = (x \div Radix) * Radix + (x % Radix)
          /\ a = (a \div Radix) * Radix + (a % Radix)
          /\ b = (b \div Radix) * Radix + (b % Radix)
      BY <2>1, Division, Zenon
    <3> QED BY <2>3, <3>1, <3>2, Zenon DEF BytesAre
  <2>7. from_le_bytes(h) = ((h[4] * Radix + h[3]) * Radix + h[2]) * Radix + h[1]
    BY <2>4, <1>BytesRead, Zenon
  <2> QED BY <2>2, <2>6, <2>7, Zenon

<1> DEFINE
  Receiver == [buf : Seq(Byte), got : Seq(Seq(Byte)), failed : BOOLEAN]
  LenReads(buf) == LenOf(buf) \in Nat
<1> HIDE DEF Receiver, LenReads

<1>LenOfIs.
    ASSUME NEW buf \in Seq(Byte), Len(buf) >= 4
    PROVE  LenReads(buf)
  <2> USE <1>LenOfIs
  <2>1. SubSeq(buf, 1, 4) \in Seq(Byte) /\ Len(SubSeq(buf, 1, 4)) = 4
    <3>1. 1 \in 1..(Len(buf) + 1) /\ 4 \in (1 - 1)..Len(buf) /\ 4 - 1 + 1 = 4
      OBVIOUS
    <3> QED BY <3>1, PartTyped, Zenon
  <2>2. from_le_bytes(SubSeq(buf, 1, 4)) \in Nat
    BY <2>1, <1>BytesRead, Zenon
  <2> QED BY <2>2, Zenon DEF LenReads, LenOf, PrefixLen

<1> DEFINE
  (* What a receiver does with its buffer, one message at a time. *)
  Takes(s) == Len(s.buf) >= 4 /\ LenOf(s.buf) <= MaxMessageSize /\ Len(s.buf) >= 4 + LenOf(s.buf)
  Taken(s) ==
    [s EXCEPT !.buf = SubSeq(s.buf, 4 + LenOf(s.buf) + 1, Len(s.buf)),
              !.got = Append(s.got, SubSeq(s.buf, 4 + 1, 4 + LenOf(s.buf)))]
  TakeIs(s, t) ==
    /\ t \in Receiver
    /\ Takes(s) => t = Taken(s)
    /\ ~Takes(s) => t = [s EXCEPT !.failed = TRUE]
<1> HIDE DEF Takes, Taken, TakeIs

<1>TakesIs.
    ASSUME NEW s \in Receiver
    PROVE  TakeIs(s, try_take_framed_message(s))
  <2>1. PICK buf \in Seq(Byte), got \in Seq(Seq(Byte)) : buf = s.buf /\ got = s.got
    BY DEF Receiver
  <2>2. MaxMessageSize \in Nat
    BY FramingAssumption
  <2>3. CASE Takes(s)
    <3>1. Len(buf) >= 4
      BY <2>1, <2>3, Zenon DEF Takes
    <3>2. PICK k \in Nat : k = LenOf(buf)
      BY <3>1, <1>LenOfIs, Zenon DEF LenReads
    <3>3. k <= MaxMessageSize /\ Len(buf) >= 4 + k
      BY <2>1, <2>3, <3>2, Zenon DEF Takes
    <3>4. ~(Len(buf) < 4) /\ ~(k > MaxMessageSize) /\ ~(Len(buf) < 4 + k)
      BY <2>2, <3>1, <3>3
    <3>5. PICK d : d = decode(buf)
      BY Zenon
    <3>6. d = [ok |-> TRUE, msg |-> SubSeq(buf, 4 + 1, 4 + k), consumed |-> 4 + k]
      BY <3>2, <3>4, <3>5, Zenon DEF decode, PrefixLen
    <3>7. d.ok /\ d.msg = SubSeq(buf, 4 + 1, 4 + k) /\ d.consumed = 4 + k
      BY <3>6
    <3>8. try_take_framed_message(s) = Taken(s)
      BY <2>1, <3>2, <3>5, <3>7, Zenon DEF try_take_framed_message, Taken
    <3>9. Taken(s) \in Receiver
      <4>1. PICK rest \in Seq(Byte), msg \in Seq(Byte) :
              rest = SubSeq(buf, 4 + k + 1, Len(buf)) /\ msg = SubSeq(buf, 4 + 1, 4 + k)
        <5>1. PICK m \in 1..(Len(buf) + 1), n \in 0..Len(buf), q \in 1..(Len(buf) + 1) :
                /\ m = 4 + k + 1 /\ n = 4 + k /\ q = 4 + 1
                /\ Len(buf) \in (m - 1)..Len(buf) /\ n \in (q - 1)..Len(buf)
          BY <3>3
        <5>2. SubSeq(buf, m, Len(buf)) \in Seq(Byte)
          BY <5>1, PartTyped, Zenon
        <5>3. SubSeq(buf, q, n) \in Seq(Byte)
          BY <5>1, PartTyped, Zenon
        <5> QED BY <5>1, <5>2, <5>3, Zenon
      <4>2. PICK more \in Seq(Seq(Byte)) : more = Append(got, msg)
        BY AppendTyped, Zenon
      <4>3. Taken(s) = [s EXCEPT !.buf = rest, !.got = more]
        BY <2>1, <3>2, <4>1, <4>2, Zenon DEF Taken
      <4>4. [s EXCEPT !.buf = rest, !.got = more] \in Receiver
        BY Zenon DEF Receiver
      <4> QED BY <4>3, <4>4, Zenon
    <3> QED BY <2>3, <3>8, <3>9, Zenon DEF TakeIs
  <2>4. CASE ~Takes(s)
    <3>1. Len(buf) < 4 \/ LenOf(buf) > MaxMessageSize \/ Len(buf) < 4 + LenOf(buf)
      <4>1. CASE Len(buf) < 4
        BY <4>1, Zenon
      <4>2. CASE Len(buf) >= 4
        <5>1. PICK k \in Nat : k = LenOf(buf)
          BY <4>2, <1>LenOfIs, Zenon DEF LenReads
        <5>2. ~(k <= MaxMessageSize /\ Len(buf) >= 4 + k)
          BY <2>1, <2>4, <4>2, <5>1, Zenon DEF Takes
        <5>3. k > MaxMessageSize \/ Len(buf) < 4 + k
          BY <2>2, <5>2
        <5> QED BY <5>1, <5>3, Zenon
      <4>3. Len(buf) < 4 \/ Len(buf) >= 4
        OBVIOUS
      <4> QED BY <4>1, <4>2, <4>3, Zenon
    <3>2. PICK d : d = decode(buf)
      BY Zenon
    <3>3. d = [ok |-> FALSE]
      BY <3>1, <3>2, Zenon DEF decode, PrefixLen
    <3>4. ~d.ok
      BY <3>3
    <3>5. try_take_framed_message(s) = [s EXCEPT !.failed = TRUE]
      BY <2>1, <3>2, <3>4, Zenon DEF try_take_framed_message
    <3>6. [s EXCEPT !.failed = TRUE] \in Receiver
      BY Zenon DEF Receiver
    <3> QED BY <2>4, <3>5, <3>6, Zenon DEF TakeIs
  <2> QED BY <2>3, <2>4, Zenon

<1> DEFINE
  HasHead(sent, p, a, b, buf) ==
    /\ buf \in Seq(Byte) /\ Len(buf) = b - a
    /\ Len(buf) >= 4 => LenOf(buf) = Len(p)
    /\ Len(buf) >= 4 + Len(p) =>
         /\ SubSeq(buf, 4 + 1, 4 + Len(p)) = p
         /\ SubSeq(buf, 4 + Len(p) + 1, Len(buf)) = SubSeq(sent, a + 4 + Len(p) + 1, b)
<1> HIDE DEF HasHead

<1>HeadOfFrame.
    ASSUME NEW sent \in Seq(Byte), NEW p \in Sendable, NEW a \in 0..Len(sent), NEW b \in a..Len(sent),
           a + 4 + Len(p) <= Len(sent), SubSeq(sent, a + 1, a + 4 + Len(p)) = encode(p)
    PROVE  HasHead(sent, p, a, b, SubSeq(sent, a + 1, b))
  <2> USE <1>HeadOfFrame
  <2>1. p \in Seq(Byte) /\ Len(p) < Radix * Radix * Radix * Radix
    BY Zenon DEF Sendable
  <2>2. PICK k \in Nat : k = Len(p)
    BY <2>1
  <2>3. PICK buf : buf = SubSeq(sent, a + 1, b)
    BY Zenon
  <2>4. buf \in Seq(Byte) /\ Len(buf) = b - a
    <3>1. PICK m \in 1..(Len(sent) + 1) : m = a + 1 /\ b \in (m - 1)..Len(sent) /\ b - m + 1 = b - a
      OBVIOUS
    <3>2. SubSeq(sent, m, b) \in Seq(Byte) /\ Len(SubSeq(sent, m, b)) = b - m + 1
      BY <3>1, PartTyped, Zenon
    <3> QED BY <2>3, <3>1, <3>2, Zenon
  <2>5. PICK d \in a..Len(sent) : d = a + 4 + k /\ d - a = 4 + k /\ SubSeq(sent, a + 1, d) = encode(p)
    <3>1. a + 4 + k \in a..Len(sent) /\ (a + 4 + k) - a = 4 + k
      BY <2>2
    <3> QED BY <2>2, <3>1, Zenon
  <2>6. /\ SubSeq(encode(p), 1, 4) = to_le_bytes(k)
        /\ SubSeq(encode(p), 5, 4 + k) = p
    BY <2>1, <2>2, EncodeIs, Zenon
  <2>7. SubSeq(encode(p), 1, 4) = SubSeq(sent, a + 1, a + 4)
    <3>1. Inside(sent, a, d, 1, 4)
      BY <2>5 DEF Inside
    <3>2. SameInside(sent, a, d, 1, 4)
      BY <3>1, PartOfPart, Zenon
    <3> QED BY <2>5, <3>2, Zenon DEF SameInside
  <2>8. ASSUME Len(buf) >= 4 PROVE LenOf(buf) = k
    <3>1. Inside(sent, a, b, 1, 4)
      BY <2>4, <2>8 DEF Inside
    <3>2. SubSeq(buf, 1, 4) = SubSeq(sent, a + 1, a + 4)
      <4>1. SameInside(sent, a, b, 1, 4)
        BY <3>1, PartOfPart, Zenon
      <4> QED BY <2>3, <4>1, Zenon DEF SameInside
    <3>3. from_le_bytes(to_le_bytes(k)) = k
      BY <2>1, <2>2, <1>LengthsRead, Zenon
    <3> QED BY <2>6, <2>7, <3>2, <3>3, Zenon DEF LenOf, PrefixLen
  <2>9. ASSUME Len(buf) >= 4 + k
        PROVE  /\ SubSeq(buf, 4 + 1, 4 + k) = p
               /\ SubSeq(buf, 4 + k + 1, Len(buf)) = SubSeq(sent, a + 4 + k + 1, b)
    <3>1. PICK q \in Nat, r \in Nat, n \in Nat, l \in Nat :
            q = 4 + 1 /\ q = 5 /\ r = 4 + k + 1 /\ n = 4 + k /\ l = Len(buf)
      BY <2>4
    <3>2. SubSeq(buf, q, n) = SubSeq(sent, a + q, a + n)
      <4>1. Inside(sent, a, b, q, n)
        BY <2>4, <2>9, <3>1 DEF Inside
      <4>2. SameInside(sent, a, b, q, n)
        BY <4>1, PartOfPart, Zenon
      <4> QED BY <2>3, <4>2, Zenon DEF SameInside
    <3>3. SubSeq(encode(p), q, n) = SubSeq(sent, a + q, a + n)
      <4>1. Inside(sent, a, d, q, n)
        BY <2>5, <3>1 DEF Inside
      <4>2. SameInside(sent, a, d, q, n)
        BY <4>1, PartOfPart, Zenon
      <4> QED BY <2>5, <4>2, Zenon DEF SameInside
    <3>4. SubSeq(encode(p), q, n) = p
      BY <2>6, <3>1, Zenon
    <3>5. SubSeq(buf, r, l) = SubSeq(sent, a + r, a + l)
      <4>1. Inside(sent, a, b, r, l)
        BY <2>4, <2>9, <3>1 DEF Inside
      <4>2. SameInside(sent, a, b, r, l)
        BY <4>1, PartOfPart, Zenon
      <4> QED BY <2>3, <4>2, Zenon DEF SameInside
    <3>6. a + r = a + 4 + k + 1 /\ a + l = b
      BY <2>4, <3>1
    <3> QED BY <3>1, <3>2, <3>3, <3>4, <3>5, <3>6, Zenon
  <2> QED BY <2>2, <2>3, <2>4, <2>8, <2>9, Zenon DEF HasHead

<1> DEFINE
  (* Where a receiver stands that has read b bytes of the stream: it has returned
     the first c messages, none of them too long, and holds what was read since; or
     it has failed on the prefix of the next, which is too long. *)
  Stands(s, payloads, f, b, c) ==
    /\ c \in 0..Len(payloads) /\ Len(f[c]) <= b
    /\ \A j \in Oversize(payloads) : c < j
    /\ s \in Receiver /\ s.got = SubSeq(payloads, 1, c)
    /\ s.failed => c + 1 \in Oversize(payloads) /\ Len(f[c]) + 4 <= b
    /\ ~s.failed => s.buf = SubSeq(f[Len(payloads)], Len(f[c]) + 1, b)
  OnStream(payloads, f, b) == Framed(payloads, f) /\ b \in 0..Len(f[Len(payloads)])
  StandsAt(s, payloads, f, b, c) ==
    /\ c \in Nat /\ Len(f[c]) \in Nat /\ b \in Nat
    /\ s.buf \in Seq(Byte) /\ Len(s.buf) = b - Len(f[c])
    /\ c = Len(payloads) => Len(s.buf) = 0
    /\ c < Len(payloads) =>
         /\ c + 1 \in 1..Len(payloads) /\ payloads[c + 1] \in Sendable
         /\ Len(f[c + 1]) = Len(f[c]) + 4 + Len(payloads[c + 1])
         /\ HasHead(f[Len(payloads)], payloads[c + 1], Len(f[c]), b, s.buf)
<1> HIDE DEF Stands, OnStream, StandsAt

<1>StandsHead.
    ASSUME NEW payloads \in Seq(Sendable), NEW f, NEW b, OnStream(payloads, f, b),
           NEW s, NEW c, Stands(s, payloads, f, b, c), ~s.failed
    PROVE  StandsAt(s, payloads, f, b, c)
  <2> USE <1>StandsHead
  <2>1. PICK n \in Nat : n = Len(payloads)
    BY LenTyped, Zenon
  <2>2. PICK sent \in Seq(Byte) : sent = f[n]
    <3>1. n \in 0..n
      OBVIOUS
    <3> QED BY <2>1, <3>1, Zenon DEF OnStream, Framed
  <2>3. PICK l \in Nat : l = Len(sent) /\ b \in 0..l
    BY <2>1, <2>2, LenTyped, Zenon DEF OnStream
  <2>4. c \in 0..n /\ Len(f[c]) <= b /\ s.buf = SubSeq(sent, Len(f[c]) + 1, b)
    BY <2>1, <2>2, Zenon DEF Stands
  <2>5. c \in Nat /\ b \in Nat /\ n \in c..n
    BY <2>3, <2>4
  <2>6. PICK a \in Nat : a = Len(f[c]) /\ a <= l
    <3>1. f[c] \in Seq(Byte)
      BY <2>1, <2>4, Zenon DEF OnStream, Framed
    <3>2. Len(f[c]) <= Len(f[n])
      BY <2>1, <2>4, <2>5, Zenon DEF OnStream, Framed
    <3> QED BY <2>2, <2>3, <3>1, <3>2, LenTyped, Zenon
  <2>7. a <= b /\ s.buf = SubSeq(sent, a + 1, b)
    BY <2>4, <2>6, Zenon
  <2>8. s.buf \in Seq(Byte) /\ Len(s.buf) = b - a
    <3>1. PICK m \in 1..(l + 1) : m = a + 1 /\ b \in (m - 1)..l /\ b - m + 1 = b - a
      <4>1. a <= b /\ b <= l /\ a \in Nat /\ b \in Nat /\ l \in Nat
        BY <2>3, <2>5, <2>7
      <4>2. PICK m : m = a + 1
        BY Zenon
      <4>3. m \in 1..(l + 1) /\ b \in (m - 1)..l /\ b - m + 1 = b - a
        BY <4>1, <4>2
      <4> QED BY <4>2, <4>3, Zenon
    <3>2. SubSeq(sent, m, b) \in Seq(Byte) /\ Len(SubSeq(sent, m, b)) = b - m + 1
      BY <2>3, <3>1, PartTyped, Zenon
    <3> QED BY <2>7, <3>1, <3>2, Zenon
  <2>9. ASSUME c = n PROVE Len(s.buf) = 0
    <3>1. a = l
      BY <2>2, <2>3, <2>6, <2>9, Zenon
    <3>2. b - a = 0
      BY <2>3, <2>7, <3>1
    <3> QED BY <2>8, <3>2, Zenon
  <2>10. ASSUME c < n
         PROVE  /\ c + 1 \in 1..n /\ payloads[c + 1] \in Sendable
                /\ Len(f[c + 1]) = a + 4 + Len(payloads[c + 1])
                /\ HasHead(sent, payloads[c + 1], a, b, s.buf)
    <3>1. PICK i \in 1..n : i = c + 1 /\ i - 1 = c /\ i \in 0..n /\ n \in i..n
      BY <2>5, <2>10
    <3>2. PICK p \in Sendable : p = payloads[i]
      BY <2>1, SeqElement, Zenon
    <3>3. Len(f[i]) = a + 4 + Len(p) /\ SubSeq(sent, a + 1, Len(f[i])) = encode(p)
      BY <2>1, <2>2, <2>6, <3>1, <3>2, Zenon DEF OnStream, Framed
    <3>4. Len(f[i]) <= l
      BY <2>1, <2>2, <2>3, <3>1, Zenon DEF OnStream, Framed
    <3>5. a \in 0..Len(sent) /\ b \in a..Len(sent)
      BY <2>3, <2>6, <2>7
    <3>6. a + 4 + Len(p) <= Len(sent) /\ SubSeq(sent, a + 1, a + 4 + Len(p)) = encode(p)
      BY <2>3, <3>3, <3>4, Zenon
    <3>7. HasHead(sent, p, a, b, SubSeq(sent, a + 1, b))
      BY <3>5, <3>6, <1>HeadOfFrame, Zenon
    <3> QED BY <2>7, <3>1, <3>2, <3>3, <3>7, Zenon
  <2> QED BY <2>1, <2>2, <2>5, <2>6, <2>8, <2>9, <2>10, Zenon DEF StandsAt

<1> DEFINE
  (* Taking a message, or failing on a prefix, moves the receiver along the stream. *)
  Advances(s, t, payloads, f, b) ==
    \E d : Stands(t, payloads, f, b, d) /\ (t.failed \/ Len(t.buf) < Len(s.buf))
<1> HIDE DEF Advances

<1>TakeMoves.
    ASSUME NEW payloads \in Seq(Sendable), NEW f, NEW b, OnStream(payloads, f, b),
           NEW s, NEW c, Stands(s, payloads, f, b, c), ~Stopped(s)
    PROVE  Advances(s, try_take_framed_message(s), payloads, f, b)
  <2> USE <1>TakeMoves
  <2>1. ~s.failed /\ ~Waits(s.buf)
    BY Zenon DEF Stopped
  <2>2. StandsAt(s, payloads, f, b, c)
    BY <2>1, <1>StandsHead, Zenon
  <2>3. s \in Receiver
    BY Zenon DEF Stands
  <2>4. PICK t : t = try_take_framed_message(s)
    BY Zenon
  <2>5. TakeIs(s, t)
    BY <2>3, <2>4, <1>TakesIs, Zenon
  <2>6. PICK n \in Nat : n = Len(payloads)
    BY LenTyped, Zenon
  <2>7. PICK a \in Nat : a = Len(f[c])
    BY <2>2, Zenon DEF StandsAt
  <2>8. PICK l \in Nat : l = Len(s.buf) /\ l = b - a
    <3>1. s.buf \in Seq(Byte) /\ Len(s.buf) = b - a
      BY <2>2, <2>7, Zenon DEF StandsAt
    <3> QED BY <3>1, LenTyped, Zenon
  <2>9. c \in Nat /\ b \in Nat /\ c \in 0..n
    <3>1. c \in Nat /\ b \in Nat
      BY <2>2, Zenon DEF StandsAt
    <3> QED BY <2>6, <3>1, Zenon DEF Stands
  <2>10. l >= 4
    <3>1. ~(l < 4)
      BY <2>1, <2>8, Zenon DEF Waits, PrefixLen
    <3> QED BY <3>1
  <2>11. c < n
    <3>1. c = n => l = 0
      BY <2>2, <2>6, <2>8, Zenon DEF StandsAt
    <3> QED BY <2>9, <2>10, <3>1
  <2>12. PICK p \in Sendable : p = payloads[c + 1]
    BY <2>2, <2>6, <2>11, Zenon DEF StandsAt
  <2>13. PICK k \in Nat : k = Len(p)
    <3>1. p \in Seq(Byte)
      BY Zenon DEF Sendable
    <3> QED BY <3>1, LenTyped, Zenon
  <2>14. c + 1 \in 1..n /\ Len(f[c + 1]) = a + 4 + k /\ HasHead(f[n], p, a, b, s.buf)
    BY <2>2, <2>6, <2>7, <2>11, <2>12, <2>13, Zenon DEF StandsAt
  <2>15. LenOf(s.buf) = k
    BY <2>8, <2>10, <2>13, <2>14, Zenon DEF HasHead
  <2>16. MaxMessageSize \in Nat
    BY FramingAssumption
  <2>17. DOMAIN payloads = 1..n
    BY <2>6
  <2>18. CASE k > MaxMessageSize
    <3>1. ~(k <= MaxMessageSize)
      BY <2>16, <2>18
    <3>2. t = [s EXCEPT !.failed = TRUE] /\ t \in Receiver
      BY <2>5, <2>15, <3>1, Zenon DEF TakeIs, Takes
    <3>3. t.failed /\ t.got = s.got
      BY <2>3, <3>2 DEF Receiver
    <3>4. c + 1 \in Oversize(payloads)
      BY <2>12, <2>13, <2>14, <2>17, <2>18, Zenon DEF Oversize
    <3>5. a + 4 <= b
      BY <2>8, <2>9, <2>10
    <3>6. Stands(t, payloads, f, b, c)
      BY <2>7, <3>2, <3>3, <3>4, <3>5, Zenon DEF Stands
    <3> QED BY <2>4, <3>3, <3>6, Zenon DEF Advances
  <2>19. CASE k <= MaxMessageSize
    <3>1. l >= 4 + k
      <4>1. ~(l < 4 + k)
        BY <2>1, <2>8, <2>15, <2>19, Zenon DEF Waits, PrefixLen
      <4> QED BY <4>1
    <3>2. t = Taken(s) /\ t \in Receiver
      BY <2>5, <2>8, <2>10, <2>15, <2>19, <3>1, Zenon DEF TakeIs, Takes
    <3>3. /\ SubSeq(s.buf, 4 + 1, 4 + k) = p
          /\ SubSeq(s.buf, 4 + k + 1, l) = SubSeq(f[n], a + 4 + k + 1, b)
      BY <2>8, <2>13, <2>14, <3>1, Zenon DEF HasHead
    <3>4. PICK rest, more : rest = SubSeq(f[n], a + 4 + k + 1, b) /\ more = Append(s.got, p)
      BY Zenon
    <3>5. t = [s EXCEPT !.buf = rest, !.got = more]
      BY <2>8, <2>15, <3>2, <3>3, <3>4, Zenon DEF Taken
    <3>6. t.buf = rest /\ t.got = more /\ ~t.failed
      BY <2>1, <2>3, <3>5 DEF Receiver
    <3>7. PICK d \in 0..n : d = c + 1
      BY <2>9, <2>11
    <3>8. more = SubSeq(payloads, 1, d)
      <4>1. s.got = SubSeq(payloads, 1, c)
        BY Zenon DEF Stands
      <4>2. Append(SubSeq(payloads, 1, c), payloads[c + 1]) = SubSeq(payloads, 1, c + 1)
        BY <2>6, <2>9, <2>11, <1>OneMore, Zenon
      <4> QED BY <2>12, <3>4, <3>7, <4>1, <4>2, Zenon
    <3>9. \A j \in Oversize(payloads) : d < j
      <4>1. ASSUME NEW j \in Oversize(payloads) PROVE d < j
        <5>1. c < j /\ j \in 1..n /\ Len(payloads[j]) > MaxMessageSize
          BY <2>17, Zenon DEF Stands, Oversize
        <5>2. j # c + 1
          <6>1. ~(k > MaxMessageSize)
            BY <2>16, <2>19
          <6> QED BY <2>12, <2>13, <5>1, <6>1, Zenon
        <5> QED BY <2>9, <3>7, <5>1, <5>2
      <4> QED BY <4>1, Zenon
    <3>10. Len(f[d]) = a + 4 + k /\ a + 4 + k <= b
      <4>1. a + 4 + k <= b
        BY <2>8, <2>9, <3>1
      <4> QED BY <2>14, <3>7, <4>1, Zenon
    <3>11. Stands(t, payloads, f, b, d)
      BY <2>6, <3>2, <3>4, <3>6, <3>7, <3>8, <3>9, <3>10, Zenon DEF Stands
    <3>12. Len(t.buf) < l
      <4>1. d \in 0..n
        OBVIOUS
      <4>2. StandsAt(t, payloads, f, b, d)
        BY <3>6, <3>11, <1>StandsHead, Zenon
      <4>3. Len(t.buf) = b - (a + 4 + k)
        BY <3>10, <4>2, Zenon DEF StandsAt
      <4> QED BY <2>8, <2>9, <4>3
    <3> QED BY <2>4, <2>8, <3>11, <3>12, Zenon DEF Advances
  <2>20. k > MaxMessageSize \/ k <= MaxMessageSize
    BY <2>16
  <2> QED BY <2>18, <2>19, <2>20, Zenon

<1>DrainingIs.
    ASSUME NEW t \in Receiver
    PROVE  /\ Draining(t)[0] = t
           /\ \A i \in 1..Len(t.buf) :
                Draining(t)[i] = IF Stopped(Draining(t)[i - 1]) THEN Draining(t)[i - 1]
                                 ELSE try_take_framed_message(Draining(t)[i - 1])
           /\ \A i \in 0..Len(t.buf) : Draining(t)[i] \in Receiver
  <2> DEFINE n == Len(t.buf)
             S == Receiver
             op(i, s) == IF Stopped(s) THEN s ELSE try_take_framed_message(s)
             step == [i \in 1..n |-> [s \in S |-> op(i, s)]]
             Step(f) == [i \in 0..n |-> IF i = 0 THEN t ELSE op(i, f[i - 1])]
  <2>1. n \in Nat /\ t \in S /\ \A i \in 1..n, s \in S : op(i, s) \in S
    <3>1. t.buf \in Seq(Byte)
      BY Zenon DEF Receiver
    <3>2. n \in Nat
      BY <3>1, LenTyped, Zenon
    <3>3. \A s \in Receiver : try_take_framed_message(s) \in Receiver
      BY <1>TakesIs, Zenon DEF TakeIs
    <3> QED BY <3>2, <3>3, Zenon
  <2>2. Draining(t) = CHOOSE f : f = Step(f)
    BY Zenon DEF Draining
  <2> HIDE DEF n, S, op
  <2>3. PICK f \in [0..n -> S] : IsRow(f, n, t, step)
    <3>1. step \in [1..n -> [S -> S]]
      BY <2>1, Zenon
    <3> HIDE DEF step
    <3> QED BY <2>1, <3>1, Rows, Zenon
  <2>4. f = Step(f)
    <3>1. f[0] = t
      BY <2>3, Zenon DEF IsRow
    <3>2. ASSUME NEW i \in 1..n PROVE f[i] = op(i, f[i - 1])
      <4>1. f[i - 1] \in S
        BY <2>1
      <4>2. step[i][f[i - 1]] = op(i, f[i - 1])
        BY <4>1, Zenon
      <4> QED BY <2>3, <4>2, Zenon DEF IsRow
    <3> QED BY <2>1, <3>1, <3>2
  <2>5. PICK g : g = Draining(t) /\ g = Step(g)
    BY <2>2, <2>4, Zenon
  <2>6. g[0] = t /\ \A i \in 1..n : g[i] = op(i, g[i - 1])
    BY <2>1, <2>5
  <2>7. \A i \in 0..n : g[i] \in S
    <3>1. g[0] \in S
      BY <2>1, <2>6, Zenon
    <3>2. \A i \in 1..n : g[i - 1] \in S => g[i] \in S
      BY <2>1, <2>6, Zenon
    <3> QED BY <2>1, <3>1, <3>2, RowsTyped, Zenon
  <2>8. /\ g[0] = t
        /\ \A i \in 1..Len(t.buf) :
             g[i] = IF Stopped(g[i - 1]) THEN g[i - 1] ELSE try_take_framed_message(g[i - 1])
        /\ \A i \in 0..Len(t.buf) : g[i] \in Receiver
    BY <2>6, <2>7, Zenon DEF n, S, op
  <2> QED BY <2>5, <2>8, Zenon

<1> DEFINE
  Settled(s, payloads, f, b) == Stopped(s) /\ \E d : Stands(s, payloads, f, b, d)
<1> HIDE DEF Settled

<1>DrainSettles.
    ASSUME NEW payloads \in Seq(Sendable), NEW f, NEW b, OnStream(payloads, f, b),
           NEW s, NEW c, Stands(s, payloads, f, b, c)
    PROVE  Settled(Drain(s), payloads, f, b)
  <2> USE <1>DrainSettles
  <2>1. s \in Receiver
    BY Zenon DEF Stands
  <2>2. PICK n \in Nat : n = Len(s.buf)
    <3>1. s.buf \in Seq(Byte)
      BY <2>1, Zenon DEF Receiver
    <3> QED BY <3>1, LenTyped, Zenon
  <2>3. PICK g : g = Draining(s)
    BY Zenon
  <2>4. /\ g[0] = s
        /\ \A i \in 1..n : g[i] = IF Stopped(g[i - 1]) THEN g[i - 1]
                                  ELSE try_take_framed_message(g[i - 1])
        /\ \A i \in 0..n : g[i] \in Receiver
    BY <2>1, <2>2, <2>3, <1>DrainingIs, Zenon
  <2> DEFINE Few(i) == Stopped(g[i]) \/ Len(g[i].buf) <= n - i
             T == {i \in 0..n : Few(i) /\ \E d : Stands(g[i], payloads, f, b, d)}
  <2>5. 0 \in T
    <3>1. 0 \in 0..n /\ n <= n - 0
      OBVIOUS
    <3> QED BY <2>2, <2>4, <3>1, Zenon
  <2>6. ASSUME NEW i \in 1..n, i - 1 \in T PROVE i \in T
    <3>1. i - 1 \in 0..n /\ i \in 0..n
      OBVIOUS
    <3>2. PICK d : Stands(g[i - 1], payloads, f, b, d)
      BY <2>6, Zenon
    <3>3. CASE Stopped(g[i - 1])
      <4>1. g[i] = g[i - 1]
        BY <2>4, <3>3, Zenon
      <4> QED BY <3>1, <3>2, <3>3, <4>1, Zenon
    <3>4. CASE ~Stopped(g[i - 1])
      <4>1. g[i] = try_take_framed_message(g[i - 1])
        BY <2>4, <3>4, Zenon
      <4>2. Advances(g[i - 1], g[i], payloads, f, b)
        BY <3>2, <3>4, <4>1, <1>TakeMoves, Zenon
      <4>3. PICK e : Stands(g[i], payloads, f, b, e) /\ (g[i].failed \/ Len(g[i].buf) < Len(g[i - 1].buf))
        BY <4>2, Zenon DEF Advances
      <4>4. Few(i)
        <5>1. CASE g[i].failed
          BY <5>1, Zenon DEF Stopped
        <5>2. CASE Len(g[i].buf) < Len(g[i - 1].buf)
          <6>1. Len(g[i - 1].buf) <= n - (i - 1)
            BY <2>6, <3>4, Zenon
          <6>2. PICK x \in Nat, y \in Nat : x = Len(g[i].buf) /\ y = Len(g[i - 1].buf)
            <7>1. g[i].buf \in Seq(Byte) /\ g[i - 1].buf \in Seq(Byte)
              BY <2>4, <3>1, Zenon DEF Receiver
            <7> QED BY <7>1, LenTyped, Zenon
          <6>3. x < y /\ y <= n - (i - 1)
            BY <5>2, <6>1, <6>2, Zenon
          <6>4. x <= n - i
            BY <6>3
          <6> QED BY <6>2, <6>4, Zenon
        <5> QED BY <4>3, <5>1, <5>2, Zenon
      <4> QED BY <3>1, <4>3, <4>4, Zenon
    <3> QED BY <3>3, <3>4, Zenon
  <2>7. n \in T
    <3>1. n \in 0..n
      OBVIOUS
    <3> HIDE DEF T
    <3> QED BY <2>5, <2>6, <3>1, Upwards, Zenon
  <2>8. Stopped(g[n])
    <3>1. PICK x \in Nat : x = Len(g[n].buf)
      <4>1. n \in 0..n
        OBVIOUS
      <4>2. g[n].buf \in Seq(Byte)
        BY <2>4, <4>1, Zenon DEF Receiver
      <4> QED BY <4>2, LenTyped, Zenon
    <3>2. ASSUME x <= n - n PROVE x < 4
      BY <3>2
    <3> QED BY <2>7, <3>1, <3>2, Zenon DEF Stopped, Waits, PrefixLen
  <2>9. Drain(s) = g[n]
    BY <2>2, <2>3, Zenon DEF Drain
  <2> QED BY <2>7, <2>8, <2>9, Zenon DEF Settled

(* A read brings the receiver to where the bytes read by then put it. *)
<1>RecvSettles.
    ASSUME NEW payloads \in Seq(Sendable), NEW f, NEW b, NEW e, NEW bytes \in Seq(Byte),
           OnStream(payloads, f, b), OnStream(payloads, f, e), b <= e,
           bytes = SubSeq(f[Len(payloads)], b + 1, e),
           NEW s, Settled(s, payloads, f, b)
    PROVE  Settled(recv(s, bytes), payloads, f, e)
  <2> USE <1>RecvSettles
  <2>1. PICK c : Stands(s, payloads, f, b, c)
    BY Zenon DEF Settled
  <2>2. s \in Receiver
    BY <2>1, Zenon DEF Stands
  <2>3. PICK n \in Nat : n = Len(payloads) /\ n \in 0..n
    BY LenTyped
  <2>4. PICK sent \in Seq(Byte) : sent = f[n]
    BY <2>3, Zenon DEF OnStream, Framed
  <2>5. PICK l \in Nat : l = Len(sent)
    BY LenTyped, Zenon
  <2>6. b \in 0..l /\ e \in 0..l
    BY <2>3, <2>4, <2>5, Zenon DEF OnStream
  <2>7. b \in Nat /\ e \in Nat /\ b <= l /\ e <= l
    BY <2>6
  <2>8. PICK a \in Nat : a = Len(f[c]) /\ a <= b /\ a <= e
    <3>1. f[c] \in Seq(Byte) /\ Len(f[c]) <= b
      BY <2>1, <2>3, Zenon DEF OnStream, Framed, Stands
    <3>2. PICK a \in Nat : a = Len(f[c])
      BY <3>1, LenTyped, Zenon
    <3>3. a <= b
      BY <3>1, <3>2, Zenon
    <3>4. a <= e
      BY <2>7, <3>3
    <3> QED BY <3>2, <3>3, <3>4, Zenon
  <2>9. CASE s.failed
    <3>1. recv(s, bytes) = s
      BY <2>9, Zenon DEF recv
    <3>2. a + 4 <= e
      <4>1. a + 4 <= b
        BY <2>1, <2>8, <2>9, Zenon DEF Stands
      <4> QED BY <2>7, <4>1
    <3>3. Stands(s, payloads, f, e, c)
      BY <2>1, <2>8, <2>9, <3>2, Zenon DEF Stands
    <3> QED BY <2>9, <3>1, <3>3, Zenon DEF Settled, Stopped
  <2>10. CASE ~s.failed
    <3>1. s.buf = SubSeq(sent, a + 1, b) /\ bytes = SubSeq(sent, b + 1, e)
      BY <2>1, <2>3, <2>4, <2>8, <2>10, Zenon DEF Stands
    <3>2. PICK more \in Seq(Byte) : more = s.buf \o bytes
      <4>1. s.buf \in Seq(Byte)
        BY <2>2, Zenon DEF Receiver
      <4> QED BY <4>1, JoinIs, Zenon
    <3>3. more = SubSeq(sent, a + 1, e)
      <4>1. PICK m \in 1..(l + 1) : m = a + 1 /\ b \in (m - 1)..l /\ e \in b..l
        BY <2>7, <2>8
      <4>2. SubSeq(sent, m, b) \o SubSeq(sent, b + 1, e) = SubSeq(sent, m, e)
        BY <2>5, <4>1, AdjacentParts, Zenon
      <4> QED BY <3>1, <3>2, <4>1, <4>2, Zenon
    <3>4. PICK t : t = [s EXCEPT !.buf = more]
      BY Zenon
    <3>5. t \in Receiver
      BY <2>2, <3>4, Zenon DEF Receiver
    <3>6. t.buf = more /\ t.got = s.got /\ ~t.failed
      BY <2>2, <2>10, <3>4 DEF Receiver
    <3>7. Stands(t, payloads, f, e, c)
      BY <2>1, <2>3, <2>4, <2>8, <3>3, <3>5, <3>6, Zenon DEF Stands
    <3>8. Settled(Drain(t), payloads, f, e)
      BY <3>7, <1>DrainSettles, Zenon
    <3>9. recv(s, bytes) = Drain(t)
      BY <2>10, <3>2, <3>4, Zenon DEF recv
    <3> QED BY <3>8, <3>9, Zenon
  <2> QED BY <2>9, <2>10, Zenon

(* What has been returned, and whether recv has failed, once the receiver has
   to wait. *)
<1>NextIsOut.
    ASSUME NEW payloads \in Seq(Sendable), NEW f, NEW b, OnStream(payloads, f, b),
           NEW t, NEW c, Stands(t, payloads, f, b, c), Stopped(t), ~t.failed,
           NEW i \in 1..Len(payloads), c < i
    PROVE  /\ b < Len(f[i])
           /\ i \in Oversize(payloads) => b < Len(f[i - 1]) + 4
  <2> USE <1>NextIsOut
  <2>1. PICK n \in Nat : n = Len(payloads) /\ DOMAIN payloads = 1..n
    OBVIOUS
  <2>2. StandsAt(t, payloads, f, b, c) /\ Waits(t.buf)
    BY <1>StandsHead, Zenon DEF Stopped
  <2>3. c \in Nat /\ b \in Nat
    BY <2>2, Zenon DEF StandsAt
  <2>4. PICK a \in Nat : a = Len(f[c])
    BY <2>2, Zenon DEF StandsAt
  <2>5. i \in 1..n
    BY <2>1, Zenon
  <2>6. PICK d \in 1..n : d = c + 1 /\ d - 1 = c /\ d \in 0..n /\ i \in d..n /\ c < n
    BY <2>1, <2>3, <2>5
  <2>7. PICK p \in Sendable : p = payloads[d]
    BY <2>1, <2>2, <2>6, Zenon DEF StandsAt
  <2>8. PICK k \in Nat : k = Len(p)
    <3>1. p \in Seq(Byte)
      BY Zenon DEF Sendable
    <3> QED BY <3>1, LenTyped, Zenon
  <2>9. Len(f[d]) = a + 4 + k /\ HasHead(f[n], p, a, b, t.buf)
    BY <2>1, <2>2, <2>4, <2>6, <2>7, <2>8, Zenon DEF StandsAt
  <2>10. PICK l \in Nat : l = Len(t.buf) /\ l = b - a
    <3>1. t.buf \in Seq(Byte) /\ Len(t.buf) = b - a
      BY <2>2, <2>4, Zenon DEF StandsAt
    <3> QED BY <3>1, LenTyped, Zenon
  <2>11. l < 4 \/ (l >= 4 /\ k <= MaxMessageSize /\ l < 4 + k)
    <3>1. l >= 4 => LenOf(t.buf) = k
      BY <2>8, <2>9, <2>10, Zenon DEF HasHead
    <3>2. l < 4 \/ l >= 4
      OBVIOUS
    <3> QED BY <2>2, <2>10, <3>1, <3>2, Zenon DEF Waits, PrefixLen
  <2>12. b < a + 4 + k
    BY <2>3, <2>10, <2>11
  <2>13. \A j \in 0..n : Len(f[j]) \in Nat
    <3>1. \A j \in 0..n : f[j] \in Seq(Byte)
      BY <2>1, Zenon DEF OnStream, Framed
    <3> QED BY <3>1, LenTyped, Zenon
  <2>14. \A j \in d..n : b < Len(f[j])
    <3>1. ASSUME NEW j \in d..n PROVE b < Len(f[j])
      <4>1. j \in 0..n
        OBVIOUS
      <4>2. PICK x \in Nat : x = Len(f[j]) /\ a + 4 + k <= x
        BY <2>1, <2>6, <2>9, <2>13, <4>1, Zenon DEF OnStream, Framed
      <4>3. b < x
        BY <2>3, <2>12, <4>2
      <4> QED BY <4>2, <4>3, Zenon
    <3> QED BY <3>1, Zenon
  <2>15. ASSUME i \in Oversize(payloads) PROVE b < Len(f[i - 1]) + 4
    <3>1. CASE i = d
      <4>1. Len(payloads[i]) > MaxMessageSize
        BY <2>15, Zenon DEF Oversize
      <4>2. k > MaxMessageSize /\ MaxMessageSize \in Nat
        BY <2>7, <2>8, <3>1, <4>1, FramingAssumption, Zenon
      <4>3. b < a + 4
        BY <2>3, <2>10, <2>11, <4>2
      <4> QED BY <2>4, <2>6, <3>1, <4>3, Zenon
    <3>2. CASE i # d
      <4>1. i - 1 \in d..n /\ i - 1 \in 0..n
        BY <2>5, <2>6, <3>2
      <4>2. PICK x \in Nat : x = Len(f[i - 1]) /\ b < x
        BY <2>13, <2>14, <4>1, Zenon
      <4>3. b < x + 4
        BY <2>3, <4>2
      <4> QED BY <4>2, <4>3, Zenon
    <3> QED BY <3>1, <3>2, Zenon
  <2> QED BY <2>6, <2>14, <2>15, Zenon

<1>SettledTells.
    ASSUME NEW payloads \in Seq(Sendable), NEW b, NEW t,
           OnStream(payloads, Concats(Encoded(payloads)), b),
           Settled(t, payloads, Concats(Encoded(payloads)), b)
    PROVE  /\ t.got = SubSeq(payloads, 1, Max({0} \cup Arrived(payloads, b)))
           /\ t.failed <=> \E i \in Oversize(payloads) : Len(Frame(payloads, i - 1)) + PrefixLen <= b
  <2> USE <1>SettledTells
  <2>1. PICK f : f = Concats(Encoded(payloads))
    BY Zenon
  <2>2. OnStream(payloads, f, b) /\ Settled(t, payloads, f, b)
    BY <2>1, Zenon
  <2>3. PICK n \in Nat : n = Len(payloads) /\ DOMAIN payloads = 1..n
    OBVIOUS
  <2>4. PICK c \in 0..n : Stands(t, payloads, f, b, c)
    BY <2>2, <2>3, Zenon DEF Settled, Stands
  <2>5. Stopped(t)
    BY <2>2, Zenon DEF Settled
  <2>6. PICK l \in Nat : b \in 0..l
    <3>1. n \in 0..n
      OBVIOUS
    <3>2. f[n] \in Seq(Byte) /\ b \in 0..Len(f[n])
      BY <2>2, <2>3, <3>1, Zenon DEF OnStream, Framed
    <3> QED BY <3>2, LenTyped, Zenon
  <2>7. b \in Nat
    BY <2>6
  <2>8. \A i \in 0..n : Len(f[i]) \in Nat
    <3>1. \A i \in 0..n : f[i] \in Seq(Byte)
      BY <2>2, <2>3, Zenon DEF OnStream, Framed
    <3> QED BY <3>1, LenTyped, Zenon
  <2>9. \A i : Frame(payloads, i) = f[i]
    BY <2>1, Zenon DEF Frame, Encoded
  <2>10. \A i \in Oversize(payloads) : i \in 1..n /\ c < i
    BY <2>3, <2>4, Zenon DEF Oversize, Stands
  <2>11. ASSUME NEW i \in Arrived(payloads, b) PROVE i \in 1..c
    <3>1. i \in 1..n /\ Len(f[i]) <= b /\ \A j \in Oversize(payloads) : i < j
      BY <2>3, <2>9, Zenon DEF Arrived
    <3>2. SUFFICES ASSUME c < i PROVE FALSE
      BY <3>1
    <3>3. CASE t.failed
      <4>1. i < c + 1
        BY <2>4, <3>1, <3>3, Zenon DEF Stands
      <4> QED BY <3>1, <3>2, <4>1
    <3>4. CASE ~t.failed
      <4>1. b < Len(f[i])
        BY <2>2, <2>3, <2>4, <2>5, <3>1, <3>2, <3>4, <1>NextIsOut, Zenon
      <4>2. i \in 0..n
        BY <3>1
      <4>3. PICK x \in Nat : x = Len(f[i])
        BY <2>8, <4>2, Zenon
      <4>4. b < x /\ x <= b
        BY <3>1, <4>1, <4>3, Zenon
      <4> QED BY <2>7, <4>4
    <3> QED BY <3>3, <3>4, Zenon
  <2>12. ASSUME NEW i \in 1..c PROVE i \in Arrived(payloads, b)
    <3>1. i \in 1..n /\ i \in 0..n /\ c \in i..n /\ i <= c
      OBVIOUS
    <3>2. Len(f[i]) <= b
      <4>1. PICK x \in Nat, y \in Nat : x = Len(f[i]) /\ y = Len(f[c])
        BY <2>8, <3>1, Zenon
      <4>2. x <= y
        BY <2>2, <2>3, <3>1, <4>1, Zenon DEF OnStream, Framed
      <4>3. y <= b
        BY <2>4, <4>1, Zenon DEF Stands
      <4>4. x <= b
        BY <2>7, <4>2, <4>3
      <4> QED BY <4>1, <4>4, Zenon
    <3>3. ASSUME NEW j \in Oversize(payloads) PROVE i < j
      <4>1. j \in 1..n /\ c < j
        BY <2>10, Zenon
      <4> QED BY <3>1, <4>1
    <3> QED BY <2>3, <2>9, <3>1, <3>2, <3>3, Zenon DEF Arrived
  <2>13. Max({0} \cup Arrived(payloads, b)) = c
    <3>1. \A i : i \in {0} \cup Arrived(payloads, b) <=> i \in 0..c
      <4>1. \A i : i \in 0..c <=> i = 0 \/ i \in 1..c
        OBVIOUS
      <4> QED BY <2>11, <2>12, <4>1, Zenon
    <3>2. {0} \cup Arrived(payloads, b) = 0..c
      BY <3>1, Zenon
    <3>3. c \in 0..c /\ 0..c \subseteq 0..n /\ 0..c # {}
      <4>1. c \in 0..c /\ \A i \in 0..c : i \in 0..n
        OBVIOUS
      <4> QED BY <4>1, Zenon
    <3>4. PICK m : m = Max(0..c) /\ m \in 0..c /\ m >= c
      BY <3>3, LastPlace, Zenon
    <3>5. m = c
      BY <3>4
    <3> QED BY <3>2, <3>4, <3>5, Zenon
  <2>14. t.got = SubSeq(payloads, 1, c)
    BY <2>4, Zenon DEF Stands
  <2>15. ASSUME t.failed
         PROVE  \E i \in Oversize(payloads) : Len(Frame(payloads, i - 1)) + PrefixLen <= b
    <3>1. PICK i \in Nat : i = c + 1 /\ i - 1 = c
      OBVIOUS
    <3>2. i \in Oversize(payloads) /\ Len(f[i - 1]) + 4 <= b
      BY <2>4, <2>15, <3>1, Zenon DEF Stands
    <3> QED BY <2>9, <3>2, Zenon DEF PrefixLen
  <2>16. ASSUME ~t.failed, NEW i \in Oversize(payloads), Len(Frame(payloads, i - 1)) + PrefixLen <= b
         PROVE  FALSE
    <3>1. i \in 1..n /\ c < i /\ Len(f[i - 1]) + 4 <= b
      BY <2>9, <2>10, <2>16, Zenon DEF PrefixLen
    <3>2. b < Len(f[i - 1]) + 4
      BY <2>2, <2>3, <2>4, <2>5, <2>16, <3>1, <1>NextIsOut, Zenon
    <3>3. i - 1 \in 0..n
      BY <3>1
    <3>4. PICK x \in Nat : x = Len(f[i - 1])
      BY <2>8, <3>3, Zenon
    <3>5. b < x + 4 /\ x + 4 <= b
      BY <3>1, <3>2, <3>4, Zenon
    <3> QED BY <2>7, <3>5
  <2>17. t.failed \in BOOLEAN
    BY <2>4, Zenon DEF Stands, Receiver
  <2> QED BY <2>13, <2>14, <2>15, <2>16, <2>17, Zenon

<1>ReceivingIs.
    ASSUME NEW reads \in Seq(Seq(Byte))
    PROVE  /\ Receiving(reads)[0] = Fresh
           /\ \A i \in 1..Len(reads) : Receiving(reads)[i] = recv(Receiving(reads)[i - 1], reads[i])
  <2> DEFINE n == Len(reads)
             S == Receiver
             op(i, s) == recv(s, reads[i])
             step == [i \in 1..n |-> [s \in S |-> op(i, s)]]
             Step(f) == [i \in 0..n |-> IF i = 0 THEN Fresh ELSE op(i, f[i - 1])]
  <2>1. n \in Nat /\ Fresh \in S /\ \A i \in 1..n, s \in S : op(i, s) \in S
    <3>1. n \in Nat
      BY LenTyped, Zenon
    <3>2. Fresh \in Receiver
      <4>1. <<>> \in Seq(Byte) /\ <<>> \in Seq(Seq(Byte)) /\ FALSE \in BOOLEAN
        OBVIOUS
      <4> QED BY <4>1, Zenon DEF Fresh, Receiver
    <3>3. ASSUME NEW i \in 1..n, NEW s \in Receiver PROVE recv(s, reads[i]) \in Receiver
      <4>1. reads[i] \in Seq(Byte)
        BY SeqElement, Zenon
      <4>2. s.buf \in Seq(Byte)
        BY Zenon DEF Receiver
      <4>3. PICK more \in Seq(Byte) : more = s.buf \o reads[i]
        BY <4>1, <4>2, JoinIs, Zenon
      <4>4. PICK t \in Receiver : t = [s EXCEPT !.buf = more]
        BY Zenon DEF Receiver
      <4>5. Drain(t) \in Receiver
        <5>1. t.buf \in Seq(Byte)
          BY Zenon DEF Receiver
        <5>2. PICK k \in Nat : k = Len(t.buf)
          BY <5>1, LenTyped, Zenon
        <5>3. k \in 0..k
          OBVIOUS
        <5> QED BY <5>2, <5>3, <1>DrainingIs, Zenon DEF Drain
      <4> QED BY <4>3, <4>4, <4>5, Zenon DEF recv
    <3> QED BY <3>1, <3>2, <3>3, Zenon
  <2>2. Receiving(reads) = CHOOSE f : f = Step(f)
    BY Zenon DEF Receiving
  <2> HIDE DEF n, S, op
  <2>3. PICK f \in [0..n -> S] : IsRow(f, n, Fresh, step)
    <3>1. step \in [1..n -> [S -> S]]
      BY <2>1, Zenon
    <3> HIDE DEF step
    <3> QED BY <2>1, <3>1, Rows, Zenon
  <2>4. f = Step(f)
    <3>1. f[0] = Fresh
      BY <2>3, Zenon DEF IsRow
    <3>2. ASSUME NEW i \in 1..n PROVE f[i] = op(i, f[i - 1])
      <4>1. f[i - 1] \in S
        BY <2>1
      <4>2. step[i][f[i - 1]] = op(i, f[i - 1])
        BY <4>1, Zenon
      <4> QED BY <2>3, <4>2, Zenon DEF IsRow
    <3> QED BY <2>1, <3>1, <3>2
  <2>5. PICK g : g = Receiving(reads) /\ g = Step(g)
    BY <2>2, <2>4, Zenon
  <2>6. g[0] = Fresh /\ \A i \in 1..n : g[i] = op(i, g[i - 1])
    BY <2>1, <2>5
  <2>7. g[0] = Fresh /\ \A i \in 1..Len(reads) : g[i] = recv(g[i - 1], reads[i])
    BY <2>6, Zenon DEF n, op
  <2> QED BY <2>5, <2>7, Zenon

<1> SUFFICES ASSUME NEW payloads \in Seq(Sendable), NEW reads \in Seq(Seq(Byte))
             PROVE  FramesSurvive(payloads, reads)
  BY Zenon
<1>1. PICK f : f = Concats(Encoded(payloads)) /\ Framed(payloads, f)
  BY FramesAre, Zenon
<1>2. PICK n \in Nat : n = Len(payloads) /\ n \in 0..n
  BY LenTyped
<1>3. PICK sent \in Seq(Byte) : sent = f[n]
  BY <1>1, <1>2, Zenon DEF Framed
<1>4. Frame(payloads, Len(payloads)) = sent
  BY <1>1, <1>2, <1>3, Zenon DEF Frame, Encoded
<1>5. PICK m \in Nat : m = Len(reads) /\ m \in 0..m
  BY LenTyped
<1>6. PICK r : r = Concats(reads)
  BY Zenon
<1>7. /\ r[0] = <<>>
      /\ \A i \in 1..m : r[i] = r[i - 1] \o reads[i]
      /\ \A i \in 0..m : r[i] \in Seq(Byte)
  BY <1>5, <1>6, ConcatsIs, Zenon
<1>8. PICK taken \in Seq(Byte) : taken = r[m] /\ taken = Concat(reads)
  BY <1>5, <1>6, <1>7, Zenon DEF Concat
<1>9. SUFFICES ASSUME IsPrefixOf(taken, sent)
               PROVE  Settled(Received(reads), payloads, f, Len(taken))
  <2>1. ASSUME IsPrefixOf(taken, sent) PROVE OnStream(payloads, f, Len(taken))
    <3>1. PICK x \in Nat, y \in Nat : x = Len(taken) /\ y = Len(sent)
      BY LenTyped, Zenon
    <3>2. x <= y
      BY <2>1, <3>1, Zenon DEF IsPrefixOf
    <3>3. x \in 0..y
      BY <3>2
    <3> QED BY <1>1, <1>2, <1>3, <3>1, <3>3, Zenon DEF OnStream
  <2> QED BY <1>1, <1>4, <1>8, <2>1, <1>SettledTells, Zenon DEF FramesSurvive
<1>10. PICK l \in Nat : l = Len(sent)
  BY LenTyped, Zenon
<1>11. ASSUME NEW i \in 0..m
       PROVE  /\ Len(r[i]) \in 0..l /\ r[i] = SubSeq(sent, 1, Len(r[i]))
              /\ OnStream(payloads, f, Len(r[i]))
  <2>1. m \in i..m
    OBVIOUS
  <2>2. Grows(r, i, m)
    BY <1>5, <1>6, <2>1, ConcatsGrow, Zenon
  <2>3. PICK x \in Nat, y \in Nat : x = Len(r[i]) /\ y = Len(taken)
    <3>1. r[i] \in Seq(Byte)
      BY <1>7, Zenon
    <3> QED BY <3>1, LenTyped, Zenon
  <2>4. x <= y /\ r[i] = SubSeq(taken, 1, x)
    BY <1>8, <2>2, <2>3, Zenon DEF Grows
  <2>5. y <= l /\ taken = SubSeq(sent, 1, y)
    BY <1>9, <1>10, <2>3, Zenon DEF IsPrefixOf
  <2>6. x \in 0..l
    BY <2>4, <2>5
  <2>7. SubSeq(SubSeq(sent, 1, y), 1, x) = SubSeq(sent, 1, x)
    <3>1. Inside(sent, 0, y, 1, x)
      <4>1. 0 \in 0..l /\ y \in 0..l /\ 1 \in 1..(y - 0 + 1) /\ x \in (1 - 1)..(y - 0)
        BY <2>4, <2>5
      <4> QED BY <1>10, <4>1, Zenon DEF Inside
    <3>2. SameInside(sent, 0, y, 1, x)
      BY <3>1, PartOfPart, Zenon
    <3>3. 0 + 1 = 1 /\ 0 + x = x
      OBVIOUS
    <3> QED BY <3>2, <3>3, Zenon DEF SameInside
  <2> QED BY <1>1, <1>2, <1>3, <1>10, <2>3, <2>4, <2>5, <2>6, <2>7, Zenon DEF OnStream
<1>12. PICK g : g = Receiving(reads)
  BY Zenon
<1>13. g[0] = Fresh /\ \A i \in 1..m : g[i] = recv(g[i - 1], reads[i])
  BY <1>5, <1>12, <1>ReceivingIs, Zenon
<1> DEFINE T == {i \in 0..m : Settled(g[i], payloads, f, Len(r[i]))}
<1>14. 0 \in T
  <2>1. 0 \in 0..m /\ 0 \in 0..n /\ Len(<<>>) = 0
    OBVIOUS
  <2>2. Len(r[0]) = 0
    BY <1>7, <2>1, Zenon
  <2>3. Settled(Fresh, payloads, f, 0)
    <3>1. PICK s : s = Fresh
      BY Zenon
    <3>2. s.buf = <<>> /\ s.got = <<>> /\ ~s.failed
      BY <3>1 DEF Fresh
    <3>3. s \in Receiver
      <4>1. <<>> \in Seq(Byte) /\ <<>> \in Seq(Seq(Byte)) /\ FALSE \in BOOLEAN
        OBVIOUS
      <4> QED BY <3>1, <4>1, Zenon DEF Fresh, Receiver
    <3>4. Len(f[0]) = 0
      BY <1>1, Zenon DEF Framed
    <3>5. SubSeq(payloads, 1, 0) = <<>> /\ SubSeq(sent, 0 + 1, 0) = <<>> /\ 0 <= 0 /\ 0 < 4
      OBVIOUS
    <3>6. \A j \in Oversize(payloads) : 0 < j
      <4>1. DOMAIN payloads = 1..n
        BY <1>2
      <4>2. \A j \in 1..n : 0 < j
        OBVIOUS
      <4> QED BY <4>1, <4>2, Zenon DEF Oversize
    <3>7. Stands(s, payloads, f, 0, 0)
      BY <1>2, <1>3, <2>1, <3>2, <3>3, <3>4, <3>5, <3>6, Zenon DEF Stands
    <3>8. Stopped(s)
      BY <2>1, <3>2, <3>5, Zenon DEF Stopped, Waits, PrefixLen
    <3> QED BY <3>1, <3>7, <3>8, Zenon DEF Settled
  <2> QED BY <1>13, <2>1, <2>2, <2>3, Zenon
<1>15. ASSUME NEW i \in 1..m, i - 1 \in T PROVE i \in T
  <2>1. i - 1 \in 0..m /\ i \in 0..m
    OBVIOUS
  <2>2. PICK b, e : b = Len(r[i - 1]) /\ e = Len(r[i])
    BY Zenon
  <2>3. /\ b \in 0..l /\ e \in 0..l /\ r[i] = SubSeq(sent, 1, e)
        /\ OnStream(payloads, f, b) /\ OnStream(payloads, f, e)
    BY <1>11, <2>1, <2>2, Zenon
  <2>4. PICK s \in Seq(Byte), bytes \in Seq(Byte) : s = r[i - 1] /\ bytes = reads[i] /\ r[i] = s \o bytes
    <3>1. r[i - 1] \in Seq(Byte)
      BY <1>7, <2>1, Zenon
    <3>2. reads[i] \in Seq(Byte)
      BY <1>5, SeqElement, Zenon
    <3> QED BY <1>7, <3>1, <3>2, Zenon
  <2>5. PICK x \in Nat : x = Len(bytes)
    BY LenTyped, Zenon
  <2>6. e = b + x
    <3>1. Len(s \o bytes) = Len(s) + Len(bytes)
      BY JoinIs, Zenon
    <3> QED BY <2>2, <2>4, <2>5, <3>1, Zenon
  <2>7. b <= e /\ b \in Nat /\ e \in Nat
    BY <2>3, <2>5, <2>6
  <2>8. bytes = SubSeq(sent, b + 1, e)
    <3>1. SubSeq(s \o bytes, Len(s) + 1, Len(s) + Len(bytes)) = bytes
      BY JoinParts, Zenon
    <3>2. PICK q \in Nat : q = b + 1
      BY <2>7
    <3>3. SubSeq(SubSeq(sent, 1, e), q, e) = bytes
      BY <2>2, <2>3, <2>4, <2>5, <2>6, <3>1, <3>2, Zenon
    <3>4. Inside(sent, 0, e, q, e)
      <4>1. 0 \in 0..l /\ e \in 0..l /\ q \in 1..(e - 0 + 1) /\ e \in (q - 1)..(e - 0)
        BY <2>3, <2>7, <3>2
      <4> QED BY <1>10, <4>1, Zenon DEF Inside
    <3>5. SameInside(sent, 0, e, q, e)
      BY <3>4, PartOfPart, Zenon
    <3>6. 0 + 1 = 1 /\ 0 + q = q /\ 0 + e = e
      BY <2>7
    <3> QED BY <3>2, <3>3, <3>5, <3>6, Zenon DEF SameInside
  <2>9. bytes = SubSeq(f[Len(payloads)], b + 1, e)
    BY <1>2, <1>3, <2>8, Zenon
  <2>10. Settled(g[i - 1], payloads, f, b)
    BY <1>15, <2>2, Zenon
  <2>11. Settled(recv(g[i - 1], bytes), payloads, f, e)
    BY <2>3, <2>7, <2>9, <2>10, <1>RecvSettles, Zenon
  <2> QED BY <1>13, <2>1, <2>2, <2>4, <2>11, Zenon
<1>16. m \in T
  <2> HIDE DEF T
  <2> QED BY <1>5, <1>14, <1>15, Upwards, Zenon
<1>17. Received(reads) = g[m]
  BY <1>5, <1>12, Zenon DEF Received
<1> QED BY <1>8, <1>16, <1>17, Zenon

-----------------------------------------------------------------------------
(* Hashes packed one after the other *)

(* Every gRPC message: what is taken for a message packs to the same bytes, and
   what is packed is taken for the same message. *)
LEMMA PackedAgree ==
  ASSUME WellOrdered
  PROVE  \A C, D, kind : \A nos \in Seq(D), bytes \in Seq(C) :
           PackedAgrees([kind |-> kind, nos |-> nos, hashes |-> bytes])
<1> DEFINE
  FrontTo(s, a, b) == SubSeq(s, 1, a) \o SubSeq(s, a + 1, b) = SubSeq(s, 1, b)
<1> HIDE DEF FrontTo

<1>FrontGrows.
    ASSUME NEW C, NEW s \in Seq(C), NEW a \in Nat, NEW b \in Nat, a <= b, b <= Len(s)
    PROVE  FrontTo(s, a, b)
  BY <1>FrontGrows DEF FrontTo

<1> DEFINE
  Multiple(i, q, d) ==
    /\ i * d \in Nat /\ (i - 1) * d \in Nat /\ q * d \in Nat
    /\ i * d = (i - 1) * d + d /\ i * d <= q * d
<1> HIDE DEF Multiple

<1>Multiples.
    ASSUME NEW q \in Nat, NEW d \in Nat, NEW i \in 1..q
    PROVE  Multiple(i, q, d)
  <2>1. PICK j \in Nat, k \in Nat : i = j + 1 /\ i - 1 = j /\ q = i + k
    <3>1. i - 1 \in Nat /\ q - i \in Nat /\ i = (i - 1) + 1 /\ q = i + (q - i)
      OBVIOUS
    <3> QED BY <3>1, Zenon
  <2>2. (j + 1) * d = j * d + d /\ j * d \in Nat
    OBVIOUS
  <2>3. i \in Nat /\ (i + k) * d = i * d + k * d /\ i * d \in Nat /\ k * d \in Nat
    BY <2>1
  <2>4. /\ i * d \in Nat /\ (i - 1) * d \in Nat /\ q * d \in Nat
        /\ i * d = (i - 1) * d + d /\ q * d = i * d + k * d
    <3>1. q * d \in Nat
      OBVIOUS
    <3> QED BY <2>1, <2>2, <2>3, <3>1, Zenon
  <2>5. i * d <= q * d
    BY <2>3, <2>4
  <2> QED BY <2>4, <2>5, Zenon DEF Multiple

<1> DEFINE
  Rejoins(bytes) == Concat(Chunks(bytes)) = bytes /\ Len(Chunks(bytes)) = Len(bytes) \div HashLen
<1> HIDE DEF Rejoins

<1>ChunksJoin.
    ASSUME NEW C, NEW bytes \in Seq(C), Len(bytes) % HashLen = 0
    PROVE  Rejoins(bytes)
  <2> USE <1>ChunksJoin
  <2>1. PICK d \in Nat \ {0} : d = HashLen
    BY FramingAssumption, Zenon
  <2>2. PICK l \in Nat : l = Len(bytes)
    BY LenTyped, Zenon
  <2>3. PICK q \in Nat : q = l \div d /\ l = q * d
    <3>1. l % d = 0
      BY <2>1, <2>2, Zenon
    <3>2. l \div d \in Nat /\ l = (l \div d) * d + (l % d)
      BY Division, Zenon
    <3>3. PICK q \in Nat, m \in Nat : q = l \div d /\ m = q * d
      BY <3>2
    <3>4. l = m + 0
      BY <3>1, <3>2, <3>3, Zenon
    <3>5. l = m
      BY <3>4
    <3> QED BY <3>3, <3>5, Zenon
  <2>4. d \in Nat
    OBVIOUS
  <2>5. \A i \in 1..q : Multiple(i, q, d)
    BY <2>4, <1>Multiples, Zenon
  <2>6. PICK parts : parts = Chunks(bytes)
    BY Zenon
  <2>7. parts = [i \in 1..q |-> SubSeq(bytes, (i - 1) * d + 1, i * d)]
    BY <2>1, <2>2, <2>3, <2>6, Zenon DEF Chunks
  <2>8. ASSUME NEW i \in 1..q
        PROVE  \E a \in Nat, b \in Nat :
                 a = (i - 1) * d /\ b = i * d /\ b = a + d /\ b <= l /\ a + 1 \in 1..(l + 1)
    <3>1. Multiple(i, q, d)
      BY <2>5, Zenon
    <3>2. PICK a \in Nat, b \in Nat : a = (i - 1) * d /\ b = i * d
      BY <3>1, Zenon DEF Multiple
    <3>3. b = a + d /\ b <= l
      BY <2>3, <3>1, <3>2, Zenon DEF Multiple
    <3>4. a + 1 \in 1..(l + 1)
      BY <2>4, <3>3
    <3> QED BY <3>2, <3>3, <3>4, Zenon
  <2>9. \A i \in 1..q : parts[i] = SubSeq(bytes, (i - 1) * d + 1, i * d) /\ parts[i] \in Seq(C)
    <3>1. ASSUME NEW i \in 1..q
          PROVE  parts[i] = SubSeq(bytes, (i - 1) * d + 1, i * d) /\ parts[i] \in Seq(C)
      <4>1. PICK a \in Nat, b \in Nat :
              a = (i - 1) * d /\ b = i * d /\ b = a + d /\ b <= l /\ a + 1 \in 1..(l + 1)
        BY <2>8, Zenon
      <4>2. PICK m \in 1..(l + 1) : m = a + 1 /\ b \in (m - 1)..l
        BY <2>4, <4>1
      <4>3. SubSeq(bytes, m, b) \in Seq(C)
        BY <2>2, <4>2, PartTyped, Zenon
      <4>4. parts[i] = SubSeq(bytes, (i - 1) * d + 1, i * d)
        BY <2>7, Zenon
      <4> QED BY <4>1, <4>2, <4>3, <4>4, Zenon
    <3> QED BY <3>1, Zenon
  <2>10. parts \in Seq(Seq(C)) /\ Len(parts) = q
    <3>1. parts \in [1..q -> Seq(C)]
      BY <2>7, <2>9, Zenon
    <3> QED BY <3>1, SeqFrom, Zenon
  <2>11. PICK f : f = Concats(parts)
    BY Zenon
  <2>12. f[0] = <<>> /\ \A i \in 1..q : f[i] = f[i - 1] \o parts[i]
    BY <2>10, <2>11, ConcatsIs, Zenon
  <2> DEFINE T == {i \in 0..q : f[i] = SubSeq(bytes, 1, i * d)}
  <2>13. 0 \in T
    <3>1. 0 \in 0..q /\ 0 * d = 0
      BY <2>4
    <3>2. SubSeq(bytes, 1, 0) = <<>>
      OBVIOUS
    <3> QED BY <2>12, <3>1, <3>2, Zenon
  <2>14. ASSUME NEW i \in 1..q, i - 1 \in T PROVE i \in T
    <3>1. i \in 0..q
      OBVIOUS
    <3>2. PICK a \in Nat, b \in Nat :
            a = (i - 1) * d /\ b = i * d /\ b = a + d /\ b <= l /\ a + 1 \in 1..(l + 1)
      BY <2>8, Zenon
    <3>3. a <= b
      BY <2>4, <3>2
    <3>4. SubSeq(bytes, 1, a) \o SubSeq(bytes, a + 1, b) = SubSeq(bytes, 1, b)
      <4>1. b <= Len(bytes)
        BY <2>2, <3>2, Zenon
      <4>2. FrontTo(bytes, a, b)
        BY <3>3, <4>1, <1>FrontGrows, Zenon
      <4> QED BY <4>2, Zenon DEF FrontTo
    <3>5. f[i] = SubSeq(bytes, 1, a) \o SubSeq(bytes, a + 1, b)
      BY <2>9, <2>12, <2>14, <3>2, Zenon
    <3> QED BY <3>1, <3>2, <3>4, <3>5, Zenon
  <2>15. q \in T
    <3>1. q \in 0..q
      OBVIOUS
    <3> HIDE DEF T
    <3> QED BY <2>13, <2>14, <3>1, Upwards, Zenon
  <2>16. SubSeq(bytes, 1, l) = bytes
    BY <2>2
  <2>17. Concat(parts) = bytes
    BY <2>3, <2>10, <2>11, <2>15, <2>16, Zenon DEF Concat
  <2> QED BY <2>1, <2>2, <2>3, <2>6, <2>10, <2>17, Zenon DEF Rejoins

<1> DEFINE
  SameQuotient(n, q, r) == q = n /\ r = 0
<1> HIDE DEF SameQuotient

<1>OneQuotient.
    ASSUME NEW d \in Nat \ {0}, NEW n \in Nat, NEW q \in Nat, NEW r \in 0..(d - 1), n * d = q * d + r
    PROVE  SameQuotient(n, q, r)
  <2> USE <1>OneQuotient
  <2>1. ASSUME NEW k \in Nat, n = q + k + 1 PROVE FALSE
    <3>1. (q + k + 1) * d = q * d + k * d + d /\ k * d \in Nat /\ q * d \in Nat
      OBVIOUS
    <3> QED BY <2>1, <3>1
  <2>2. ASSUME NEW k \in Nat, q = n + k + 1 PROVE FALSE
    <3>1. (n + k + 1) * d = n * d + k * d + d /\ k * d \in Nat /\ n * d \in Nat
      OBVIOUS
    <3> QED BY <2>2, <3>1
  <2>3. n = q
    <3>1. n = q \/ (n - q - 1 \in Nat /\ n = q + (n - q - 1) + 1)
                \/ (q - n - 1 \in Nat /\ q = n + (q - n - 1) + 1)
      OBVIOUS
    <3> QED BY <2>1, <2>2, <3>1, Zenon
  <2>4. PICK x \in Nat : x = q * d
    OBVIOUS
  <2>5. x = x + r
    BY <2>3, <2>4, Zenon
  <2>6. r = 0
    BY <2>5
  <2> QED BY <2>3, <2>6, Zenon DEF SameQuotient

<1> DEFINE
  Unpacks(parts) ==
    /\ Len(Concat(parts)) % HashLen = 0 /\ Len(Concat(parts)) \div HashLen = Len(parts)
    /\ Chunks(Concat(parts)) = parts
<1> HIDE DEF Unpacks

<1>ChunksSplit.
    ASSUME NEW C, NEW parts \in Seq(Seq(C)), \A i \in 1..Len(parts) : Len(parts[i]) = HashLen
    PROVE  Unpacks(parts)
  <2> USE <1>ChunksSplit
  <2>1. PICK d \in Nat \ {0} : d = HashLen
    BY FramingAssumption, Zenon
  <2>2. PICK n \in Nat : n = Len(parts) /\ DOMAIN parts = 1..n
    OBVIOUS
  <2>3. d \in Nat
    OBVIOUS
  <2>4. \A i \in 1..n : Multiple(i, n, d)
    BY <2>3, <1>Multiples, Zenon
  <2>5. PICK f : f = Concats(parts)
    BY Zenon
  <2>6. /\ f[0] = <<>>
        /\ \A i \in 1..n : f[i] = f[i - 1] \o parts[i]
        /\ \A i \in 0..n : f[i] \in Seq(C)
    BY <2>2, <2>5, ConcatsIs, Zenon
  <2>7. \A i \in 1..n : parts[i] \in Seq(C) /\ Len(parts[i]) = d
    BY <2>1, <2>2, SeqElement, Zenon
  <2> DEFINE T == {i \in 0..n : Len(f[i]) = i * d}
  <2>8. 0 \in T
    <3>1. 0 \in 0..n /\ 0 * d = 0 /\ Len(<<>>) = 0
      BY <2>3
    <3> QED BY <2>6, <3>1, Zenon
  <2>9. ASSUME NEW i \in 1..n, i - 1 \in T PROVE i \in T
    <3>1. i \in 0..n /\ i - 1 \in 0..n
      OBVIOUS
    <3>2. f[i - 1] \in Seq(C) /\ parts[i] \in Seq(C)
      BY <2>6, <2>7, <3>1, Zenon
    <3>3. Len(f[i - 1] \o parts[i]) = Len(f[i - 1]) + Len(parts[i])
      BY <3>2, JoinIs, Zenon
    <3>4. i * d = (i - 1) * d + d
      BY <2>4, Zenon DEF Multiple
    <3> QED BY <2>6, <2>7, <2>9, <3>1, <3>3, <3>4, Zenon
  <2>10. \A i \in 0..n : i \in T
    <3> HIDE DEF T
    <3> QED BY <2>8, <2>9, Upwards, Zenon
  <2>11. \A i \in 0..n : Len(f[i]) = i * d
    BY <2>10, Zenon
  <2>12. PICK all \in Seq(C) : all = f[n] /\ all = Concat(parts) /\ Len(all) = n * d
    <3>1. n \in 0..n
      OBVIOUS
    <3> QED BY <2>2, <2>5, <2>6, <2>11, <3>1, Zenon DEF Concat
  <2>13. ASSUME NEW i \in 1..n PROVE SubSeq(all, (i - 1) * d + 1, i * d) = parts[i]
    <3>1. Multiple(i, n, d)
      BY <2>4, Zenon
    <3>2. PICK a \in Nat, b \in Nat, l \in Nat : a = (i - 1) * d /\ b = i * d /\ l = n * d
      BY <3>1, Zenon DEF Multiple
    <3>3. b = a + d /\ b <= l
      BY <3>1, <3>2, Zenon DEF Multiple
    <3>4. i - 1 \in 0..n /\ i \in 0..n /\ n \in i..n
      OBVIOUS
    <3>5. PICK s \in Seq(C), t \in Seq(C) : s = f[i - 1] /\ t = parts[i] /\ Len(s) = a /\ Len(t) = d
      BY <2>6, <2>7, <2>11, <3>2, <3>4, Zenon
    <3>6. SubSeq(s \o t, Len(s) + 1, Len(s) + Len(t)) = t
      BY JoinParts, Zenon
    <3>7. s \o t = SubSeq(all, 1, b)
      <4>1. Grows(f, i, n)
        BY <2>2, <2>5, <3>4, ConcatsGrow, Zenon
      <4>2. Len(f[i]) = b /\ f[i] = s \o t
        BY <2>6, <2>11, <3>2, <3>4, <3>5, Zenon
      <4> QED BY <2>12, <4>1, <4>2, Zenon DEF Grows
    <3>8. PICK m \in Nat : m = a + 1
      OBVIOUS
    <3>9. SubSeq(SubSeq(all, 1, b), m, b) = t
      BY <3>3, <3>5, <3>6, <3>7, <3>8, Zenon
    <3>10. Inside(all, 0, b, m, b)
      <4>1. 0 \in 0..l /\ b \in 0..l /\ m \in 1..(b - 0 + 1) /\ b \in (m - 1)..(b - 0)
        BY <2>3, <3>3, <3>8
      <4> QED BY <2>12, <3>2, <4>1, Zenon DEF Inside
    <3>11. SameInside(all, 0, b, m, b)
      BY <3>10, PartOfPart, Zenon
    <3>12. 0 + 1 = 1 /\ 0 + m = m /\ 0 + b = b
      OBVIOUS
    <3> QED BY <3>2, <3>5, <3>8, <3>9, <3>11, <3>12, Zenon DEF SameInside
  <2>14. (n * d) % d = 0 /\ (n * d) \div d = n
    <3>1. PICK l \in Nat : l = n * d
      OBVIOUS
    <3>2. PICK q \in Nat, r \in 0..(d - 1) : q = l \div d /\ r = l % d /\ l = q * d + r
      BY Division, Zenon
    <3>3. n * d = q * d + r
      BY <3>1, <3>2, Zenon
    <3>4. q = n /\ r = 0
      BY <3>3, <1>OneQuotient, Zenon DEF SameQuotient
    <3> QED BY <3>1, <3>2, <3>4, Zenon
  <2>15. Chunks(all) = parts
    <3>1. Chunks(all) = [i \in 1..n |-> SubSeq(all, (i - 1) * d + 1, i * d)]
      BY <2>1, <2>12, <2>14, Zenon DEF Chunks
    <3>2. PICK g : g = [i \in 1..n |-> SubSeq(all, (i - 1) * d + 1, i * d)]
      BY Zenon
    <3>3. \A i \in 1..n : g[i] = parts[i]
      BY <2>13, <3>2, Zenon
    <3>4. g \in [1..n -> Seq(C)]
      BY <2>7, <3>2, <3>3, Zenon
    <3>5. g \in Seq(Seq(C)) /\ Len(g) = n
      BY <3>4, SeqFrom, Zenon
    <3>6. g = parts
      BY <2>2, <3>3, <3>5, SeqEqual, Zenon
    <3> QED BY <3>1, <3>2, <3>6, Zenon
  <2> QED BY <2>1, <2>2, <2>12, <2>14, <2>15, Zenon DEF Unpacks

<1> DEFINE
  Packet(p, kind, nos, hashes) == p = [kind |-> kind, nos |-> nos, hashes |-> hashes]
  Swaps(p, m, hashes) == [p EXCEPT !.hashes = hashes] = m
<1> HIDE DEF Packet, Swaps

<1>PacketHas.
    ASSUME NEW p, NEW kind, NEW nos, NEW hashes, Packet(p, kind, nos, hashes)
    PROVE  p.kind = kind /\ p.nos = nos /\ p.hashes = hashes
  BY <1>PacketHas DEF Packet

<1>Repacked.
    ASSUME NEW p, NEW m, NEW kind, NEW nos, NEW old, NEW new, Packet(p, kind, nos, old), Packet(m, kind, nos, new)
    PROVE  Swaps(p, m, new)
  <2> USE <1>Repacked
  <2>1. PICK q : q = [p EXCEPT !.hashes = new]
    BY Zenon
  <2>2. q = [kind |-> kind, nos |-> nos, hashes |-> new]
    BY <2>1 DEF Packet
  <2> QED BY <2>1, <2>2, Zenon DEF Swaps, Packet

<1> SUFFICES ASSUME NEW C, NEW D, NEW kind, NEW nos \in Seq(D), NEW bytes \in Seq(C)
             PROVE  PackedAgrees([kind |-> kind, nos |-> nos, hashes |-> bytes])
  BY Zenon
<1>1. PICK p : p = [kind |-> kind, nos |-> nos, hashes |-> bytes]
  BY Zenon
<1>2. Packet(p, kind, nos, bytes) /\ p.kind = kind /\ p.nos = nos /\ p.hashes = bytes
  <2>1. Packet(p, kind, nos, bytes)
    BY <1>1, Zenon DEF Packet
  <2> QED BY <2>1, <1>PacketHas, Zenon
<1>3. ASSUME NEW m \in try_from(p)
      PROVE  to_proto(m) = p /\ (m.kind = "PageHashes" => Len(m.hashes) = Len(m.nos))
  <2>1. CASE kind \in Hashed
    <3>1. /\ Len(bytes) % HashLen = 0
          /\ kind = "PageHashes" => Len(bytes) \div HashLen = Len(nos)
          /\ m = [p EXCEPT !.hashes = Chunks(bytes)]
      BY <1>2, <1>3, <2>1, Zenon DEF try_from
    <3>2. Rejoins(bytes)
      BY <3>1, <1>ChunksJoin, Zenon
    <3>3. PICK parts : parts = Chunks(bytes) /\ Concat(parts) = bytes /\ Len(parts) = Len(bytes) \div HashLen
      BY <3>2, Zenon DEF Rejoins
    <3>4. Packet(m, kind, nos, parts)
      <4>1. PICK q : Packet(q, kind, nos, parts)
        BY Zenon DEF Packet
      <4>2. Swaps(p, q, parts)
        BY <1>2, <4>1, <1>Repacked, Zenon
      <4> QED BY <3>1, <3>3, <4>1, <4>2, Zenon DEF Swaps
    <3>5. m.kind = kind /\ m.nos = nos /\ m.hashes = parts /\ [m EXCEPT !.hashes = bytes] = p
      <4>1. Swaps(m, p, bytes)
        BY <1>2, <3>4, <1>Repacked, Zenon
      <4> QED BY <3>4, <4>1, <1>PacketHas, Zenon DEF Swaps
    <3>6. to_proto(m) = p
      BY <2>1, <3>3, <3>5, Zenon DEF to_proto
    <3> QED BY <3>1, <3>3, <3>5, <3>6, Zenon
  <2>2. CASE kind \notin Hashed
    <3>1. m = p
      BY <1>2, <1>3, <2>2, Zenon DEF try_from
    <3>2. kind # "PageHashes"
      BY <2>2, Zenon DEF Hashed
    <3> QED BY <1>2, <2>2, <3>1, <3>2, Zenon DEF to_proto
  <2> QED BY <2>1, <2>2, Zenon
<1>4. PICK parts : parts = [i \in DOMAIN p.nos |-> [j \in 1..HashLen |-> p.nos[i]]]
  BY Zenon
<1>5. Unpacks(parts) /\ Len(parts) = Len(nos)
  <2>1. PICK n \in Nat : n = Len(nos) /\ DOMAIN nos = 1..n
    OBVIOUS
  <2>2. PICK d \in Nat : d = HashLen
    BY FramingAssumption
  <2>3. parts = [i \in 1..n |-> [j \in 1..d |-> nos[i]]]
    BY <1>2, <1>4, <2>1, <2>2, Zenon
  <2>4. \A i \in 1..n : parts[i] \in Seq(D) /\ Len(parts[i]) = d
    <3>1. ASSUME NEW i \in 1..n PROVE parts[i] \in Seq(D) /\ Len(parts[i]) = d
      <4>1. nos[i] \in D
        BY <2>1, SeqElement, Zenon
      <4>2. parts[i] \in [1..d -> D]
        BY <2>3, <4>1, Zenon
      <4> QED BY <4>2, SeqFrom, Zenon
    <3> QED BY <3>1, Zenon
  <2>5. parts \in [1..n -> Seq(D)]
    BY <2>3, <2>4, Zenon
  <2>6. parts \in Seq(Seq(D)) /\ Len(parts) = n
    BY <2>5, SeqFrom, Zenon
  <2>7. \A i \in 1..Len(parts) : Len(parts[i]) = HashLen
    BY <2>2, <2>4, <2>6, Zenon
  <2> QED BY <2>1, <2>6, <2>7, <1>ChunksSplit, Zenon
<1>6. PICK m : Packet(m, kind, nos, parts) /\ m = [p EXCEPT !.hashes = parts]
  <2>1. PICK m : Packet(m, kind, nos, parts)
    BY Zenon DEF Packet
  <2>2. Swaps(p, m, parts)
    BY <1>2, <2>1, <1>Repacked, Zenon
  <2> QED BY <2>1, <2>2, Zenon DEF Swaps
<1>7. ASSUME kind \notin {"none", "Init"}, kind \in Hashed PROVE try_from(to_proto(m)) = {m}
  <2>1. PICK all : all = Concat(parts)
    BY Zenon
  <2>2. m.kind = kind /\ m.nos = nos /\ m.hashes = parts
    BY <1>6, <1>PacketHas, Zenon
  <2>3. PICK q : Packet(q, kind, nos, all)
    BY Zenon DEF Packet
  <2>4. /\ q.kind = kind /\ q.nos = nos /\ q.hashes = all
        /\ [q EXCEPT !.hashes = parts] = m /\ to_proto(m) = q
    <3>1. q.kind = kind /\ q.nos = nos /\ q.hashes = all
      BY <2>3, <1>PacketHas, Zenon
    <3>2. Swaps(q, m, parts) /\ Swaps(m, q, all)
      BY <1>6, <2>3, <1>Repacked, Zenon
    <3>3. to_proto(m) = q
      BY <1>7, <2>1, <2>2, <3>2, Zenon DEF to_proto, Swaps
    <3> QED BY <3>1, <3>2, <3>3, Zenon DEF Swaps
  <2>5. Len(all) % HashLen = 0 /\ Len(all) \div HashLen = Len(nos) /\ Chunks(all) = parts
    BY <1>5, <2>1, Zenon DEF Unpacks
  <2>6. try_from(q) = {[q EXCEPT !.hashes = parts]}
    BY <1>7, <2>4, <2>5, Zenon DEF try_from
  <2> QED BY <2>4, <2>6, Zenon
<1>8. PackedAgrees(p)
  BY <1>2, <1>3, <1>4, <1>6, <1>7, Zenon DEF PackedAgrees
<1> QED BY <1>1, <1>8, Zenon

-----------------------------------------------------------------------------
(* Scripts *)

(* ScriptRunsWhole holds of every script: the readings agree at every place, so
   the last piece runs as the last statement; and in a script without comments no
   piece is empty to SQLite. *)
LEMMA ScriptsRun ==
  ASSUME WellOrdered
  PROVE  \A C : \A script \in Seq(C) : ScriptRunsWhole(script)
<1> DEFINE
  Opens == {"'", "dq", "bt", "[", "--", "/*"}
  LexStates(C) == [mode : {"code"} \cup Opens, current : Seq(C), stmts : Seq(Seq(C))]
  SplitStates(C) == [single : BOOLEAN, double : BOOLEAN, current : Seq(C), stmts : Seq(Seq(C))]
<1> HIDE DEF Opens, LexStates, SplitStates

<1>CloserIs.
    /\ DOMAIN Closer = Opens
    /\ Closer["'"] = "'" /\ Closer["dq"] = "dq" /\ Closer["bt"] = "bt" /\ Closer["["] = "]"
    /\ Closer["--"] = "nl" /\ Closer["/*"] = "*/"
  BY DEF Closer, Opens

<1>PushTyped.
    ASSUME NEW C, NEW stmts \in Seq(Seq(C)), NEW text \in Seq(C)
    PROVE  Push(stmts, text) \in Seq(Seq(C))
  BY DEF Push

<1>LexTyped.
    ASSUME NEW C, NEW s \in LexStates(C), NEW ch \in C
    PROVE  lex(s, ch) \in LexStates(C)
  <2>1. /\ s.mode \in {"code"} \cup Opens /\ s.current \in Seq(C) /\ s.stmts \in Seq(Seq(C))
        /\ Append(s.current, ch) \in Seq(C) /\ Push(s.stmts, s.current) \in Seq(Seq(C))
        /\ <<>> \in Seq(C)
    BY <1>PushTyped DEF LexStates
  <2>2. Comments \subseteq Opens
    BY DEF Comments, Opens
  <2> QED BY <2>1, <2>2, <1>CloserIs, Zenon DEF lex, lex_code, LexStates

<1>SplitTyped.
    ASSUME NEW C, NEW s \in SplitStates(C), NEW ch \in C
    PROVE  split_char(s, ch) \in SplitStates(C)
  <2>1. /\ s.single \in BOOLEAN /\ s.double \in BOOLEAN
        /\ s.current \in Seq(C) /\ s.stmts \in Seq(Seq(C))
        /\ Append(s.current, ch) \in Seq(C) /\ Push(s.stmts, s.current) \in Seq(Seq(C))
        /\ <<>> \in Seq(C)
    BY <1>PushTyped DEF SplitStates
  <2> QED BY <2>1, Zenon DEF split_char, Keep, SplitStates

<1>LexingIs.
    ASSUME NEW C, NEW sql \in Seq(C)
    PROVE  /\ Lexing(sql)[0] = Unlexed
           /\ \A i \in 1..Len(sql) : Lexing(sql)[i] = lex(Lexing(sql)[i - 1], sql[i])
           /\ \A i \in 0..Len(sql) : Lexing(sql)[i] \in LexStates(C)
  <2> DEFINE n == Len(sql)
             S == LexStates(C)
             op(i, s) == lex(s, sql[i])
             step == [i \in 1..n |-> [s \in S |-> op(i, s)]]
             Step(f) == [i \in 0..n |-> IF i = 0 THEN Unlexed ELSE op(i, f[i - 1])]
  <2>1. n \in Nat /\ Unlexed \in S /\ \A i \in 1..n, s \in S : op(i, s) \in S
    <3>1. Unlexed \in S
      BY DEF Unlexed, LexStates
    <3>2. \A i \in 1..n : sql[i] \in C
      OBVIOUS
    <3> QED BY <3>1, <3>2, <1>LexTyped
  <2>2. Lexing(sql) = CHOOSE f : f = Step(f)
    BY Zenon DEF Lexing
  <2> HIDE DEF n, S, op
  <2>3. PICK f \in [0..n -> S] : IsRow(f, n, Unlexed, step)
    <3>1. step \in [1..n -> [S -> S]]
      BY <2>1
    <3> HIDE DEF step
    <3> QED BY <2>1, <3>1, Rows, Zenon
  <2>4. f = Step(f)
    <3>1. f[0] = Unlexed
      BY <2>3, Zenon DEF IsRow
    <3>2. ASSUME NEW i \in 1..n PROVE f[i] = op(i, f[i - 1])
      <4>1. f[i - 1] \in S
        BY <2>1
      <4>2. step[i][f[i - 1]] = op(i, f[i - 1])
        BY <4>1, Zenon
      <4> QED BY <2>3, <4>2, Zenon DEF IsRow
    <3> QED BY <2>1, <3>1, <3>2
  <2>5. PICK g : g = Lexing(sql) /\ g = Step(g)
    BY <2>2, <2>4, Zenon
  <2>6. g[0] = Unlexed /\ \A i \in 1..n : g[i] = op(i, g[i - 1])
    BY <2>1, <2>5
  <2>7. \A i \in 0..n : g[i] \in S
    BY <2>1, <2>6, RowsTyped, Zenon
  <2> QED BY <2>5, <2>6, <2>7, Zenon DEF n, S, op

<1>SplittingIs.
    ASSUME NEW C, NEW sql \in Seq(C)
    PROVE  /\ Splitting(sql)[0] = Unsplit
           /\ \A i \in 1..Len(sql) : Splitting(sql)[i] = split_char(Splitting(sql)[i - 1], sql[i])
           /\ \A i \in 0..Len(sql) : Splitting(sql)[i] \in SplitStates(C)
  <2> DEFINE n == Len(sql)
             S == SplitStates(C)
             op(i, s) == split_char(s, sql[i])
             step == [i \in 1..n |-> [s \in S |-> op(i, s)]]
             Step(f) == [i \in 0..n |-> IF i = 0 THEN Unsplit ELSE op(i, f[i - 1])]
  <2>1. n \in Nat /\ Unsplit \in S /\ \A i \in 1..n, s \in S : op(i, s) \in S
    <3>1. Unsplit \in S
      BY DEF Unsplit, SplitStates
    <3>2. \A i \in 1..n : sql[i] \in C
      OBVIOUS
    <3> QED BY <3>1, <3>2, <1>SplitTyped
  <2>2. Splitting(sql) = CHOOSE f : f = Step(f)
    BY Zenon DEF Splitting
  <2> HIDE DEF n, S, op
  <2>3. PICK f \in [0..n -> S] : IsRow(f, n, Unsplit, step)
    <3>1. step \in [1..n -> [S -> S]]
      BY <2>1
    <3> HIDE DEF step
    <3> QED BY <2>1, <3>1, Rows, Zenon
  <2>4. f = Step(f)
    <3>1. f[0] = Unsplit
      BY <2>3, Zenon DEF IsRow
    <3>2. ASSUME NEW i \in 1..n PROVE f[i] = op(i, f[i - 1])
      <4>1. f[i - 1] \in S
        BY <2>1
      <4>2. step[i][f[i - 1]] = op(i, f[i - 1])
        BY <4>1, Zenon
      <4> QED BY <2>3, <4>2, Zenon DEF IsRow
    <3> QED BY <2>1, <3>1, <3>2
  <2>5. PICK g : g = Splitting(sql) /\ g = Step(g)
    BY <2>2, <2>4, Zenon
  <2>6. g[0] = Unsplit /\ \A i \in 1..n : g[i] = op(i, g[i - 1])
    BY <2>1, <2>5
  <2>7. \A i \in 0..n : g[i] \in S
    BY <2>1, <2>6, RowsTyped, Zenon
  <2> QED BY <2>5, <2>6, <2>7, Zenon DEF n, S, op

(* One character more, and a text of blanks. *)
<1>LexedAppend.
    ASSUME NEW C, NEW text \in Seq(C), NEW ch \in C
    PROVE  /\ Lexed(text) \in LexStates(C)
           /\ Lexed(Append(text, ch)) = lex(Lexed(text), ch)
  <2>1. PICK more : more = Append(text, ch)
    BY Zenon
  <2>2. PICK n \in Nat : n = Len(text)
    OBVIOUS
  <2>3. /\ more \in Seq(C) /\ Len(more) = n + 1 /\ more[n + 1] = ch
        /\ \A i \in 1..n : more[i] = text[i]
    BY <2>1, <2>2
  <2>4. PICK f, g : f = Lexing(text) /\ g = Lexing(more)
    BY Zenon
  <2>5. /\ f[0] = Unlexed /\ \A i \in 1..n : f[i] = lex(f[i - 1], text[i])
        /\ \A i \in 0..n : f[i] \in LexStates(C)
    BY <2>2, <2>4, <1>LexingIs, Zenon
  <2>6. g[0] = Unlexed /\ \A i \in 1..(n + 1) : g[i] = lex(g[i - 1], more[i])
    BY <2>3, <2>4, <1>LexingIs, Zenon
  <2> DEFINE T == {i \in 0..n : g[i] = f[i]}
  <2>7. \A i \in 0..n : i \in T
    <3>1. 0 \in T
      BY <2>5, <2>6
    <3>2. ASSUME NEW i \in 1..n, i - 1 \in T PROVE i \in T
      <4>1. i \in 0..n /\ i \in 1..(n + 1)
        OBVIOUS
      <4> QED BY <2>3, <2>5, <2>6, <3>2, <4>1, Zenon
    <3> HIDE DEF T
    <3> QED BY <3>1, <3>2, Upwards, Zenon
  <2>8. n \in 0..n /\ n + 1 \in 1..(n + 1) /\ (n + 1) - 1 = n
    OBVIOUS
  <2>9. g[n] = f[n]
    BY <2>7, <2>8, Zenon
  <2>10. g[n + 1] = lex(g[n], more[n + 1])
    BY <2>6, <2>8, Zenon
  <2>11. f[n] \in LexStates(C) /\ g[n + 1] = lex(f[n], ch)
    BY <2>3, <2>5, <2>8, <2>9, <2>10, Zenon
  <2> QED BY <2>1, <2>2, <2>3, <2>4, <2>11, Zenon DEF Lexed

<1>LexedNone.
    Lexed(<<>>) = Unlexed
  <2>1. <<>> \in Seq({}) /\ Len(<<>>) = 0
    OBVIOUS
  <2> QED BY <2>1, <1>LexingIs, Zenon DEF Lexed

<1>LexedBlank.
    ASSUME NEW C, NEW text \in Seq(C), Range(text) \subseteq Blanks
    PROVE  Lexed(text) = Unlexed
  <2> USE <1>LexedBlank
  <2>1. PICK n \in Nat : n = Len(text)
    OBVIOUS
  <2>2. PICK f : f = Lexing(text)
    BY Zenon
  <2>3. f[0] = Unlexed /\ \A i \in 1..n : f[i] = lex(f[i - 1], text[i])
    BY <2>1, <2>2, <1>LexingIs, Zenon
  <2>4. ASSUME NEW ch \in Blanks PROVE lex(Unlexed, ch) = Unlexed
    <3>1. Unlexed.mode = "code" /\ ch \in {"sp", "nl"}
      BY DEF Unlexed, Blanks
    <3>2. ch \notin Comments /\ ch # "semi"
      BY <3>1 DEF Comments
    <3> QED BY <3>1, <3>2, Zenon DEF lex, lex_code, Blanks
  <2>5. \A i \in 1..n : text[i] \in Blanks
    BY <2>1 DEF Range
  <2> DEFINE T == {i \in 0..n : f[i] = Unlexed}
  <2>6. \A i \in 0..n : i \in T
    <3>1. 0 \in T
      BY <2>3
    <3>2. ASSUME NEW i \in 1..n, i - 1 \in T PROVE i \in T
      <4>1. i \in 0..n
        OBVIOUS
      <4>2. f[i - 1] = Unlexed
        BY <3>2, Zenon
      <4>3. f[i] = lex(Unlexed, text[i])
        BY <2>3, <4>2, Zenon
      <4>4. lex(Unlexed, text[i]) = Unlexed
        BY <2>4, <2>5, Zenon
      <4> QED BY <4>1, <4>3, <4>4, Zenon
    <3> HIDE DEF T
    <3> QED BY <3>1, <3>2, Upwards, Zenon
  <2>7. n \in 0..n
    OBVIOUS
  <2> QED BY <2>1, <2>2, <2>6, <2>7, Zenon DEF Lexed

<1> DEFINE
  (* What a character does, by the parts of the state. *)
  NextMode(mode, ch) ==
    IF mode = "code" THEN IF ch \in Opens THEN ch ELSE "code"
    ELSE IF ch = Closer[mode] THEN "code" ELSE mode
  NextText(mode, text, ch) ==
    IF mode = "code"
    THEN IF ch = "semi" THEN <<>> ELSE IF ch \in Comments \cup Blanks THEN text ELSE Append(text, ch)
    ELSE IF mode \in Comments THEN text ELSE Append(text, ch)
<1> HIDE DEF NextMode, NextText

<1>LexIs.
    ASSUME NEW mode \in {"code"} \cup Opens, NEW text, NEW stmts, NEW ch
    PROVE  LET s == [mode |-> mode, current |-> text, stmts |-> stmts] IN
           lex(s, ch) = [mode |-> NextMode(mode, ch), current |-> NextText(mode, text, ch),
                         stmts |-> IF mode = "code" /\ ch = "semi" THEN Push(stmts, text) ELSE stmts]
  <2> DEFINE s == [mode |-> mode, current |-> text, stmts |-> stmts]
             next == [mode |-> NextMode(mode, ch), current |-> NextText(mode, text, ch),
                      stmts |-> IF mode = "code" /\ ch = "semi" THEN Push(stmts, text) ELSE stmts]
  <2>1. s.mode = mode /\ s.current = text /\ s.stmts = stmts
    OBVIOUS
  <2>2. CASE mode # "code"
    <3>1. lex(s, ch) = [s EXCEPT !.current = IF mode \in Comments THEN text ELSE Append(text, ch),
                                 !.mode = IF ch = Closer[mode] THEN "code" ELSE mode]
      BY <2>1, <2>2, Zenon DEF lex
    <3>2. next = [mode |-> IF ch = Closer[mode] THEN "code" ELSE mode,
                  current |-> IF mode \in Comments THEN text ELSE Append(text, ch), stmts |-> stmts]
      BY <2>2, Zenon DEF NextMode, NextText
    <3> QED BY <3>1, <3>2, Zenon
  <2>3. CASE mode = "code"
    <3>1. lex(s, ch) = lex_code(s, ch)
      BY <2>1, <2>3, Zenon DEF lex
    <3>2. next = [mode |-> IF ch \in Opens THEN ch ELSE "code",
                  current |-> IF ch = "semi" THEN <<>>
                              ELSE IF ch \in Comments \cup Blanks THEN text ELSE Append(text, ch),
                  stmts |-> IF ch = "semi" THEN Push(stmts, text) ELSE stmts]
      BY <2>3, Zenon DEF NextMode, NextText
    <3>3. CASE ch \in Comments
      <4>1. ch # "semi" /\ ch \notin Blanks /\ ch \in Opens
        BY <3>3 DEF Blanks, Comments, Opens
      <4>2. lex_code(s, ch) = [s EXCEPT !.mode = ch]
        BY <3>3, <4>1, Zenon DEF lex_code
      <4>3. next = [mode |-> ch, current |-> text, stmts |-> stmts]
        BY <3>2, <3>3, <4>1, Zenon
      <4> QED BY <3>1, <4>2, <4>3, Zenon
    <3>4. CASE ch = "semi"
      <4>1. ch \notin Comments /\ ch \notin Blanks /\ ch \notin Opens
        BY <3>4 DEF Blanks, Comments, Opens
      <4>2. lex_code(s, ch) = [s EXCEPT !.stmts = Push(stmts, text), !.current = <<>>]
        BY <2>1, <3>4, <4>1, Zenon DEF lex_code
      <4>3. next = [mode |-> mode, current |-> <<>>, stmts |-> Push(stmts, text)]
        BY <2>3, <3>2, <3>4, <4>1, Zenon
      <4> QED BY <3>1, <4>2, <4>3, Zenon
    <3>5. CASE ch \in Blanks
      <4>1. ch \notin Comments /\ ch # "semi" /\ ch \notin Opens
        BY <3>5 DEF Blanks, Comments, Opens
      <4>2. lex_code(s, ch) = s
        BY <3>5, <4>1, Zenon DEF lex_code
      <4>3. next = [mode |-> mode, current |-> text, stmts |-> stmts]
        BY <2>3, <3>2, <3>5, <4>1, Zenon
      <4> QED BY <3>1, <4>2, <4>3, Zenon
    <3>6. CASE ch \notin Comments /\ ch # "semi" /\ ch \notin Blanks
      <4>1. lex_code(s, ch) = [s EXCEPT !.current = Append(text, ch),
                                        !.mode = IF ch \in Opens THEN ch ELSE mode]
        BY <2>1, <3>6, <1>CloserIs, Zenon DEF lex_code
      <4>2. next = [mode |-> IF ch \in Opens THEN ch ELSE mode, current |-> Append(text, ch),
                    stmts |-> stmts]
        BY <2>3, <3>2, <3>6, Zenon
      <4> QED BY <3>1, <4>1, <4>2, Zenon
    <3> QED BY <3>3, <3>4, <3>5, <3>6, Zenon
  <2> QED BY <2>2, <2>3, Zenon

<1>SplitIs.
    ASSUME NEW C, NEW s \in SplitStates(C), NEW ch
    PROVE  LET t == split_char(s, ch) IN
           IF ch = "semi" /\ ~s.single /\ ~s.double
           THEN t = [s EXCEPT !.stmts = Push(s.stmts, s.current), !.current = <<>>]
           ELSE /\ t.current = Append(s.current, ch) /\ t.stmts = s.stmts
                /\ t.single = IF ch = "'" /\ ~s.double THEN ~s.single ELSE s.single
                /\ t.double = IF ch = "dq" /\ ~s.single THEN ~s.double ELSE s.double
  <2>1. PICK t : t = split_char(s, ch)
    BY Zenon
  <2>2. CASE ch = "'" /\ ~s.double
    <3>1. ch # "dq" /\ ch # "semi"
      BY <2>2
    <3>2. t = [Keep(s, ch) EXCEPT !.single = ~Keep(s, ch).single]
      BY <2>1, <2>2, <3>1, Zenon DEF split_char
    <3>3. /\ t.current = Append(s.current, ch) /\ t.stmts = s.stmts
          /\ t.single = ~s.single /\ t.double = s.double
      BY <3>2 DEF Keep, SplitStates
    <3> QED BY <2>1, <2>2, <3>1, <3>3, Zenon
  <2>3. CASE ch = "dq" /\ ~s.single
    <3>1. ch # "'" /\ ch # "semi"
      BY <2>3
    <3>2. t = [Keep(s, ch) EXCEPT !.double = ~Keep(s, ch).double]
      BY <2>1, <2>3, <3>1, Zenon DEF split_char
    <3>3. /\ t.current = Append(s.current, ch) /\ t.stmts = s.stmts
          /\ t.single = s.single /\ t.double = ~s.double
      BY <3>2 DEF Keep, SplitStates
    <3> QED BY <2>1, <2>3, <3>1, <3>3, Zenon
  <2>4. CASE ch = "semi" /\ ~s.single /\ ~s.double
    <3>1. ch # "'" /\ ch # "dq"
      BY <2>4
    <3>2. t = [s EXCEPT !.stmts = Push(s.stmts, s.current), !.current = <<>>]
      BY <2>1, <2>4, <3>1, Zenon DEF split_char
    <3> QED BY <2>1, <2>4, <3>2, Zenon
  <2>5. CASE /\ ~(ch = "'" /\ ~s.double) /\ ~(ch = "dq" /\ ~s.single)
             /\ ~(ch = "semi" /\ ~s.single /\ ~s.double)
    <3>1. t = Keep(s, ch)
      BY <2>1, <2>5, Zenon DEF split_char
    <3>2. /\ t.current = Append(s.current, ch) /\ t.stmts = s.stmts
          /\ t.single = s.single /\ t.double = s.double
      BY <3>1 DEF Keep, SplitStates
    <3> QED BY <2>1, <2>5, <3>2, Zenon
  <2> QED BY <2>2, <2>3, <2>4, <2>5, Zenon

<1> DEFINE
  (* What runs of some pieces: one statement of each. *)
  Ran(stmts) == Concat([k \in DOMAIN stmts |-> prepare(stmts[k])])
<1> HIDE DEF Ran

<1>PrepareTyped.
    ASSUME NEW C, NEW text \in Seq(C)
    PROVE  prepare(text) \in Seq(Seq(C))
  <2>1. Lexed(text) \in LexStates(C)
    <3>1. Len(text) \in 0..Len(text)
      OBVIOUS
    <3> QED BY <3>1, <1>LexingIs, Zenon DEF Lexed
  <2>2. PICK stmts \in Seq(Seq(C)) : stmts = Statements(text)
    <3>1. Lexed(text).stmts \in Seq(Seq(C)) /\ Lexed(text).current \in Seq(C)
      BY <2>1 DEF LexStates
    <3> QED BY <3>1, <1>PushTyped, Zenon DEF Statements
  <2>3. stmts # <<>> => <<Head(stmts)>> \in Seq(Seq(C))
    OBVIOUS
  <2>4. <<>> \in Seq(Seq(C))
    OBVIOUS
  <2> QED BY <2>2, <2>3, <2>4, Zenon DEF prepare

<1>RanAppend.
    ASSUME NEW C, NEW stmts \in Seq(Seq(C)), NEW text \in Seq(C)
    PROVE  /\ Ran(stmts) \in Seq(Seq(C))
           /\ Ran(Append(stmts, text)) = Ran(stmts) \o prepare(text)
  <2> DEFINE Parts(ss) == [k \in DOMAIN ss |-> prepare(ss[k])]
  <2>1. \A t \in Seq(C) : prepare(t) \in Seq(Seq(C))
    BY <1>PrepareTyped, Zenon
  <2>2. Parts(stmts) \in Seq(Seq(Seq(C)))
    <3>1. PICK n \in Nat : n = Len(stmts) /\ DOMAIN stmts = 1..n /\ \A k \in 1..n : stmts[k] \in Seq(C)
      OBVIOUS
    <3>2. Parts(stmts) \in [1..n -> Seq(Seq(C))]
      BY <2>1, <3>1, Zenon
    <3> HIDE DEF Parts
    <3> QED BY <3>2
  <2>3. Parts(Append(stmts, text)) = Append(Parts(stmts), prepare(text))
    <3>1. PICK more : more = Append(stmts, text)
      BY Zenon
    <3>2. PICK n \in Nat : n = Len(stmts)
      OBVIOUS
    <3>3. /\ DOMAIN more = 1..(n + 1) /\ more[n + 1] = text /\ \A k \in 1..n : more[k] = stmts[k]
          /\ DOMAIN stmts = 1..n
      BY <3>1, <3>2
    <3>4. PICK last : last = prepare(text)
      BY Zenon
    <3>5. PICK p, q : p = Parts(stmts) /\ q = Parts(more)
      BY Zenon
    <3>6. /\ p \in Seq(Seq(Seq(C))) /\ DOMAIN p = 1..n /\ \A k \in 1..n : p[k] = prepare(stmts[k])
      BY <2>2, <3>3, <3>5, Zenon
    <3>7. q = [k \in 1..(n + 1) |-> prepare(more[k])]
      BY <3>3, <3>5, Zenon
    <3>8. q = [k \in 1..(n + 1) |-> IF k = n + 1 THEN last ELSE p[k]]
      <4>1. ASSUME NEW k \in 1..(n + 1) PROVE prepare(more[k]) = IF k = n + 1 THEN last ELSE p[k]
        <5>1. k = n + 1 \/ k \in 1..n
          OBVIOUS
        <5>2. n + 1 \notin 1..n
          OBVIOUS
        <5> QED BY <3>3, <3>4, <3>6, <5>1, <5>2, Zenon
      <4> QED BY <3>7, <4>1, Zenon
    <3>9. q = Append(p, last)
      <4>1. last \in Seq(Seq(C))
        BY <2>1, <3>4, Zenon
      <4>2. Append(p, last) = [k \in 1..(n + 1) |-> IF k = n + 1 THEN last ELSE p[k]]
        BY <3>6, <4>1, AppendIs
      <4> QED BY <3>8, <4>2, Zenon
    <3> QED BY <3>1, <3>4, <3>5, <3>9, Zenon
  <2>4. prepare(text) \in Seq(Seq(C))
    BY <2>1, Zenon
  <2> HIDE DEF Parts
  <2>5. Ran(stmts) = Concat(Parts(stmts)) /\ Ran(Append(stmts, text)) = Concat(Parts(Append(stmts, text)))
    BY Zenon DEF Ran, Parts
  <2> QED BY <2>2, <2>3, <2>4, <2>5, ConcatAppend, Zenon

(* What is compiled of a piece in which SQLite sees no semicolon, and how it runs. *)
<1>PrepareIs.
    ASSUME NEW C, NEW text \in Seq(C), Lexed(text).stmts = <<>>
    PROVE  prepare(text) = IF Range(Lexed(text).current) \subseteq Blanks THEN <<>>
                           ELSE <<Lexed(text).current>>
  <2> USE <1>PrepareIs
  <2>1. PICK x : x = Lexed(text).current
    BY Zenon
  <2>2. Statements(text) = Push(<<>>, x)
    BY <2>1, Zenon DEF Statements
  <2>3. CASE Range(x) \subseteq Blanks
    BY <2>1, <2>2, <2>3, Zenon DEF prepare, Push
  <2>4. CASE ~(Range(x) \subseteq Blanks)
    <3>1. Statements(text) = Append(<<>>, x)
      BY <2>2, <2>4, Zenon DEF Push
    <3>2. Append(<<>>, x) # <<>> /\ <<Head(Append(<<>>, x))>> = <<x>>
      OBVIOUS
    <3>3. prepare(text) = <<x>>
      BY <3>1, <3>2, Zenon DEF prepare
    <3> QED BY <2>1, <2>4, <3>3, Zenon
  <2> QED BY <2>3, <2>4, Zenon

<1>RanPush.
    ASSUME NEW C, NEW stmts \in Seq(Seq(C)), NEW text \in Seq(C), Lexed(text).stmts = <<>>
    PROVE  Ran(Push(stmts, text)) = Push(Ran(stmts), Lexed(text).current)
  <2> USE <1>RanPush
  <2>1. PICK x : x = Lexed(text).current
    BY Zenon
  <2>2. CASE Range(text) \subseteq Blanks
    <3>1. x = <<>>
      <4>1. Unlexed.current = <<>>
        BY DEF Unlexed
      <4> QED BY <2>1, <2>2, <4>1, <1>LexedBlank, Zenon
    <3>2. Range(x) \subseteq Blanks
      BY <3>1 DEF Range
    <3> QED BY <2>1, <2>2, <3>2, Zenon DEF Push
  <2>3. CASE ~(Range(text) \subseteq Blanks)
    <3>1. Ran(Push(stmts, text)) = Ran(stmts) \o prepare(text)
      BY <2>3, <1>RanAppend, Zenon DEF Push
    <3>2. PICK r \in Seq(Seq(C)) : r = Ran(stmts)
      BY <1>RanAppend, Zenon
    <3>3. prepare(text) = IF Range(x) \subseteq Blanks THEN <<>> ELSE <<x>>
      BY <2>1, <1>PrepareIs, Zenon
    <3>4. r \o <<>> = r /\ r \o <<x>> = Append(r, x)
      OBVIOUS
    <3> QED BY <2>1, <3>1, <3>2, <3>3, <3>4, Zenon DEF Push
  <2> QED BY <2>2, <2>3, Zenon

<1> DEFINE
  (* The two readings of the script up to a place agree: the same quotes are open;
     the pieces so far run as the statements so far; and SQLite reads the current
     piece as its own current statement. *)
  Agree(s, l) ==
    /\ s.single <=> l.mode = "'"
    /\ s.double <=> l.mode = "dq"
    /\ Ran(s.stmts) = l.stmts
    /\ Lexed(s.current) = [mode |-> l.mode, current |-> l.current, stmts |-> <<>>]
  (* No piece is empty to SQLite: not those so far, and the current one only if it
     is blank. *)
  Solid(s) ==
    /\ \A k \in DOMAIN s.stmts : prepare(s.stmts[k]) # <<>>
    /\ Range(Lexed(s.current).current) \subseteq Blanks => Range(s.current) \subseteq Blanks
<1> HIDE DEF Agree, Solid

<1>RangeAppend.
    ASSUME NEW C, NEW text \in Seq(C), NEW ch
    PROVE  Range(Append(text, ch)) = Range(text) \cup {ch}
  <2>1. PICK n \in Nat : n = Len(text) /\ DOMAIN text = 1..n
    OBVIOUS
  <2>2. PICK more : more = Append(text, ch)
    BY Zenon
  <2>3. DOMAIN more = 1..n \cup {n + 1} /\ more[n + 1] = ch /\ \A i \in 1..n : more[i] = text[i]
    BY <2>1, <2>2
  <2> QED BY <2>1, <2>2, <2>3 DEF Range

(* A piece that is not empty to SQLite keeps the pieces so. *)
<1>SolidPush.
    ASSUME NEW C, NEW s \in SplitStates(C), Solid(s), Lexed(s.current).stmts = <<>>
    PROVE  \A k \in DOMAIN Push(s.stmts, s.current) : prepare(Push(s.stmts, s.current)[k]) # <<>>
  <2> USE <1>SolidPush
  <2>1. PICK text \in Seq(C), stmts \in Seq(Seq(C)) : text = s.current /\ stmts = s.stmts
    BY DEF SplitStates
  <2>2. \A k \in DOMAIN stmts : prepare(stmts[k]) # <<>>
    BY <2>1, Zenon DEF Solid
  <2>3. CASE Range(text) \subseteq Blanks
    BY <2>1, <2>2, <2>3, Zenon DEF Push
  <2>4. CASE ~(Range(text) \subseteq Blanks)
    <3>1. ~(Range(Lexed(text).current) \subseteq Blanks)
      BY <2>1, <2>4, Zenon DEF Solid
    <3>2. prepare(text) = <<Lexed(text).current>>
      BY <2>1, <3>1, <1>PrepareIs, Zenon
    <3>3. prepare(text) # <<>>
      <4>1. PICK x : x = Lexed(text).current
        BY Zenon
      <4>2. <<x>> # <<>>
        OBVIOUS
      <4> QED BY <3>2, <4>1, <4>2, Zenon
    <3>4. PICK more : more = Append(stmts, text)
      BY Zenon
    <3>5. ASSUME NEW k \in DOMAIN more PROVE prepare(more[k]) # <<>>
      <4>1. (k \in DOMAIN stmts /\ more[k] = stmts[k]) \/ more[k] = text
        BY <3>4
      <4> QED BY <2>2, <3>3, <4>1, Zenon
    <3> QED BY <2>1, <2>4, <3>4, <3>5, Zenon DEF Push
  <2> QED BY <2>3, <2>4, Zenon

<1>AgreeStep.
    ASSUME NEW C, NEW s \in SplitStates(C), NEW l \in LexStates(C), Agree(s, l), NEW ch \in C,
           l.mode \notin {"code", "'", "dq"} => ch \notin {"'", "dq", "semi"}
    PROVE  /\ Agree(split_char(s, ch), lex(l, ch))
           /\ l.mode \notin Comments /\ lex(l, ch).mode \notin Comments /\ Solid(s) =>
                Solid(split_char(s, ch))
  <2> USE <1>AgreeStep
  <2>1. PICK m \in {"code"} \cup Opens : m = l.mode
    BY DEF LexStates
  <2>2. l = [mode |-> m, current |-> l.current, stmts |-> l.stmts]
    BY <2>1 DEF LexStates
  <2>3. /\ s.single \in BOOLEAN /\ s.double \in BOOLEAN
        /\ s.current \in Seq(C) /\ s.stmts \in Seq(Seq(C))
    BY DEF SplitStates
  <2>4. /\ s.single <=> m = "'"
        /\ s.double <=> m = "dq"
        /\ Ran(s.stmts) = l.stmts
        /\ Lexed(s.current) = [mode |-> m, current |-> l.current, stmts |-> <<>>]
    BY <2>1, Zenon DEF Agree
  <2>5. lex(l, ch) = [mode |-> NextMode(m, ch), current |-> NextText(m, l.current, ch),
                      stmts |-> IF m = "code" /\ ch = "semi" THEN Push(l.stmts, l.current) ELSE l.stmts]
    <3>1. PICK c, ss : c = l.current /\ ss = l.stmts
      BY Zenon
    <3>2. lex([mode |-> m, current |-> c, stmts |-> ss], ch)
            = [mode |-> NextMode(m, ch), current |-> NextText(m, c, ch),
               stmts |-> IF m = "code" /\ ch = "semi" THEN Push(ss, c) ELSE ss]
      BY <1>LexIs
    <3> QED BY <2>2, <3>1, <3>2, Zenon
  <2>6. PICK t, k : t = split_char(s, ch) /\ k = lex(l, ch)
    BY Zenon
  <2>7. CASE m = "code" /\ ch = "semi"
    <3>1. ~s.single /\ ~s.double
      BY <2>4, <2>7
    <3>2. t = [s EXCEPT !.stmts = Push(s.stmts, s.current), !.current = <<>>]
      BY <2>6, <2>7, <3>1, <1>SplitIs, Zenon
    <3>3. t.single = s.single /\ t.double = s.double /\ t.current = <<>> /\ t.stmts = Push(s.stmts, s.current)
      BY <3>2 DEF SplitStates
    <3>4. NextMode(m, ch) = "code" /\ NextText(m, l.current, ch) = <<>>
      BY <2>7 DEF NextMode, NextText, Opens
    <3>5. k.mode = "code" /\ k.current = <<>> /\ k.stmts = Push(l.stmts, l.current)
      BY <2>5, <2>6, <2>7, <3>4
    <3>6. Lexed(s.current).stmts = <<>> /\ Lexed(s.current).current = l.current
      BY <2>4
    <3>7. Ran(t.stmts) = k.stmts
      <4>1. Ran(Push(s.stmts, s.current)) = Push(Ran(s.stmts), Lexed(s.current).current)
        BY <2>3, <3>6, <1>RanPush
      <4> QED BY <2>4, <3>3, <3>5, <3>6, <4>1, Zenon
    <3>8. Lexed(t.current) = [mode |-> k.mode, current |-> k.current, stmts |-> <<>>]
      BY <3>3, <3>5, <1>LexedNone, Zenon DEF Unlexed
    <3>9. (t.single <=> k.mode = "'") /\ (t.double <=> k.mode = "dq")
      BY <3>1, <3>3, <3>5
    <3>10. ASSUME Solid(s) PROVE Solid(t)
      <4>1. \A k1 \in DOMAIN t.stmts : prepare(t.stmts[k1]) # <<>>
        BY <3>3, <3>6, <3>10, <1>SolidPush, Zenon
      <4>2. Range(t.current) \subseteq Blanks
        BY <3>3 DEF Range
      <4> QED BY <4>1, <4>2, Zenon DEF Solid
    <3> QED BY <2>6, <3>7, <3>8, <3>9, <3>10, Zenon DEF Agree
  <2>8. CASE ~(m = "code" /\ ch = "semi")
    <3>1. ~(ch = "semi" /\ ~s.single /\ ~s.double)
      BY <2>1, <2>4, <2>8
    <3>2. /\ t.current = Append(s.current, ch) /\ t.stmts = s.stmts
          /\ t.single = IF ch = "'" /\ ~s.double THEN ~s.single ELSE s.single
          /\ t.double = IF ch = "dq" /\ ~s.single THEN ~s.double ELSE s.double
      BY <2>6, <3>1, <1>SplitIs, Zenon
    <3>3. /\ k.mode = NextMode(m, ch) /\ k.current = NextText(m, l.current, ch) /\ k.stmts = l.stmts
      BY <2>5, <2>6, <2>8
    <3>4. Lexed(t.current) = [mode |-> k.mode, current |-> k.current, stmts |-> <<>>]
      <4>1. Lexed(t.current) = lex([mode |-> m, current |-> l.current, stmts |-> <<>>], ch)
        <5>1. Lexed(Append(s.current, ch)) = lex(Lexed(s.current), ch)
          BY <2>3, <1>LexedAppend
        <5> QED BY <2>4, <3>2, <5>1, Zenon
      <4>2. Lexed(t.current) = [mode |-> NextMode(m, ch), current |-> NextText(m, l.current, ch),
                                stmts |-> IF m = "code" /\ ch = "semi" THEN Push(<<>>, l.current) ELSE <<>>]
        <5>1. PICK c, none : c = l.current /\ none = <<>>
          BY Zenon
        <5>2. lex([mode |-> m, current |-> c, stmts |-> none], ch)
                = [mode |-> NextMode(m, ch), current |-> NextText(m, c, ch),
                   stmts |-> IF m = "code" /\ ch = "semi" THEN Push(none, c) ELSE none]
          BY <1>LexIs
        <5> QED BY <4>1, <5>1, <5>2, Zenon
      <4> QED BY <2>8, <3>3, <4>2, Zenon
    <3>5. /\ t.single <=> k.mode = "'"
          /\ t.double <=> k.mode = "dq"
      <4>1. CASE m \in {"'", "dq"}
        <5>1. m # "code" /\ Closer[m] = m
          BY <4>1, <1>CloserIs
        <5>2. k.mode = IF ch = m THEN "code" ELSE m
          BY <3>3, <5>1, Zenon DEF NextMode
        <5> QED BY <2>4, <3>2, <4>1, <5>2
      <4>2. CASE m = "code"
        <5>1. k.mode = IF ch \in Opens THEN ch ELSE "code"
          BY <3>3, <4>2, Zenon DEF NextMode
        <5> QED BY <2>4, <3>2, <4>2, <5>1 DEF Opens
      <4>3. CASE m \notin {"code", "'", "dq"}
        <5>1. ch \notin {"'", "dq", "semi"}
          BY <2>1, <4>3, Zenon
        <5>2. k.mode \in {"code", m}
          BY <3>3, <4>3, Zenon DEF NextMode
        <5> QED BY <2>4, <3>2, <4>3, <5>1, <5>2
      <4> QED BY <4>1, <4>2, <4>3, Zenon
    <3>6. ASSUME m \notin Comments, k.mode \notin Comments, Solid(s) PROVE Solid(t)
      <4>1. PICK x : x = l.current
        BY Zenon
      <4>2. x \in Seq(C) /\ Lexed(s.current).current = x /\ Lexed(t.current).current = k.current
        BY <2>4, <3>4, <4>1 DEF LexStates
      <4>3. Range(x) \subseteq Blanks => Range(s.current) \subseteq Blanks
        BY <3>6, <4>2, Zenon DEF Solid
      <4>4. Range(t.current) = Range(s.current) \cup {ch}
        BY <2>3, <3>2, <1>RangeAppend, Zenon
      <4>5. (k.current = x /\ ch \in Blanks) \/ k.current = Append(x, ch)
        <5>1. CASE m = "code"
          <6>1. ch # "semi"
            BY <2>8, <5>1
          <6>2. ch \in Comments => ch \in Opens
            BY DEF Comments, Opens
          <6>3. ch \notin Comments
            BY <3>3, <3>6, <5>1, <6>2, Zenon DEF NextMode
          <6> QED BY <3>3, <4>1, <5>1, <6>1, <6>3, Zenon DEF NextText
        <5>2. CASE m # "code"
          BY <3>3, <3>6, <4>1, <5>2, Zenon DEF NextText
        <5> QED BY <5>1, <5>2, Zenon
      <4>6. Range(Append(x, ch)) = Range(x) \cup {ch}
        BY <4>2, <1>RangeAppend, Zenon
      <4>7. Range(k.current) \subseteq Blanks => Range(t.current) \subseteq Blanks
        BY <4>3, <4>4, <4>5, <4>6, Zenon
      <4> QED BY <3>2, <3>6, <4>2, <4>7, Zenon DEF Solid
    <3> QED BY <2>1, <2>4, <2>6, <3>2, <3>3, <3>4, <3>5, <3>6, Zenon DEF Agree
  <2> QED BY <2>7, <2>8, Zenon

<1> SUFFICES ASSUME NEW C, NEW script \in Seq(C)
             PROVE  ScriptRunsWhole(script)
  BY Zenon
<1>1. PICK n \in Nat : n = Len(script) /\ DOMAIN script = 1..n /\ \A i \in 1..n : script[i] \in C
  OBVIOUS
<1>2. PICK sp, lx : sp = Splitting(script) /\ lx = Lexing(script)
  BY Zenon
<1>3. /\ sp[0] = Unsplit /\ \A i \in 1..n : sp[i] = split_char(sp[i - 1], script[i])
      /\ \A i \in 0..n : sp[i] \in SplitStates(C)
  BY <1>1, <1>2, <1>SplittingIs, Zenon
<1>4. /\ lx[0] = Unlexed /\ \A i \in 1..n : lx[i] = lex(lx[i - 1], script[i])
      /\ \A i \in 0..n : lx[i] \in LexStates(C)
  BY <1>1, <1>2, <1>LexingIs, Zenon
<1> DEFINE noted == \E i \in 0..n : lx[i].mode \in Comments
           pieces == split_sql_statements(script)
<1>a. noted => \E i \in 1..(n + 1) : lx[i - 1].mode \in Comments
  <2>1. ASSUME NEW i \in 0..n PROVE i + 1 \in 1..(n + 1) /\ (i + 1) - 1 = i
    OBVIOUS
  <2> QED BY <2>1, Zenon
<1> HIDE DEF noted, pieces
<1> SUFFICES ASSUME \A i \in 1..n : lx[i - 1].mode \notin {"code", "'", "dq"} =>
                                    script[i] \notin {"'", "dq", "semi"}
             PROVE  /\ batch_keeps(pieces, FALSE) = Statements(script)
                    /\ batch_keeps(pieces, TRUE) \in {<<>>, Statements(script)}
                    /\ ~noted => batch_keeps(pieces, TRUE) = Statements(script)
  BY <1>1, <1>2, <1>a, Zenon DEF ScriptRunsWhole, pieces
<1> DEFINE T == {i \in 0..n : Agree(sp[i], lx[i]) /\ (~noted => Solid(sp[i]))}
<1>5. \A i \in 0..n : i \in T
  <2>1. 0 \in T
    <3>1. 0 \in 0..n
      OBVIOUS
    <3>2. /\ Unsplit.single = FALSE /\ Unsplit.double = FALSE
          /\ Unsplit.current = <<>> /\ Unsplit.stmts = <<>>
      BY DEF Unsplit
    <3>3. Unlexed.mode = "code" /\ Unlexed.current = <<>> /\ Unlexed.stmts = <<>>
      BY DEF Unlexed
    <3>4. Ran(<<>>) = <<>>
      <4>1. DOMAIN <<>> = {}
        OBVIOUS
      <4>2. [k \in DOMAIN <<>> |-> prepare(<<>>[k])] = <<>>
        <5>1. PICK z : z = <<>> /\ DOMAIN z = {}
          BY <4>1, Zenon
        <5>2. PICK y : y = [k \in {} |-> prepare(z[k])]
          BY Zenon
        <5>3. y \in [{} -> {}] /\ z = [k \in {} |-> k]
          BY <5>1, <5>2
        <5>4. y = z
          BY <5>1, <5>3
        <5> QED BY <4>1, <5>1, <5>2, <5>4, Zenon
      <4> QED BY <4>2, ConcatNone, Zenon DEF Ran
    <3>5. Agree(Unsplit, Unlexed)
      <4>1. Lexed(Unsplit.current) = [mode |-> Unlexed.mode, current |-> Unlexed.current, stmts |-> <<>>]
        BY <3>2, <3>3, <1>LexedNone, Zenon DEF Unlexed
      <4>2. (Unsplit.single <=> Unlexed.mode = "'") /\ (Unsplit.double <=> Unlexed.mode = "dq")
        BY <3>2, <3>3
      <4> QED BY <3>2, <3>3, <3>4, <4>1, <4>2, Zenon DEF Agree
    <3>6. Solid(Unsplit)
      <4>1. DOMAIN Unsplit.stmts = {} /\ Range(Unsplit.current) \subseteq Blanks
        BY <3>2 DEF Range
      <4> QED BY <4>1, Zenon DEF Solid
    <3> QED BY <1>3, <1>4, <3>1, <3>5, <3>6, Zenon
  <2>2. ASSUME NEW i \in 1..n, i - 1 \in T PROVE i \in T
    <3>1. i \in 0..n /\ i - 1 \in 0..n
      BY <1>1
    <3>2. PICK s \in SplitStates(C), l \in LexStates(C) : s = sp[i - 1] /\ l = lx[i - 1]
      BY <1>3, <1>4, <3>1, Zenon
    <3>3. sp[i] = split_char(s, script[i]) /\ lx[i] = lex(l, script[i]) /\ script[i] \in C
      BY <1>1, <1>3, <1>4, <3>2, Zenon
    <3>4. /\ Agree(s, l) /\ (~noted => Solid(s))
          /\ l.mode \notin {"code", "'", "dq"} => script[i] \notin {"'", "dq", "semi"}
      BY <2>2, <3>2, Zenon
    <3>5. ~noted => l.mode \notin Comments /\ lx[i].mode \notin Comments
      BY <3>1, <3>2, Zenon DEF noted
    <3>6. /\ Agree(split_char(s, script[i]), lex(l, script[i]))
          /\ l.mode \notin Comments /\ lex(l, script[i]).mode \notin Comments /\ Solid(s) =>
               Solid(split_char(s, script[i]))
      BY <3>3, <3>4, <1>AgreeStep, Zenon
    <3> QED BY <3>1, <3>3, <3>4, <3>5, <3>6, Zenon
  <2> HIDE DEF T
  <2> QED BY <2>1, <2>2, Upwards, Zenon
<1>6. n \in 0..n
  OBVIOUS
<1>7. PICK s \in SplitStates(C), l \in LexStates(C) :
        s = sp[n] /\ l = lx[n] /\ Agree(s, l) /\ (~noted => Solid(s))
  BY <1>3, <1>4, <1>5, <1>6, Zenon
<1>8. s.current \in Seq(C) /\ s.stmts \in Seq(Seq(C))
  BY DEF SplitStates
<1>9. Lexed(s.current).stmts = <<>> /\ Lexed(s.current).current = l.current
  BY <1>7 DEF Agree
<1>10. pieces = Push(s.stmts, s.current)
  BY <1>1, <1>2, <1>7, Zenon DEF pieces, split_sql_statements
<1>11. Statements(script) = Push(l.stmts, l.current)
  BY <1>1, <1>2, <1>7, Zenon DEF Statements, Lexed
<1>12. Ran(s.stmts) = l.stmts
  BY <1>7, Zenon DEF Agree
<1>13. Ran(Push(s.stmts, s.current)) = Push(Ran(s.stmts), Lexed(s.current).current)
  BY <1>8, <1>9, <1>RanPush
<1>14. Ran(pieces) = Statements(script)
  BY <1>9, <1>10, <1>11, <1>12, <1>13, Zenon
<1>15. ~noted => \A k \in DOMAIN pieces : prepare(pieces[k]) # <<>>
  BY <1>7, <1>9, <1>10, <1>SolidPush, Zenon
<1>16. /\ batch_keeps(pieces, FALSE) = Ran(pieces)
       /\ batch_keeps(pieces, TRUE) = IF \E k \in DOMAIN pieces : prepare(pieces[k]) = <<>> THEN <<>>
                                      ELSE Ran(pieces)
  BY Zenon DEF batch_keeps, Ran
<1> QED BY <1>14, <1>15, <1>16, Zenon

-----------------------------------------------------------------------------
(* The arguments that lead to a gateway, to an ssh host or to a file *)

(* Paths stay local and hosts whole (endpoint.rs, Endpoint::parse), whatever
   the argument: no path is taken for another machine, and what is taken for one
   is a host and a path that together are all of the argument. *)
LEMMA EndpointsKept ==
  ASSUME WellOrdered
  PROVE  \A C : \A text \in Seq(C) : PathsStayLocal(text)
(* The first and the last place with some character, if there is one. *)
<1>FirstAndLast.
    ASSUME NEW C, NEW text \in Seq(C), NEW c, Has(text, c)
    PROVE  /\ FirstOf(text, c) \in DOMAIN text /\ text[FirstOf(text, c)] = c
           /\ LastOf(text, c) \in DOMAIN text /\ text[LastOf(text, c)] = c
           /\ \A i \in DOMAIN text : i < FirstOf(text, c) => text[i] # c
  <2> USE <1>FirstAndLast
  <2> DEFINE S == {i \in DOMAIN text : text[i] = c}
  <2>1. PICK n \in Nat : DOMAIN text = 1..n
    OBVIOUS
  <2>2. S # {} /\ S \subseteq Nat /\ S \subseteq 0..n
    BY <2>1 DEF Has, Range
  <2>3. Min(S) \in S /\ \A y \in S : Min(S) <= y
    <3> HIDE DEF S
    <3> QED BY <2>2, FirstPlace, Zenon
  <2>4. Max(S) \in S
    <3> HIDE DEF S
    <3> QED BY <2>2, LastPlace, Zenon
  <2>5. FirstOf(text, c) = Min(S) /\ LastOf(text, c) = Max(S)
    BY DEF FirstOf, LastOf
  <2>6. PICK a, b : a = Min(S) /\ b = Max(S)
    BY Zenon
  <2>7. a \in S /\ b \in S /\ \A y \in S : a <= y
    BY <2>3, <2>4, <2>6, Zenon
  <2>8. a \in DOMAIN text /\ text[a] = c /\ b \in DOMAIN text /\ text[b] = c
    BY <2>7, Zenon
  <2>9. ASSUME NEW i \in DOMAIN text, i < a PROVE text[i] # c
    <3>1. i \in S => a <= i
      BY <2>7, Zenon
    <3>2. i \in Nat /\ a \in Nat
      BY <2>1, <2>8
    <3>3. i \notin S
      <4> HIDE DEF S
      <4> QED BY <2>9, <3>1, <3>2
    <3> QED BY <3>3, Zenon
  <2> QED BY <2>5, <2>6, <2>8, <2>9, Zenon

(* The two parts of a text cut at a place. *)
<1>HostCut.
    ASSUME NEW C, NEW text \in Seq(C), NEW i \in DOMAIN text, NEW b, b = Before(text, i)
    PROVE  b \in Seq(C) /\ Len(b) = i - 1 /\ \A j \in 1..(i - 1) : b[j] = text[j]
  BY <1>HostCut DEF Before

<1>PathCut.
    ASSUME NEW C, NEW text \in Seq(C), NEW i \in DOMAIN text, NEW a, a = After(text, i)
    PROVE  a \in Seq(C) /\ Len(a) = Len(text) - i /\ \A j \in 1..(Len(text) - i) : a[j] = text[i + j]
  BY <1>PathCut DEF After

<1>Cut.
    ASSUME NEW C, NEW text \in Seq(C), NEW i \in DOMAIN text
    PROVE  /\ Before(text, i) \in Seq(C) /\ After(text, i) \in Seq(C)
           /\ Len(Before(text, i)) = i - 1 /\ Len(After(text, i)) = Len(text) - i
           /\ \A j \in 1..(i - 1) : Before(text, i)[j] = text[j]
           /\ \A j \in 1..(Len(text) - i) : After(text, i)[j] = text[i + j]
  <2>1. PICK b : b = Before(text, i)
    BY Zenon
  <2>2. PICK a : a = After(text, i)
    BY Zenon
  <2>3. b \in Seq(C) /\ Len(b) = i - 1 /\ \A j \in 1..(i - 1) : b[j] = text[j]
    BY <2>1, <1>HostCut
  <2>4. a \in Seq(C) /\ Len(a) = Len(text) - i /\ \A j \in 1..(Len(text) - i) : a[j] = text[i + j]
    BY <2>2, <1>PathCut
  <2> QED BY <2>1, <2>2, <2>3, <2>4, Zenon

(* Nothing is lost by it. *)
<1>Rejoined.
    ASSUME NEW C, NEW text \in Seq(C), NEW i \in DOMAIN text
    PROVE  text = Before(text, i) \o <<text[i]>> \o After(text, i)
  <2>1. PICK n \in Nat : n = Len(text) /\ DOMAIN text = 1..n /\ i \in 1..n /\ text[i] \in C
    OBVIOUS
  <2>2. PICK b, a, c : b = Before(text, i) /\ a = After(text, i) /\ c = <<text[i]>>
    BY Zenon
  <2>3. /\ b \in Seq(C) /\ a \in Seq(C) /\ Len(b) = i - 1 /\ Len(a) = n - i
        /\ \A j \in 1..(i - 1) : b[j] = text[j]
        /\ \A j \in 1..(n - i) : a[j] = text[i + j]
    <3>1. /\ Before(text, i) \in Seq(C) /\ After(text, i) \in Seq(C)
          /\ Len(Before(text, i)) = i - 1 /\ Len(After(text, i)) = Len(text) - i
          /\ \A j \in 1..(i - 1) : Before(text, i)[j] = text[j]
          /\ \A j \in 1..(Len(text) - i) : After(text, i)[j] = text[i + j]
      BY <1>Cut, Zenon
    <3> QED BY <2>1, <2>2, <3>1, Zenon
  <2>4. c \in Seq(C) /\ Len(c) = 1 /\ c[1] = text[i]
    BY <2>1, <2>2
  <2>5. PICK bc : bc = b \o c
    BY Zenon
  <2>6. /\ bc \in Seq(C) /\ Len(bc) = Len(b) + Len(c)
        /\ \A j \in 1..(Len(b) + Len(c)) : bc[j] = IF j <= Len(b) THEN b[j] ELSE c[j - Len(b)]
    <3>1. b \in Seq(C) /\ c \in Seq(C)
      BY <2>3, <2>4, Zenon
    <3> QED BY <2>5, <3>1, JoinIs
  <2>7. Len(bc) = i
    BY <2>1, <2>3, <2>4, <2>6
  <2>8. ASSUME NEW j \in 1..i PROVE bc[j] = text[j]
    <3>1. bc[j] = IF j <= i - 1 THEN b[j] ELSE c[j - (i - 1)]
      <4>1. Len(b) = i - 1 /\ j \in 1..(Len(b) + Len(c))
        BY <2>1, <2>3, <2>6, <2>7
      <4>2. bc[j] = IF j <= Len(b) THEN b[j] ELSE c[j - Len(b)]
        BY <2>6, <4>1, Zenon
      <4> QED BY <4>1, <4>2, Zenon
    <3>2. CASE j <= i - 1
      <4>1. j \in 1..(i - 1)
        BY <2>1, <3>2
      <4> QED BY <2>3, <3>1, <3>2, <4>1
    <3>3. CASE ~(j <= i - 1)
      <4>1. j = i /\ j - (i - 1) = 1
        BY <2>1, <3>3
      <4> QED BY <2>4, <3>1, <3>3, <4>1
    <3> QED BY <3>2, <3>3
  <2>9. PICK t : t = bc \o a
    BY Zenon
  <2>10. /\ t \in Seq(C) /\ Len(t) = Len(bc) + Len(a)
         /\ \A j \in 1..(Len(bc) + Len(a)) : t[j] = IF j <= Len(bc) THEN bc[j] ELSE a[j - Len(bc)]
    <3>1. bc \in Seq(C) /\ a \in Seq(C)
      BY <2>3, <2>6, Zenon
    <3> QED BY <2>9, <3>1, JoinIs
  <2>11. Len(t) = n
    BY <2>1, <2>3, <2>7, <2>10
  <2>12. ASSUME NEW j \in 1..n PROVE t[j] = text[j]
    <3>1. t[j] = IF j <= i THEN bc[j] ELSE a[j - i]
      BY <2>1, <2>7, <2>10, <2>11
    <3>2. CASE j <= i
      <4>1. j \in 1..i
        BY <2>1, <3>2
      <4> QED BY <2>8, <3>1, <3>2, <4>1
    <3>3. CASE ~(j <= i)
      <4>1. j - i \in 1..(n - i) /\ i + (j - i) = j
        BY <2>1, <3>3
      <4> QED BY <2>3, <3>1, <3>3, <4>1
    <3> QED BY <3>2, <3>3
  <2>13. t = text
    BY <2>1, <2>10, <2>11, <2>12, SeqEqual, Zenon
  <2> QED BY <2>2, <2>5, <2>9, <2>13, Zenon

(* What is in a part of a text is in the text. *)
<1>HasIs.
    ASSUME NEW C, NEW text \in Seq(C), NEW c
    PROVE  Has(text, c) <=> \E j \in 1..Len(text) : text[j] = c
  BY DEF Has, Range

(* A text that starts with a bracket: nothing of it is lost. *)
<1>BracketParts.
    ASSUME NEW C, NEW text \in Seq(C), NEW e \in Bracketed(text)
    PROVE  /\ text # <<>> /\ Head(text) = "["
           /\ e.kind = "ssh" /\ e.host # <<>> /\ e.path # <<>>
           /\ text = <<"[">> \o e.host \o <<"]", ":">> \o e.path
  <2> DEFINE ends == {i \in 1..(Len(text) - 1) : text[i] = "]" /\ text[i + 1] = ":"}
  <2>1. PICK n \in Nat : n = Len(text) /\ DOMAIN text = 1..n
    OBVIOUS
  <2>2. PICK end : end = Min(ends)
    BY Zenon
  <2>3. /\ ends # {} /\ Head(text) = "[" /\ end > 2 /\ end + 1 < Len(text)
        /\ e = RemoteEndpoint(SubSeq(text, 2, end - 1), After(text, end + 1))
    <3>1. e \in IF ends # {} /\ Head(text) = "[" /\ end > 2 /\ end + 1 < Len(text)
                THEN {RemoteEndpoint(SubSeq(text, 2, end - 1), After(text, end + 1))} ELSE {}
      BY <2>2, Zenon DEF Bracketed
    <3> HIDE DEF ends
    <3> QED BY <3>1, Zenon
  <2>4. end \in ends
    <3>1. ends \subseteq Nat
      BY <2>1
    <3> HIDE DEF ends
    <3> QED BY <2>2, <2>3, <3>1, FirstPlace, Zenon
  <2>5. /\ end \in Nat /\ 2 < end /\ end + 1 < n
        /\ text[end] = "]" /\ text[end + 1] = ":" /\ text[1] = "[" /\ text # <<>>
    BY <2>1, <2>3, <2>4
  <2> HIDE DEF ends
  <2>6. PICK h, p : h = SubSeq(text, 2, end - 1) /\ p = SubSeq(text, end + 2, n)
    BY Zenon
  <2>7. e.kind = "ssh" /\ e.host = h /\ e.path = p
    <3>1. After(text, end + 1) = SubSeq(text, end + 2, n)
      BY <2>1, <2>5 DEF After
    <3> QED BY <2>3, <2>6, <3>1, Zenon DEF RemoteEndpoint
  <2>8. h # <<>> /\ p # <<>>
    <3>1. Len(h) = (end - 1) - 2 + 1
      <4>1. 2 \in Nat \ {0} /\ end - 1 \in Nat /\ 2 - 1 <= end - 1 /\ end - 1 <= Len(text)
        BY <2>1, <2>5
      <4> QED BY <2>6, <4>1, PartIs
    <3>2. Len(p) = n - (end + 2) + 1
      <4>1. end + 2 \in Nat \ {0} /\ n \in Nat /\ (end + 2) - 1 <= n /\ n <= Len(text)
        BY <2>1, <2>5
      <4> QED BY <2>6, <4>1, PartIs
    <3>3. Len(h) > 0 /\ Len(p) > 0
      BY <2>1, <2>5, <3>1, <3>2
    <3> QED BY <3>3
  <2>9. SubSeq(text, 1, 1) = <<"[">>
    <3>1. /\ SubSeq(text, 1, 1) \in Seq(C) /\ Len(SubSeq(text, 1, 1)) = 1
          /\ SubSeq(text, 1, 1)[1] = text[1]
      <4>1. 1 \in Nat \ {0} /\ 1 \in Nat /\ 1 - 1 <= 1 /\ 1 <= Len(text)
        BY <2>1, <2>5
      <4>2. /\ SubSeq(text, 1, 1) \in Seq(C) /\ Len(SubSeq(text, 1, 1)) = 1 - 1 + 1
            /\ \A j \in 1..(1 - 1 + 1) : SubSeq(text, 1, 1)[j] = text[1 + j - 1]
        BY <4>1, PartIs
      <4> QED BY <4>2
    <3>2. PICK s : s = SubSeq(text, 1, 1)
      BY Zenon
    <3>3. s \in Seq(C) /\ Len(s) = 1 /\ s[1] = "["
      BY <2>5, <3>1, <3>2, Zenon
    <3>4. s = <<"[">>
      BY <3>3
    <3> QED BY <3>2, <3>4, Zenon
  <2>10. SubSeq(text, end, end + 1) = <<"]", ":">>
    <3>1. /\ SubSeq(text, end, end + 1) \in Seq(C) /\ Len(SubSeq(text, end, end + 1)) = (end + 1) - end + 1
          /\ \A j \in 1..((end + 1) - end + 1) : SubSeq(text, end, end + 1)[j] = text[end + j - 1]
      <4>1. end \in Nat \ {0} /\ end + 1 \in Nat /\ end - 1 <= end + 1 /\ end + 1 <= Len(text)
        BY <2>1, <2>5
      <4> QED BY <4>1, PartIs
    <3>2. PICK s : s = SubSeq(text, end, end + 1)
      BY Zenon
    <3>3. /\ s \in Seq(C) /\ Len(s) = (end + 1) - end + 1
          /\ \A j \in 1..((end + 1) - end + 1) : s[j] = text[end + j - 1]
      BY <3>1, <3>2, Zenon
    <3>4. (end + 1) - end + 1 = 2 /\ end + 1 - 1 = end /\ end + 2 - 1 = end + 1
      BY <2>5
    <3>5. Len(s) = 2 /\ s[1] = text[end] /\ s[2] = text[end + 1]
      BY <3>3, <3>4
    <3>6. s = <<"]", ":">>
      BY <2>5, <3>3, <3>5
    <3> QED BY <3>2, <3>6, Zenon
  <2>11. SubSeq(text, 1, 1) \o SubSeq(text, 2, end - 1) = SubSeq(text, 1, end - 1)
    <3>1. /\ 1 \in 1..(Len(text) + 1) /\ 1 \in (1 - 1)..Len(text) /\ end - 1 \in 1..Len(text)
          /\ 1 + 1 = 2
      BY <2>1, <2>5
    <3> QED BY <3>1, AdjacentParts
  <2>12. SubSeq(text, 1, end - 1) \o SubSeq(text, end, end + 1) = SubSeq(text, 1, end + 1)
    <3>1. /\ 1 \in 1..(Len(text) + 1) /\ end - 1 \in (1 - 1)..Len(text)
          /\ end + 1 \in (end - 1)..Len(text) /\ (end - 1) + 1 = end
      BY <2>1, <2>5
    <3> QED BY <3>1, AdjacentParts, Zenon
  <2>13. SubSeq(text, 1, end + 1) \o SubSeq(text, end + 2, n) = SubSeq(text, 1, n)
    <3>1. /\ 1 \in 1..(Len(text) + 1) /\ end + 1 \in (1 - 1)..Len(text)
          /\ n \in (end + 1)..Len(text) /\ (end + 1) + 1 = end + 2
      BY <2>1, <2>5
    <3> QED BY <3>1, AdjacentParts, Zenon
  <2>14. SubSeq(text, 1, n) = text
    <3>1. PICK s : s = SubSeq(text, 1, n)
      BY Zenon
    <3>2. /\ s \in Seq(C) /\ Len(s) = n - 1 + 1
          /\ \A j \in 1..(n - 1 + 1) : s[j] = text[1 + j - 1]
      <4>1. 1 \in Nat \ {0} /\ n \in Nat /\ 1 - 1 <= n /\ n <= Len(text)
        BY <2>1
      <4> QED BY <3>1, <4>1, PartIs
    <3>3. Len(s) = Len(text) /\ \A j \in 1..Len(s) : s[j] = text[j]
      BY <2>1, <3>2
    <3>4. s = text
      BY <3>2, <3>3, SeqEqual, Zenon
    <3> QED BY <3>1, <3>4, Zenon
  <2>15. <<"[">> \o h \o <<"]", ":">> \o p = text
    BY <2>6, <2>9, <2>10, <2>11, <2>12, <2>13, <2>14, Zenon
  <2> QED BY <2>3, <2>5, <2>7, <2>8, <2>15, Zenon

(* Any other SSH text is cut at one of its colons. *)
<1>ColonParts.
    ASSUME NEW C, NEW text \in Seq(C), NEW e \in parse_remote_parts(text), e \notin Bracketed(text)
    PROVE  \E i \in DOMAIN text :
             /\ text[i] = ":" /\ Has(text, ":")
             /\ e.kind = "ssh" /\ e.host = Before(text, i) /\ e.path = After(text, i)
             /\ is_remote_candidate(e.host, e.path)
             /\ e.host \in Addresses \/ i = FirstOf(text, ":")
  <2> USE <1>ColonParts
  <2>1. PICK last, first : last = LastOf(text, ":") /\ first = FirstOf(text, ":")
    BY Zenon
  <2>2. PICK l, f : l = SplitAt(text, last) /\ f = SplitAt(text, first)
    BY Zenon
  <2>3. /\ Has(text, ":")
        /\ \/ e = l /\ l.host \in Addresses /\ is_remote_candidate(l.host, l.path)
           \/ e = f /\ is_remote_candidate(f.host, f.path)
    <3>1. e \in IF Bracketed(text) # {} THEN Bracketed(text)
                ELSE IF ~Has(text, ":") THEN {}
                ELSE IF l.host \in Addresses /\ is_remote_candidate(l.host, l.path) THEN {l}
                ELSE IF is_remote_candidate(f.host, f.path) THEN {f}
                ELSE {}
      BY <2>1, <2>2, Zenon DEF parse_remote_parts
    <3> QED BY <3>1, Zenon
  <2>4. /\ first \in DOMAIN text /\ text[first] = ":"
        /\ last \in DOMAIN text /\ text[last] = ":"
    BY <2>1, <2>3, <1>FirstAndLast, Zenon
  <2>5. /\ l.kind = "ssh" /\ l.host = Before(text, last) /\ l.path = After(text, last)
        /\ f.kind = "ssh" /\ f.host = Before(text, first) /\ f.path = After(text, first)
    BY <2>2 DEF SplitAt, RemoteEndpoint
  <2> QED BY <2>1, <2>3, <2>4, <2>5, Zenon

(* The host in front of the first colon has no colon, and a host that is taken
   for a remote one has no directory in it. *)
<1>FirstHost.
    ASSUME NEW C, NEW text \in Seq(C), Has(text, ":")
    PROVE  ~Has(Before(text, FirstOf(text, ":")), ":")
  <2> USE <1>FirstHost
  <2>1. PICK i : i = FirstOf(text, ":")
    BY Zenon
  <2>2. i \in DOMAIN text /\ \A j \in DOMAIN text : j < i => text[j] # ":"
    BY <2>1, <1>FirstAndLast, Zenon
  <2>3. PICK b : b = Before(text, i)
    BY Zenon
  <2>4. /\ b \in Seq(C) /\ Len(b) = i - 1
        /\ \A j \in 1..(i - 1) : b[j] = text[j]
    BY <2>2, <2>3, <1>HostCut
  <2>5. ASSUME NEW j \in 1..Len(b) PROVE b[j] # ":"
    <3>1. j \in DOMAIN text /\ j < i /\ j \in 1..(i - 1)
      BY <2>2, <2>4
    <3> QED BY <2>2, <2>4, <3>1, Zenon
  <2>6. ~Has(b, ":")
    BY <2>4, <2>5, <1>HasIs, Zenon
  <2> QED BY <2>1, <2>3, <2>6, Zenon

<1>LongerHost.
    ASSUME NEW C, NEW text \in Seq(C), NEW i \in DOMAIN text, text[i] = ":", Has(text, ":"),
           NEW c, Has(Before(text, FirstOf(text, ":")), c)
    PROVE  Has(Before(text, i), c)
  <2> USE <1>LongerHost
  <2>1. PICK k : k = FirstOf(text, ":")
    BY Zenon
  <2>2. k \in DOMAIN text /\ ~(i < k)
    BY <2>1, <1>FirstAndLast, Zenon
  <2>3. PICK b, h : b = Before(text, i) /\ h = Before(text, k)
    BY Zenon
  <2>4. b \in Seq(C) /\ Len(b) = i - 1 /\ \A j \in 1..(i - 1) : b[j] = text[j]
    BY <2>3, <1>HostCut
  <2>5. h \in Seq(C) /\ Len(h) = k - 1 /\ \A j \in 1..(k - 1) : h[j] = text[j]
    BY <2>2, <2>3, <1>HostCut
  <2>6. PICK j \in 1..Len(h) : h[j] = c
    <3>1. Has(h, c)
      BY <2>1, <2>3, Zenon
    <3> QED BY <2>5, <3>1, <1>HasIs, Zenon
  <2>7. j \in 1..(k - 1) /\ j \in 1..(i - 1) /\ j \in 1..Len(b)
    BY <2>2, <2>4, <2>5
  <2>8. b[j] = c
    BY <2>4, <2>5, <2>6, <2>7, Zenon
  <2>9. Has(b, c)
    BY <2>4, <2>7, <2>8, <1>HasIs, Zenon
  <2> QED BY <2>3, <2>9, Zenon

<1> DEFINE
  (* The end of a text, k characters in. *)
  Ends(s, text, k) == Len(text) = k + Len(s) /\ \A j \in 1..Len(s) : s[j] = text[k + j]
<1> HIDE DEF Ends

<1>EndsIsAfter.
    ASSUME NEW C, NEW text \in Seq(C), NEW s \in Seq(C), NEW k \in Nat \ {0}, Ends(s, text, k)
    PROVE  k \in DOMAIN text /\ s = After(text, k)
  <2> USE <1>EndsIsAfter
  <2>1. PICK m \in Nat, n \in Nat : m = Len(s) /\ n = Len(text) /\ n = k + m /\ DOMAIN text = 1..n
    BY DEF Ends
  <2>2. k \in DOMAIN text
    BY <2>1
  <2>3. PICK a : a = After(text, k)
    BY Zenon
  <2>4. a \in Seq(C) /\ Len(a) = Len(text) - k /\ \A j \in 1..(Len(text) - k) : a[j] = text[k + j]
    BY <2>2, <2>3, <1>PathCut
  <2>5. Len(text) - k = Len(s)
    BY <2>1
  <2>6. \A j \in 1..Len(s) : s[j] = text[k + j]
    BY Zenon DEF Ends
  <2>7. Len(s) = Len(a) /\ \A j \in 1..Len(s) : s[j] = a[j]
    BY <2>4, <2>5, <2>6, Zenon
  <2>8. s = a
    BY <2>4, <2>7, SeqEqual, Zenon
  <2> QED BY <2>2, <2>3, <2>8, Zenon

<1>EndOfEnd.
    ASSUME NEW C, NEW t \in Seq(C), NEW u \in Seq(C), NEW s \in Seq(C), NEW k \in Nat, NEW l \in Nat,
           Ends(u, t, k), Ends(s, u, l)
    PROVE  Ends(s, t, k + l)
  <2> USE <1>EndOfEnd
  <2>1. PICK m \in Nat, n \in Nat, o \in Nat :
          m = Len(t) /\ n = Len(u) /\ o = Len(s) /\ m = k + n /\ n = l + o
    BY DEF Ends
  <2>2. ASSUME NEW j \in 1..o PROVE s[j] = t[(k + l) + j]
    <3>1. l + j \in 1..n /\ k + (l + j) = (k + l) + j
      BY <2>1
    <3>2. s[j] = u[l + j]
      BY <2>1 DEF Ends
    <3>3. u[l + j] = t[k + (l + j)]
      BY <2>1, <3>1 DEF Ends
    <3> QED BY <3>1, <3>2, <3>3
  <2>3. m = (k + l) + o
    BY <2>1
  <2> QED BY <2>1, <2>2, <2>3, Zenon DEF Ends

<1>TrimmedEnds.
    ASSUME NEW C, NEW text \in Seq(C)
    PROVE  TrimSlashes(text) \in Seq(C) /\ \E k \in Nat : Ends(TrimSlashes(text), text, k)
  <2> DEFINE kept == {i \in DOMAIN text : text[i] # "/"}
  <2>1. PICK n \in Nat : n = Len(text) /\ DOMAIN text = 1..n
    OBVIOUS
  <2>2. TrimSlashes(text) = IF kept = {} THEN <<>> ELSE SubSeq(text, Min(kept), n)
    BY <2>1, Zenon DEF TrimSlashes
  <2>3. CASE kept = {}
    <3>1. TrimSlashes(text) = <<>>
      BY <2>2, <2>3, Zenon
    <3>2. <<>> \in Seq(C) /\ Ends(<<>>, text, n)
      BY <2>1 DEF Ends
    <3> QED BY <2>1, <3>1, <3>2, Zenon
  <2>4. CASE kept # {}
    <3>1. PICK m : m = Min(kept)
      BY Zenon
    <3>2. kept \subseteq Nat
      BY <2>1
    <3>3. m \in kept
      <4> HIDE DEF kept
      <4> QED BY <2>4, <3>1, <3>2, FirstPlace, Zenon
    <3>4. m \in 1..n
      BY <2>1, <3>3
    <3> HIDE DEF kept
    <3>5. PICK s : s = SubSeq(text, m, n)
      BY Zenon
    <3>6. /\ s \in Seq(C) /\ Len(s) = n - m + 1
          /\ \A j \in 1..(n - m + 1) : s[j] = text[m + j - 1]
      <4>1. m \in Nat \ {0} /\ n \in Nat /\ m - 1 <= n /\ n <= Len(text)
        BY <2>1, <3>4
      <4> QED BY <3>5, <4>1, PartIs
    <3>7. ASSUME NEW j \in 1..Len(s) PROVE s[j] = text[(m - 1) + j]
      <4>1. j \in 1..(n - m + 1) /\ m + j - 1 = (m - 1) + j
        BY <3>4, <3>6
      <4> QED BY <3>6, <4>1
    <3>8. Len(text) = (m - 1) + Len(s) /\ m - 1 \in Nat
      BY <2>1, <3>4, <3>6
    <3>9. Ends(s, text, m - 1)
      BY <3>7, <3>8, Zenon DEF Ends
    <3>10. TrimSlashes(text) = s
      BY <2>2, <2>4, <3>1, <3>5, Zenon
    <3> QED BY <3>6, <3>8, <3>9, <3>10, Zenon
  <2> QED BY <2>3, <2>4, Zenon

(* A URL's host ends at its first slash, and its database name ends the text. *)
<1>GrpcParts.
    ASSUME NEW C, NEW text \in Seq(C), NEW e \in parse_grpc_parts(text)
    PROVE  /\ text # <<>> /\ Head(text) \in Schemes
           /\ e.kind = "grpc" /\ e.host # <<>> /\ ~Has(e.host, "/")
           /\ \E i \in DOMAIN text : e.path = After(text, i)
  <2>1. PICK rest : rest = Tail(text)
    BY Zenon
  <2>2. PICK host, path :
          /\ host = IF Has(rest, "/") THEN Before(rest, FirstOf(rest, "/")) ELSE rest
          /\ path = IF Has(rest, "/") THEN After(rest, FirstOf(rest, "/")) ELSE <<>>
    BY Zenon
  <2>3. /\ text # <<>> /\ Head(text) \in Schemes /\ host # <<>>
        /\ e = [kind |-> "grpc", host |-> host, path |-> TrimSlashes(path)]
    <3>1. e \in IF text = <<>> \/ Head(text) \notin Schemes THEN {}
                ELSE IF host = <<>> THEN {}
                ELSE {[kind |-> "grpc", host |-> host, path |-> TrimSlashes(path)]}
      BY <2>1, <2>2, Zenon DEF parse_grpc_parts
    <3> QED BY <3>1, Zenon
  <2>4. rest \in Seq(C) /\ Ends(rest, text, 1)
    <3>1. /\ rest \in Seq(C) /\ Len(rest) = Len(text) - 1
          /\ \A j \in 1..Len(rest) : rest[j] = text[j + 1]
      BY <2>1, <2>3
    <3>2. Len(text) = 1 + Len(rest)
      BY <3>1
    <3>3. ASSUME NEW j \in 1..Len(rest) PROVE rest[j] = text[1 + j]
      <4>1. j + 1 = 1 + j
        BY <3>1
      <4> QED BY <3>1, <4>1
    <3> QED BY <3>1, <3>2, <3>3, Zenon DEF Ends
  <2>5. /\ path \in Seq(C) /\ ~Has(host, "/")
        /\ \E k \in Nat : Ends(path, rest, k)
    <3>1. CASE Has(rest, "/")
      <4>1. PICK i : i = FirstOf(rest, "/")
        BY Zenon
      <4>2. i \in DOMAIN rest /\ \A j \in DOMAIN rest : j < i => rest[j] # "/"
        BY <2>4, <3>1, <4>1, <1>FirstAndLast, Zenon
      <4>3. host = Before(rest, i) /\ path = After(rest, i)
        BY <2>2, <3>1, <4>1, Zenon
      <4>4. /\ host \in Seq(C) /\ path \in Seq(C)
            /\ Len(host) = i - 1 /\ Len(path) = Len(rest) - i
            /\ \A j \in 1..(i - 1) : host[j] = rest[j]
            /\ \A j \in 1..(Len(rest) - i) : path[j] = rest[i + j]
        <5>1. /\ Before(rest, i) \in Seq(C) /\ After(rest, i) \in Seq(C)
              /\ Len(Before(rest, i)) = i - 1 /\ Len(After(rest, i)) = Len(rest) - i
              /\ \A j \in 1..(i - 1) : Before(rest, i)[j] = rest[j]
              /\ \A j \in 1..(Len(rest) - i) : After(rest, i)[j] = rest[i + j]
          <6>1. rest \in Seq(C) /\ i \in DOMAIN rest
            BY <2>4, <4>2, Zenon
          <6> QED BY <6>1, <1>Cut, Zenon
        <5> QED BY <4>3, <5>1, Zenon
      <4>5. ASSUME NEW j \in 1..Len(host) PROVE host[j] # "/"
        <5>1. j \in DOMAIN rest /\ j < i /\ j \in 1..(i - 1)
          BY <2>4, <4>2, <4>4
        <5> QED BY <4>2, <4>4, <5>1, Zenon
      <4>6. ~Has(host, "/")
        <5>1. host \in Seq(C) /\ ~\E j \in 1..Len(host) : host[j] = "/"
          BY <4>4, <4>5, Zenon
        <5> QED BY <5>1, <1>HasIs
      <4>7. i \in Nat /\ Len(rest) = i + Len(path) /\ Len(path) = Len(rest) - i
        <5>1. PICK n \in Nat, m \in Nat : n = Len(rest) /\ DOMAIN rest = 1..n /\ m = Len(path)
          <6>1. rest \in Seq(C) /\ path \in Seq(C)
            BY <2>4, <4>4, Zenon
          <6> QED BY <6>1
        <5>2. m = n - i /\ i \in 1..n
          BY <4>2, <4>4, <5>1, Zenon
        <5>3. i \in Nat /\ n = i + m
          BY <5>2
        <5> QED BY <5>1, <5>2, <5>3, Zenon
      <4>8. Ends(path, rest, i)
        BY <4>4, <4>7, Zenon DEF Ends
      <4> QED BY <4>4, <4>6, <4>7, <4>8, Zenon
    <3>2. CASE ~Has(rest, "/")
      <4>1. host = rest /\ path = <<>>
        BY <2>2, <3>2, Zenon
      <4>2. <<>> \in Seq(C) /\ Len(rest) \in Nat /\ Ends(<<>>, rest, Len(rest))
        BY <2>4 DEF Ends
      <4> QED BY <3>2, <4>1, <4>2, Zenon
    <3> QED BY <3>1, <3>2, Zenon
  <2>6. PICK k \in Nat : Ends(path, rest, k)
    BY <2>5, Zenon
  <2>7. PICK trimmed : trimmed = TrimSlashes(path)
    BY Zenon
  <2>8. trimmed \in Seq(C) /\ \E l \in Nat : Ends(trimmed, path, l)
    BY <2>5, <2>7, <1>TrimmedEnds, Zenon
  <2>9. PICK l \in Nat : Ends(trimmed, path, l)
    BY <2>8, Zenon
  <2>10. Ends(path, text, 1 + k)
    <3>1. rest \in Seq(C) /\ path \in Seq(C) /\ 1 \in Nat
      BY <2>4, <2>5
    <3> QED BY <2>4, <2>6, <3>1, <1>EndOfEnd, Zenon
  <2>11. Ends(trimmed, text, (1 + k) + l)
    <3>1. path \in Seq(C) /\ trimmed \in Seq(C) /\ 1 + k \in Nat
      BY <2>5, <2>8
    <3> QED BY <2>9, <2>10, <3>1, <1>EndOfEnd, Zenon
  <2>12. \E i \in DOMAIN text : trimmed = After(text, i)
    <3>1. (1 + k) + l \in Nat \ {0}
      OBVIOUS
    <3> QED BY <2>8, <2>11, <3>1, <1>EndsIsAfter, Zenon
  <2>13. e.kind = "grpc" /\ e.host = host /\ e.path = trimmed
    BY <2>3, <2>7
  <2> QED BY <2>3, <2>5, <2>12, <2>13, Zenon

(* An argument comes from a URL, from an SSH text, or is a path. *)
<1>EndpointFrom.
    ASSUME NEW text, NEW e, e = ParseEndpoint(text)
    PROVE  \/ e \in parse_grpc_parts(text)
           \/ e \in parse_remote_parts(text)
           \/ e = [kind |-> "local", host |-> <<>>, path |-> text]
  BY <1>EndpointFrom, Zenon DEF ParseEndpoint

<1> SUFFICES ASSUME NEW C, NEW text \in Seq(C)
             PROVE  PathsStayLocal(text)
  BY Zenon
<1> DEFINE url == text # <<>> /\ Head(text) \in Schemes
           bracket == text # <<>> /\ Head(text) = "["
<1>1. PICK e : e = ParseEndpoint(text)
  BY Zenon
<1>2. CASE e \in parse_grpc_parts(text)
  <2>1. /\ url /\ e.kind = "grpc" /\ e.host # <<>>
        /\ ~Has(e.host, "/") /\ \E i \in DOMAIN text : e.path = After(text, i)
    BY <1>2, <1>GrpcParts, Zenon
  <2>2. e.kind # "ssh"
    BY <2>1
  <2> QED BY <1>1, <2>1, <2>2, Zenon DEF PathsStayLocal
<1>3. CASE e \in Bracketed(text)
  <2>1. /\ bracket /\ e.kind = "ssh" /\ e.host # <<>> /\ e.path # <<>>
        /\ text = <<"[">> \o e.host \o <<"]", ":">> \o e.path
    BY <1>3, <1>BracketParts, Zenon
  <2>2. e.kind # "grpc"
    BY <2>1
  <2> QED BY <1>1, <2>1, <2>2, Zenon DEF PathsStayLocal
<1>4. CASE e \in parse_remote_parts(text) /\ e \notin Bracketed(text)
  <2>1. PICK i \in DOMAIN text :
          /\ text[i] = ":" /\ Has(text, ":")
          /\ e.kind = "ssh" /\ e.host = Before(text, i) /\ e.path = After(text, i)
          /\ is_remote_candidate(e.host, e.path)
          /\ e.host \in Addresses \/ i = FirstOf(text, ":")
    BY <1>4, <1>ColonParts, Zenon
  <2>2. e.host # <<>> /\ e.path # <<>> /\ ~Has(e.host, "/")
    BY <2>1, Zenon DEF is_remote_candidate, looks_like_remote_host
  <2>3. text = e.host \o <<":">> \o e.path
    BY <2>1, <1>Rejoined, Zenon
  <2>4. Has(e.host, ":") => e.host \in Addresses
    BY <2>1, <1>FirstHost, Zenon
  <2>5. ~Has(Before(text, FirstOf(text, ":")), "/")
    BY <2>1, <2>2, <1>LongerHost, Zenon
  <2>6. e.kind # "grpc"
    BY <2>1
  <2> QED BY <1>1, <2>1, <2>2, <2>3, <2>4, <2>5, <2>6, Zenon DEF PathsStayLocal
<1>5. CASE e = [kind |-> "local", host |-> <<>>, path |-> text]
  <2>1. e.kind = "local" /\ e.path = text /\ e.kind # "ssh" /\ e.kind # "grpc"
    BY <1>5
  <2> QED BY <1>1, <2>1, Zenon DEF PathsStayLocal
<1> QED BY <1>1, <1>2, <1>3, <1>4, <1>5, <1>EndpointFrom, Zenon

-----------------------------------------------------------------------------
(* Names and lists of databases *)

(* OneLockPerFile holds of every name. *)
LEMMA LockOfFile ==
  ASSUME WellOrdered
  PROVE  \A C : \A name \in Seq(C) : OneLockPerFile(name)
<1>ConcatFirst.
    ASSUME NEW C, NEW parts \in Seq(Seq(C)), parts # <<>>,
           \A i \in 2..Len(parts) : parts[i] = <<>>
    PROVE  Concat(parts) = parts[1]
  <2> USE <1>ConcatFirst
  <2>1. PICK n \in Nat : n = Len(parts) /\ n >= 1
    OBVIOUS
  <2>2. PICK f : f = Concats(parts)
    BY Zenon
  <2>3. /\ f[0] = <<>> /\ \A i \in 1..n : f[i] = f[i - 1] \o parts[i]
    BY <2>1, <2>2, ConcatsIs, Zenon
  <2>4. PICK s \in Seq(C) : s = parts[1]
    BY <2>1
  <2> DEFINE T == {i \in 0..n : i = 0 \/ f[i] = s}
  <2>5. \A i \in 0..n : i \in T
    <3>1. 0 \in T
      BY <2>1
    <3>2. ASSUME NEW i \in 1..n, i - 1 \in T PROVE i \in T
      <4>1. f[i] = f[i - 1] \o parts[i]
        BY <2>3, Zenon
      <4>2. CASE i = 1
        <5>1. f[i - 1] = <<>> /\ parts[i] = s
          BY <2>3, <2>4, <4>2
        <5>2. <<>> \o s = s
          OBVIOUS
        <5>3. i \in 0..n
          OBVIOUS
        <5> QED BY <4>1, <5>1, <5>2, <5>3, Zenon
      <4>3. CASE i # 1
        <5>1. i \in 2..Len(parts) /\ i - 1 # 0 /\ i \in 0..n
          BY <2>1, <4>3
        <5>2. f[i - 1] = s /\ parts[i] = <<>>
          BY <3>2, <5>1, Zenon
        <5>3. s \o <<>> = s
          OBVIOUS
        <5> QED BY <4>1, <5>1, <5>2, <5>3, Zenon
      <4> QED BY <4>2, <4>3, Zenon
    <3> HIDE DEF T
    <3> QED BY <3>1, <3>2, Upwards, Zenon
  <2>6. n \in 0..n /\ n # 0
    BY <2>1
  <2>7. f[n] = s
    BY <2>5, <2>6, Zenon
  <2> QED BY <2>1, <2>2, <2>4, <2>7, Zenon DEF Concat

<1>TrimIs.
    ASSUME NEW C, NEW name \in Seq(C)
    PROVE  trim(name) \in Seq(C) /\ Range(trim(name)) \subseteq Range(name)
  <2> DEFINE ink == {i \in DOMAIN name : name[i] # "sp"}
  <2>1. PICK n \in Nat : n = Len(name) /\ DOMAIN name = 1..n
    OBVIOUS
  <2>2. trim(name) = IF ink = {} THEN <<>> ELSE SubSeq(name, Min(ink), Max(ink))
    BY Zenon DEF trim
  <2>3. ink \subseteq Nat /\ ink \subseteq 0..n /\ ink \subseteq 1..n
    BY <2>1
  <2> HIDE DEF ink
  <2>4. CASE ink = {}
    <3>1. trim(name) = <<>>
      BY <2>2, <2>4, Zenon
    <3> QED BY <3>1 DEF Range
  <2>5. CASE ink # {}
    <3>1. PICK a, b : a = Min(ink) /\ b = Max(ink)
      BY Zenon
    <3>2. a \in ink /\ \A y \in ink : a <= y
      BY <2>3, <2>5, <3>1, FirstPlace, Zenon
    <3>3. b \in ink
      BY <2>3, <2>5, <3>1, LastPlace, Zenon
    <3>4. a \in 1..n /\ b \in 1..n /\ a <= b
      BY <2>3, <3>2, <3>3, Zenon
    <3>5. PICK s : s = SubSeq(name, a, b)
      BY Zenon
    <3>6. /\ s \in Seq(C) /\ Len(s) = b - a + 1
          /\ \A j \in 1..(b - a + 1) : s[j] = name[a + j - 1]
      <4>1. a \in Nat \ {0} /\ b \in Nat /\ a - 1 <= b /\ b <= Len(name)
        BY <2>1, <3>4
      <4> QED BY <3>5, <4>1, PartIs
    <3>7. ASSUME NEW j \in DOMAIN s PROVE s[j] \in Range(name)
      <4>1. j \in 1..(b - a + 1) /\ a + j - 1 \in DOMAIN name
        BY <2>1, <3>4, <3>6
      <4> QED BY <3>6, <4>1, Zenon DEF Range
    <3>8. Range(s) \subseteq Range(name)
      BY <3>7, Zenon DEF Range
    <3>9. trim(name) = s
      BY <2>2, <2>5, <3>1, <3>5, Zenon
    <3> QED BY <3>6, <3>8, <3>9, Zenon
  <2> QED BY <2>4, <2>5, Zenon

(* A name without a slash is one component. *)
<1>OneComponent.
    ASSUME NEW C, NEW t \in Seq(C), t # <<>>, "/" \notin Range(t), AllNormal(t)
    PROVE  components(t) = <<t>>
  <2> USE <1>OneComponent
  <2>1. PICK n \in Nat : n = Len(t) /\ DOMAIN t = 1..n /\ n >= 1
    OBVIOUS
  <2>2. \A j \in 1..n : t[j] # "/"
    BY <2>1, Zenon DEF Range
  <2>3. Starts(t) = {1}
    <3>1. ASSUME NEW i \in 1..(n + 1), i # 1 PROVE t[i - 1] # "/"
      <4>1. i - 1 \in 1..n
        BY <3>1
      <4> QED BY <2>2, <4>1, Zenon
    <3>2. 1 \in 1..(n + 1)
      BY <2>1
    <3> QED BY <2>1, <3>1, <3>2, Zenon DEF Starts
  <2>4. ASSUME NEW i \in 1..(n + 1) PROVE Part(t, i) = SubSeq(t, i, n)
    <3>1. {j \in i..n : t[j] = "/"} = {}
      <4>1. \A j \in i..n : j \in 1..n
        OBVIOUS
      <4> QED BY <2>2, <4>1, Zenon
    <3>2. Min({n + 1}) = n + 1
      <4>1. {n + 1} \subseteq Nat /\ {n + 1} # {}
        OBVIOUS
      <4>2. Min({n + 1}) \in {n + 1}
        BY <4>1, FirstPlace, Zenon
      <4> QED BY <4>2, Zenon
    <3>3. {j \in i..n : t[j] = "/"} \cup {n + 1} = {n + 1}
      BY <3>1, Zenon
    <3>4. Part(t, i) = SubSeq(t, i, Min({n + 1}) - 1)
      BY <2>1, <3>3, Zenon DEF Part
    <3>5. (n + 1) - 1 = n
      OBVIOUS
    <3> QED BY <3>2, <3>4, <3>5, Zenon
  <2>5. Part(t, 1) = t
    <3>1. 1 \in 1..(n + 1) /\ SubSeq(t, 1, n) = t
      BY <2>1
    <3> QED BY <2>4, <3>1, Zenon
  <2>6. \A i \in 1..(n + 1) : Part(t, i) \in Seq(C)
    <3>1. \A i \in 1..(n + 1) : SubSeq(t, i, n) \in Seq(C)
      BY <2>1
    <3> QED BY <2>4, <3>1, Zenon
  <2> DEFINE all == [i \in 1..(n + 1) |-> Part(t, i)]
             places == {i \in Starts(t) : Part(t, i) \notin {<<>>, <<".">>}}
             parts == [i \in 1..(n + 1) |-> IF i \in {1} THEN <<Part(t, i)>> ELSE <<>>]
  <2>7. places = {1}
    BY <2>3, Zenon DEF AllNormal
  <2>8. components(t) = Concat(parts)
    <3>1. components(t) = At(all, places)
      BY <2>1, Zenon DEF components
    <3>2. DOMAIN all = 1..(n + 1)
      BY Zenon
    <3> HIDE DEF places
    <3>3. At(all, places) = Concat([i \in 1..(n + 1) |-> IF i \in {1} THEN <<all[i]>> ELSE <<>>])
      BY <2>7, <3>2, Zenon DEF At
    <3>4. [i \in 1..(n + 1) |-> IF i \in {1} THEN <<all[i]>> ELSE <<>>] = parts
      BY Zenon
    <3> QED BY <3>1, <3>3, <3>4, Zenon
  <2>9. PICK ps : ps = parts
    BY Zenon
  <2>10. ps \in Seq(Seq(Seq(C))) /\ Len(ps) = n + 1
    <3>1. \A i \in 1..(n + 1) : <<Part(t, i)>> \in Seq(Seq(C)) /\ <<>> \in Seq(Seq(C))
      BY <2>6
    <3>2. ps \in [1..(n + 1) -> Seq(Seq(C))]
      BY <2>9, <3>1, Zenon
    <3> QED BY <3>2
  <2>11. ps # <<>>
    BY <2>10
  <2>12. ps[1] = <<t>> /\ \A i \in 2..(n + 1) : ps[i] = <<>>
    <3>1. 1 \in 1..(n + 1) /\ \A i \in 2..(n + 1) : i \in 1..(n + 1) /\ i # 1
      BY <2>1
    <3> QED BY <2>5, <2>9, <3>1, Zenon
  <2>13. Concat(ps) = ps[1]
    BY <2>10, <2>11, <2>12, <1>ConcatFirst, Zenon
  <2> QED BY <2>8, <2>9, <2>12, <2>13, Zenon

<1> SUFFICES ASSUME NEW C, NEW name \in Seq(C)
             PROVE  OneLockPerFile(name)
  BY Zenon
<1> SUFFICES ASSUME "/" \notin Range(name), NEW path \in resolve_db_path(name)
             PROVE  path = <<get_db_lock(name)>>
  BY Zenon DEF OneLockPerFile
<1>1. PICK t : t = trim(name)
  BY Zenon
<1>2. t \in Seq(C) /\ "/" \notin Range(t)
  BY <1>1, <1>TrimIs, Zenon
<1>3. t # <<>> /\ AllNormal(t) /\ path = components(t)
  BY <1>1, Zenon DEF resolve_db_path
<1>4. components(t) = <<t>>
  BY <1>2, <1>3, <1>OneComponent, Zenon
<1> QED BY <1>1, <1>3, <1>4, Zenon DEF get_db_lock

(* ListingIsComplete holds of every walk: up to a file, the listing has failed
   if something ended it, and has every database that can be read otherwise. *)
LEMMA ListsComplete ==
  ASSUME WellOrdered
  PROVE  \A P : \A walk \in Seq(FileOf(P)) : ListingIsComplete(walk)
<1> DEFINE
  (* The states of a listing, and what a file does to it. *)
  ListStates(P) == [names : SUBSET P, error : BOOLEAN]
  Shown(file) == file.kind = "file" /\ open_and_count(file) = "row"
  Stops(file) == file.kind = "closed" \/ (file.kind = "file" /\ open_and_count(file) = "busy")
<1> HIDE DEF ListStates, Shown, Stops

<1>ListFileIs.
    ASSUME NEW P, NEW list \in ListStates(P), NEW file \in FileOf(P)
    PROVE  ListFile(list, file) =
             [names |-> IF Shown(file) THEN list.names \cup {file.path} ELSE list.names,
              error |-> IF Stops(file) THEN TRUE ELSE list.error]
  <2>1. list = [names |-> list.names, error |-> list.error]
    BY DEF ListStates
  <2>2. PICK yes : yes = TRUE
    BY Zenon
  <2>3. [list EXCEPT !.error = yes] = [names |-> list.names, error |-> yes]
    BY DEF ListStates
  <2>4. [list EXCEPT !.names = list.names \cup {file.path}]
          = [names |-> list.names \cup {file.path}, error |-> list.error]
    BY DEF ListStates
  <2>5. CASE file.kind = "closed"
    <3>1. file.kind # "file"
      BY <2>5
    <3>2. ListFile(list, file) = [list EXCEPT !.error = yes]
      BY <2>2, <2>5, <3>1, Zenon DEF ListFile
    <3> QED BY <2>2, <2>3, <2>5, <3>1, <3>2, Zenon DEF Shown, Stops
  <2>6. CASE file.kind = "file" /\ open_and_count(file) = "row"
    <3>1. file.kind # "closed" /\ open_and_count(file) # "busy"
      BY <2>6
    <3>2. ListFile(list, file) = [list EXCEPT !.names = list.names \cup {file.path}]
      BY <2>6, <3>1, Zenon DEF ListFile
    <3> QED BY <2>4, <2>6, <3>1, <3>2, Zenon DEF Shown, Stops
  <2>7. CASE file.kind = "file" /\ open_and_count(file) = "busy"
    <3>1. file.kind # "closed" /\ open_and_count(file) # "row"
      BY <2>7
    <3>2. ListFile(list, file) = [list EXCEPT !.error = yes]
      BY <2>2, <2>7, <3>1, Zenon DEF ListFile
    <3> QED BY <2>2, <2>3, <2>7, <3>1, <3>2, Zenon DEF Shown, Stops
  <2>8. CASE /\ file.kind # "closed"
             /\ ~(file.kind = "file" /\ open_and_count(file) = "row")
             /\ ~(file.kind = "file" /\ open_and_count(file) = "busy")
    <3>1. ListFile(list, file) = list
      BY <2>8, Zenon DEF ListFile
    <3> QED BY <2>1, <2>8, <3>1, Zenon DEF Shown, Stops
  <2> QED BY <2>5, <2>6, <2>7, <2>8, Zenon

(* What the answers of a file come to. *)
<1>FileIs.
    ASSUME NEW P, NEW file \in FileOf(P)
    PROVE  /\ Shown(file) <=> CanBeRead(file)
           /\ Stops(file) => file.kind = "closed" \/ StaysLocked(file)
           /\ LockedAtWorst(file) => Shown(file) \/ Stops(file)
           /\ file.kind = "closed" => Stops(file)
  <2>1. PICK p, q : p = file.page_size /\ q = file.page_count
    BY Zenon
  <2>2. p \in Answers /\ q \in Answers
    BY <2>1 DEF FileOf
  <2>3. PICK x, y : x = query_pragma_u32(p) /\ y = query_pragma_u32(q)
    BY Zenon
  <2>4. open_and_count(file) = IF x = "row" THEN y ELSE x
    BY <2>1, <2>3, Zenon DEF open_and_count
  <2>5. ASSUME NEW a \in Answers
        PROVE  /\ query_pragma_u32(a) = "row" <=> a.waits <= MaxRetries /\ a.then = "row"
               /\ a.wait = "busy" /\ a.then # "error" => query_pragma_u32(a) \in {"row", "busy"}
    BY DEF Answers, query_pragma_u32
  <2>6. /\ x = "row" <=> p.waits <= MaxRetries /\ p.then = "row"
        /\ y = "row" <=> q.waits <= MaxRetries /\ q.then = "row"
        /\ p.wait = "busy" /\ p.then # "error" => x \in {"row", "busy"}
        /\ q.wait = "busy" /\ q.then # "error" => y \in {"row", "busy"}
    BY <2>2, <2>3, <2>5, Zenon
  <2>7. /\ x = IF p.waits <= MaxRetries THEN p.then ELSE p.wait
        /\ y = IF q.waits <= MaxRetries THEN q.then ELSE q.wait
    BY <2>3, Zenon DEF query_pragma_u32
  <2>8. "row" # "busy"
    OBVIOUS
  <2>9. Shown(file) <=> CanBeRead(file)
    BY <2>1, <2>4, <2>6, Zenon DEF Shown, CanBeRead
  <2>10. Stops(file) => file.kind = "closed" \/ StaysLocked(file)
    BY <2>1, <2>4, <2>7, Zenon DEF Stops, StaysLocked
  <2>11. LockedAtWorst(file) => Shown(file) \/ Stops(file)
    BY <2>1, <2>4, <2>6, Zenon DEF LockedAtWorst, Shown, Stops
  <2> QED BY <2>9, <2>10, <2>11, Zenon DEF Stops

<1>ListingIs.
    ASSUME NEW P, NEW walk \in Seq(FileOf(P))
    PROVE  LET list == collect_databases(walk) IN
           /\ list[0] = [names |-> {}, error |-> FALSE]
           /\ \A i \in 1..Len(walk) :
                list[i] = IF list[i - 1].error THEN list[i - 1] ELSE ListFile(list[i - 1], walk[i])
           /\ \A i \in 0..Len(walk) : list[i] \in ListStates(P)
  <2> DEFINE n == Len(walk)
             S == ListStates(P)
             none == [names |-> {}, error |-> FALSE]
             op(i, s) == IF s.error THEN s ELSE ListFile(s, walk[i])
             step == [i \in 1..n |-> [s \in S |-> op(i, s)]]
             Step(f) == [i \in 0..n |-> IF i = 0 THEN none ELSE op(i, f[i - 1])]
  <2>1. n \in Nat /\ none \in S /\ \A i \in 1..n, s \in S : op(i, s) \in S
    <3>1. none \in S
      BY DEF ListStates
    <3>2. ASSUME NEW i \in 1..n, NEW s \in S PROVE op(i, s) \in S
      <4>1. walk[i] \in FileOf(P) /\ s.names \in SUBSET P /\ s.error \in BOOLEAN
        BY DEF ListStates
      <4>2. walk[i].path \in P
        BY <4>1 DEF FileOf
      <4>3. PICK t : t = ListFile(s, walk[i])
        BY Zenon
      <4>4. t = [names |-> IF Shown(walk[i]) THEN s.names \cup {walk[i].path} ELSE s.names,
                 error |-> IF Stops(walk[i]) THEN TRUE ELSE s.error]
        BY <4>1, <4>3, <1>ListFileIs, Zenon
      <4>5. t \in S
        BY <4>1, <4>2, <4>4, Zenon DEF ListStates
      <4> QED BY <4>3, <4>5, Zenon
    <3> QED BY <3>1, <3>2
  <2>2. collect_databases(walk) = CHOOSE f : f = Step(f)
    BY Zenon DEF collect_databases
  <2> HIDE DEF n, S, op, none
  <2>3. PICK f \in [0..n -> S] : IsRow(f, n, none, step)
    <3>1. step \in [1..n -> [S -> S]]
      BY <2>1
    <3> HIDE DEF step
    <3> QED BY <2>1, <3>1, Rows, Zenon
  <2>4. f = Step(f)
    <3>1. f[0] = none
      BY <2>3, Zenon DEF IsRow
    <3>2. ASSUME NEW i \in 1..n PROVE f[i] = op(i, f[i - 1])
      <4>1. f[i - 1] \in S
        BY <2>1
      <4>2. step[i][f[i - 1]] = op(i, f[i - 1])
        BY <4>1, Zenon
      <4> QED BY <2>3, <4>2, Zenon DEF IsRow
    <3> QED BY <2>1, <3>1, <3>2
  <2>5. PICK g : g = collect_databases(walk) /\ g = Step(g)
    BY <2>2, <2>4, Zenon
  <2>6. g[0] = none /\ \A i \in 1..n : g[i] = op(i, g[i - 1])
    BY <2>1, <2>5
  <2>7. \A i \in 0..n : g[i] \in S
    BY <2>1, <2>6, RowsTyped, Zenon
  <2> QED BY <2>5, <2>6, <2>7, Zenon DEF n, S, op, none

<1> SUFFICES ASSUME NEW P, NEW walk \in Seq(FileOf(P))
             PROVE  ListingIsComplete(walk)
  BY Zenon
<1>1. PICK n \in Nat : n = Len(walk) /\ DOMAIN walk = 1..n /\ \A i \in 1..n : walk[i] \in FileOf(P)
  OBVIOUS
<1>2. PICK list : list = collect_databases(walk)
  BY Zenon
<1>3. /\ list[0] = [names |-> {}, error |-> FALSE]
      /\ \A i \in 1..n :
           list[i] = IF list[i - 1].error THEN list[i - 1] ELSE ListFile(list[i - 1], walk[i])
      /\ \A i \in 0..n : list[i] \in ListStates(P)
  BY <1>1, <1>2, <1>ListingIs, Zenon
<1> DEFINE Dbs(i) == {j \in 1..i : Shown(walk[j])}
           Fails(i) == \E j \in 1..i : Stops(walk[j])
           Names(i) == {walk[j].path : j \in Dbs(i)}
           T == {i \in 0..n : /\ list[i].error <=> Fails(i)
                              /\ ~list[i].error => list[i].names = Names(i)}
<1>4. \A i \in 0..n : i \in T
  <2>1. 0 \in T
    <3>1. 0 \in 0..n /\ 1..0 = {}
      OBVIOUS
    <3>2. list[0].error = FALSE /\ list[0].names = {}
      BY <1>3
    <3> QED BY <3>1, <3>2, Zenon
  <2>2. ASSUME NEW i \in 1..n, i - 1 \in T PROVE i \in T
    <3>1. i \in 0..n /\ i - 1 \in 0..n /\ 1..i = 1..(i - 1) \cup {i}
      BY <1>1
    <3>2. PICK s \in ListStates(P) : s = list[i - 1]
      BY <1>3, <3>1, Zenon
    <3>a. PICK t : t = list[i]
      BY Zenon
    <3>3. /\ s.error <=> Fails(i - 1)
          /\ ~s.error => s.names = Names(i - 1)
      BY <2>2, <3>2, Zenon
    <3>4. Fails(i) <=> Fails(i - 1) \/ Stops(walk[i])
      BY <3>1, Zenon
    <3>5. Names(i) = IF Shown(walk[i]) THEN Names(i - 1) \cup {walk[i].path} ELSE Names(i - 1)
      BY <3>1, Zenon
    <3> HIDE DEF Fails, Names
    <3>6. CASE s.error
      <4>1. t = s
        BY <1>3, <3>2, <3>a, <3>6, Zenon
      <4> QED BY <3>1, <3>2, <3>a, <3>3, <3>4, <3>6, <4>1, Zenon
    <3>7. CASE ~s.error
      <4>1. t = ListFile(s, walk[i])
        BY <1>3, <3>2, <3>a, <3>7, Zenon
      <4>2. t = [names |-> IF Shown(walk[i]) THEN s.names \cup {walk[i].path} ELSE s.names,
                 error |-> IF Stops(walk[i]) THEN TRUE ELSE s.error]
        BY <1>1, <4>1, <1>ListFileIs, Zenon
      <4>3. t.error <=> Fails(i)
        <5>1. t.error = IF Stops(walk[i]) THEN TRUE ELSE s.error
          BY <4>2
        <5> QED BY <3>3, <3>4, <3>7, <5>1, Zenon
      <4>4. ~t.error => t.names = Names(i)
        <5>1. t.names = IF Shown(walk[i]) THEN s.names \cup {walk[i].path} ELSE s.names
          BY <4>2
        <5>2. t.error = IF Stops(walk[i]) THEN TRUE ELSE s.error
          BY <4>2
        <5> QED BY <3>3, <3>5, <3>7, <5>1, <5>2, Zenon
      <4> QED BY <3>1, <3>a, <4>3, <4>4, Zenon
    <3> QED BY <3>6, <3>7, Zenon
  <2> HIDE DEF T
  <2> QED BY <2>1, <2>2, Upwards, Zenon
<1>5. n \in 0..n
  OBVIOUS
<1>6. PICK last \in ListStates(P) : last = list[n]
  BY <1>3, <1>5, Zenon
<1>7. (last.error <=> Fails(n)) /\ (~last.error => last.names = Names(n))
  BY <1>4, <1>5, <1>6, Zenon
<1>8. Names(n) = Paths(walk, CanBeRead)
  <2>1. \A j \in 1..n : Shown(walk[j]) <=> CanBeRead(walk[j])
    BY <1>1, <1>FileIs, Zenon
  <2>2. Paths(walk, CanBeRead) = {walk[j].path : j \in {j \in 1..n : CanBeRead(walk[j])}}
    BY <1>1, Zenon DEF Paths
  <2>3. Dbs(n) = {j \in 1..n : CanBeRead(walk[j])}
    BY <2>1, Zenon
  <2> QED BY <2>2, <2>3, Zenon
<1>9. ASSUME Fails(n) PROVE \E i \in DOMAIN walk : walk[i].kind = "closed" \/ StaysLocked(walk[i])
  BY <1>1, <1>9, <1>FileIs, Zenon
<1>10. ASSUME ~Fails(n)
       PROVE  /\ \A i \in DOMAIN walk : walk[i].kind # "closed"
              /\ Paths(walk, LockedAtWorst) \subseteq Paths(walk, CanBeRead)
  <2>1. \A j \in 1..n : walk[j].kind # "closed"
    BY <1>1, <1>10, <1>FileIs, Zenon
  <2>2. \A j \in 1..n : LockedAtWorst(walk[j]) => CanBeRead(walk[j])
    BY <1>1, <1>10, <1>FileIs, Zenon
  <2>3. Paths(walk, LockedAtWorst) \subseteq Paths(walk, CanBeRead)
    BY <1>1, <2>2, Zenon DEF Paths
  <2> QED BY <1>1, <2>1, <2>3, Zenon
<1>11. PICK l : l = list_databases(walk)
  BY Zenon
<1>12. l = IF last.error THEN [names |-> {}, error |-> TRUE] ELSE last
  BY <1>1, <1>2, <1>6, <1>11, Zenon DEF list_databases
<1>13. l.error <=> last.error
  BY <1>12 DEF ListStates
<1>14. ~l.error => l.names = Paths(walk, CanBeRead)
  BY <1>7, <1>8, <1>12, <1>13, Zenon
<1> HIDE DEF Fails
<1> QED BY <1>7, <1>9, <1>10, <1>11, <1>13, <1>14, Zenon DEF ListingIsComplete

(* RoundLosesNothing holds of every walk and every round: the status names all
   databases of the writer that can be read, or none. *)
LEMMA RoundKeeps ==
  ASSUME WellOrdered, NEW P, NEW walk \in Seq(FileOf(P)), NEW round
  PROVE  RoundLosesNothing(walk, round)
<1>1. PICK all, locked : all = Paths(walk, CanBeRead) /\ locked = Paths(walk, LockedAtWorst)
  BY Zenon
<1>2. PICK dbs : dbs = status_databases(walk)
  BY Zenon
<1>3. dbs = {} \/ (dbs = all /\ locked \subseteq all)
  <2>1. ListingIsComplete(walk)
    BY ListsComplete, Zenon
  <2>2. ~list_databases(walk).error => list_databases(walk).names = all /\ locked \subseteq all
    BY <1>1, <2>1, Zenon DEF ListingIsComplete
  <2>3. list_databases(walk).error => list_databases(walk).names = {}
    <3>1. PICK last : last = collect_databases(walk)[Len(walk)]
      BY Zenon
    <3>2. PICK failed : failed = [names |-> {}, error |-> TRUE]
      BY Zenon
    <3>3. list_databases(walk) = IF last.error THEN failed ELSE last
      BY <3>1, <3>2, Zenon DEF list_databases
    <3>4. failed.names = {}
      BY <3>2
    <3> QED BY <3>3, <3>4, Zenon
  <2> QED BY <1>2, <2>2, <2>3, Zenon DEF status_databases
<1>4. PICK r : r = default_replica_sync(round, dbs)
  BY Zenon
<1>5. PICK listed, wanted :
        /\ listed = Listed(round, dbs)
        /\ wanted = IF round.configured # {} THEN round.configured ELSE all
  BY Zenon
<1> DEFINE held == (round.local \cup r.pulled) \ r.removed
<1>6. SUFFICES /\ round.configured = {} => r.removed \cap locked = {}
               /\ r.removed # {} => r.pulled = wanted
               /\ r.exit = 0 /\ r.pulled # {} =>
                    wanted \subseteq held /\ Stale(held, wanted) \subseteq round.spared
  BY <1>1, <1>2, <1>4, <1>5, Zenon DEF RoundLosesNothing
<1>7. ASSUME NEW exit, r = Untouched(exit)
      PROVE  r.pulled = {} /\ r.removed = {}
  BY <1>7 DEF Untouched
<1>8. CASE r = Untouched(0) \/ r = Untouched(1)
  <2>1. r.pulled = {} /\ r.removed = {}
    BY <1>7, <1>8, Zenon
  <2> QED BY <2>1, Zenon
<1>9. CASE r = Pull(round, listed) /\ listed # {}
  <2>1. listed = wanted /\ (round.configured = {} => locked \subseteq listed)
    BY <1>3, <1>5, <1>9, Zenon DEF Listed
  <2>2. PICK stale : stale = Stale(round.local, listed)
    BY Zenon
  <2>3. PICK ok \in BOOLEAN : ok = (listed \cap round.failing = {})
    BY Zenon
  <2>4. PICK gone : gone = stale \ (round.spared \cup round.stuck)
    BY Zenon
  <2>5. PICK clear \in BOOLEAN : clear = ((stale \cap round.stuck) \ round.spared = {})
    BY Zenon
  <2>6. r = [exit |-> IF ok /\ clear THEN 0 ELSE 1, pulled |-> listed \ round.failing,
             removed |-> IF ok THEN gone ELSE {}]
    BY <1>9, <2>2, <2>3, <2>4, <2>5, Zenon DEF Pull
  <2>7. /\ r.exit = (IF ok /\ clear THEN 0 ELSE 1) /\ r.pulled = listed \ round.failing
        /\ r.removed = IF ok THEN gone ELSE {}
    BY <2>6
  <2>8. gone \cap listed = {}
    BY <2>2, <2>4, Zenon DEF Stale
  <2>9. round.configured = {} => r.removed \cap locked = {}
    BY <2>1, <2>7, <2>8, Zenon
  <2>10. ok => r.pulled = wanted
    BY <2>1, <2>3, <2>7, Zenon
  <2>11. r.removed # {} => ok
    BY <2>7, Zenon
  <2>12. r.exit = 0 => ok /\ clear
    BY <2>7
  <2>13. ASSUME ok, clear
         PROVE  wanted \subseteq held /\ Stale(held, wanted) \subseteq round.spared
    <3>1. r.pulled = wanted /\ r.removed = gone
      BY <2>7, <2>10, <2>13, Zenon
    <3>2. wanted \subseteq held
      BY <2>1, <2>8, <3>1, Zenon
    <3>3. ASSUME NEW path \in Stale(held, wanted) PROVE path \in round.spared
      <4>1. /\ path \in held /\ Len(path) = 1 /\ path[1] \in DbFiles /\ path \notin wanted
        BY Zenon DEF Stale
      <4>2. path \in round.local /\ path \notin gone
        BY <3>1, <4>1, Zenon
      <4>3. path \in stale
        BY <2>1, <2>2, <4>1, <4>2, Zenon DEF Stale
      <4> QED BY <2>4, <2>5, <2>13, <4>2, <4>3, Zenon
    <3> QED BY <3>2, <3>3, Zenon
  <2> QED BY <2>9, <2>10, <2>11, <2>12, <2>13, Zenon
<1>10. r \in {Untouched(0), Untouched(1)} \/ (r = Pull(round, listed) /\ listed # {})
  BY <1>4, <1>5, Zenon DEF default_replica_sync
<1> QED BY <1>8, <1>9, <1>10, Zenon

-----------------------------------------------------------------------------
(* Options, commands and sessions *)

(* TargetFollowsOptions holds of all options. *)
LEMMA OptionsFollowed ==
  \A o : OptionsFilled(o) => TargetFollowsOptions(o)
<1>DiscoveryIs.
    ASSUME NEW o, NEW d, d = discovery(o)
    PROVE  \/ /\ d[1] = "direct" /\ d[2] = o.endpoint /\ o.endpoint # ""
           \/ /\ d[1] = "custom" /\ d[2] = o.kube_lease /\ o.endpoint = "" /\ o.kube_lease # ""
           \/ /\ d[1] = "candidates" /\ o.endpoint = "" /\ o.kube_lease = "" /\ o.endpoints # ""
           \/ /\ d[1] = "direct" /\ d[2] = "localhost"
              /\ o.endpoint = "" /\ o.kube_lease = "" /\ o.endpoints = ""
  <2> USE <1>DiscoveryIs
  <2>1. CASE o.endpoint # ""
    <3>1. d = <<"direct", o.endpoint>>
      BY <2>1, Zenon DEF discovery
    <3>2. d[1] = "direct" /\ d[2] = o.endpoint
      BY <3>1
    <3> QED BY <2>1, <3>2, Zenon
  <2>2. CASE o.endpoint = "" /\ o.kube_lease # ""
    <3>1. d = <<"custom", o.kube_lease>>
      BY <2>2, Zenon DEF discovery
    <3>2. d[1] = "custom" /\ d[2] = o.kube_lease
      BY <3>1
    <3> QED BY <2>2, <3>2, Zenon
  <2>3. CASE o.endpoint = "" /\ o.kube_lease = "" /\ o.endpoints # ""
    <3>1. d = <<"candidates", o.endpoints>>
      BY <2>3, Zenon DEF discovery
    <3>2. d[1] = "candidates" /\ d[2] = o.endpoints
      BY <3>1
    <3> QED BY <2>3, <3>2, Zenon
  <2>4. CASE o.endpoint = "" /\ o.kube_lease = "" /\ o.endpoints = ""
    <3>1. d = <<"direct", "localhost">>
      BY <2>4, Zenon DEF discovery
    <3>2. d[1] = "direct" /\ d[2] = "localhost"
      BY <3>1
    <3> QED BY <2>4, <3>2, Zenon
  <2> QED BY <2>1, <2>2, <2>3, <2>4, Zenon

<1>TargetIs.
    ASSUME NEW o, OptionsFilled(o)
    PROVE  LET remote == o.endpoint # "" \/ o.endpoints # "" \/ o.kube_lease # "" IN
           \/ o.mode = "local" /\ o.data_dir = "" /\ to_client_target(o) = <<"error", "">>
           \/ /\ o.data_dir # "" /\ to_client_target(o) = <<"local", o.data_dir>>
              /\ o.mode = "local" \/ (o.mode = "auto" /\ ~remote)
           \/ /\ to_client_target(o) = discovery(o) /\ o.mode # "local"
              /\ o.mode = "cluster" \/ remote \/ o.data_dir = ""
  <2> USE <1>TargetIs
  <2>1. PICK dir : dir = IF o.data_dir # "" THEN o.data_dir ELSE o.env_dir
    BY Zenon
  <2>2. dir = o.data_dir
    BY <2>1, Zenon DEF OptionsFilled
  <2>3. PICK remote \in BOOLEAN : remote = (o.endpoint # "" \/ o.endpoints # "" \/ o.kube_lease # "")
    BY Zenon
  <2>4. PICK blocks \in BOOLEAN : blocks = (o.data_dir = "" /\ o.env_remote)
    BY Zenon
  <2>5. CASE o.mode = "local"
    <3>1. o.mode # "cluster" /\ o.mode # "auto"
      BY <2>5
    <3>2. to_client_target(o) = IF dir = "" THEN <<"error", "">> ELSE <<"local", dir>>
      BY <2>1, <2>5, <3>1, Zenon DEF to_client_target
    <3> QED BY <2>2, <2>5, <3>2, Zenon
  <2>6. CASE o.mode = "cluster"
    <3>1. o.mode # "local" /\ o.mode # "auto"
      BY <2>6
    <3>2. to_client_target(o) = discovery(o)
      BY <2>6, <3>1, Zenon DEF to_client_target
    <3> QED BY <2>6, <3>1, <3>2, Zenon
  <2>7. CASE o.mode = "auto"
    <3>1. o.mode # "local" /\ o.mode # "cluster"
      BY <2>7
    <3>2. to_client_target(o) = IF ~remote /\ dir # "" /\ ~blocks THEN <<"local", dir>> ELSE discovery(o)
      BY <2>1, <2>3, <2>4, <2>7, <3>1, Zenon DEF to_client_target
    <3> QED BY <2>2, <2>3, <2>4, <2>7, <3>1, <3>2, Zenon
  <2> QED BY <2>5, <2>6, <2>7, Zenon DEF OptionsFilled

<1>SentIs.
    ASSUME NEW o, NEW target, target = to_client_target(o)
    PROVE  LET sent == Sent(o, [kind |-> "drop", yes |-> TRUE, db |-> "a", format |-> "table"]) IN
           IF target[1] = "error" THEN sent = <<>>
           ELSE sent = <<[by |-> IF target[1] = "local" THEN "engine" ELSE "gateway", op |-> "drop"]>>
  <2> USE <1>SentIs
  <2>1. PICK c : c = [kind |-> "drop", yes |-> TRUE, db |-> "a", format |-> "table"]
    BY Zenon
  <2>2. c.kind = "drop" /\ c.yes = TRUE /\ c.db = "a" /\ c.format = "table"
    BY <2>1
  <2>3. c.kind \notin {"exec", "query"} /\ c.kind # "batch" /\ c.kind # "status" /\ c.kind # "sql"
    BY <2>2
  <2>4. PICK call : call = Call("drop", c.db, [word |-> ""], c.format)
    BY Zenon
  <2>5. run_client_command(c) = <<call>>
    BY <2>2, <2>3, <2>4, Zenon DEF run_client_command
  <2>6. call.op = "drop"
    BY <2>4, Zenon DEF Call
  <2>7. call.op # "status"
    BY <2>6
  <2>8. perform(target, call) = [by |-> IF target[1] = "local" THEN "engine" ELSE "gateway", op |-> "drop"]
    BY <2>6, <2>7, Zenon DEF perform
  <2>9. PICK done : done = perform(target, call)
    BY Zenon
  <2>10. [i \in DOMAIN <<call>> |-> perform(target, <<call>>[i])] = <<done>>
    <3>1. DOMAIN <<call>> = {1} /\ <<call>>[1] = call
      OBVIOUS
    <3>2. [i \in DOMAIN <<call>> |-> perform(target, <<call>>[i])] = [i \in {1} |-> done]
      BY <2>9, <3>1, Zenon
    <3>3. [i \in {1} |-> done] = <<done>>
      <4>1. [i \in 1..1 |-> done] \in Seq({done}) /\ {1} = 1..1
        OBVIOUS
      <4> QED BY <4>1
    <3> QED BY <3>2, <3>3, Zenon
  <2>11. Sent(o, c) = IF target[1] = "error" THEN <<>> ELSE <<done>>
    BY <2>5, <2>10, Zenon DEF Sent
  <2> QED BY <2>1, <2>8, <2>9, <2>11, Zenon

<1> SUFFICES ASSUME NEW o, OptionsFilled(o)
             PROVE  TargetFollowsOptions(o)
  BY Zenon
<1>1. PICK target : target = to_client_target(o)
  BY Zenon
<1>2. PICK given : given = {f \in {"endpoint", "endpoints", "kube_lease"} : o[f] # ""}
  BY Zenon
<1>3. PICK e, es, k, dir, mode :
        e = o.endpoint /\ es = o.endpoints /\ k = o.kube_lease /\ dir = o.data_dir /\ mode = o.mode
  BY Zenon
<1>4. /\ "endpoint" \in given <=> e # ""
      /\ "endpoints" \in given <=> es # ""
      /\ "kube_lease" \in given <=> k # ""
      /\ given \subseteq {"endpoint", "endpoints", "kube_lease"}
  BY <1>2, <1>3, Zenon
<1>5. (given = {} <=> e = "" /\ es = "" /\ k = "") /\ (e = "" /\ k = "" /\ es # "" => given = {"endpoints"})
  BY <1>4, Zenon
<1>6. CASE mode = "local" /\ dir = "" /\ target = <<"error", "">>
  <2>1. target[1] = "error" /\ "error" # "local" /\ "error" # "custom" /\ "error" # "candidates" /\ "error" # "direct"
    BY <1>6, Zenon
  <2> QED BY <1>1, <1>2, <1>3, <1>6, <2>1, <1>SentIs, Zenon DEF TargetFollowsOptions
<1>7. CASE /\ dir # "" /\ target = <<"local", dir>>
           /\ mode = "local" \/ (mode = "auto" /\ ~(e # "" \/ es # "" \/ k # ""))
  <2>1. /\ target[1] = "local" /\ target[2] = dir
        /\ "local" # "error" /\ "local" # "custom" /\ "local" # "candidates" /\ "local" # "direct"
    BY <1>7, Zenon
  <2> QED BY <1>1, <1>2, <1>3, <1>5, <1>7, <2>1, <1>SentIs, Zenon DEF TargetFollowsOptions
<1>8. CASE /\ target = discovery(o) /\ mode # "local"
           /\ mode = "cluster" \/ (e # "" \/ es # "" \/ k # "") \/ dir = ""
  <2>1. \/ /\ target[1] = "direct" /\ target[2] = e /\ e # ""
        \/ /\ target[1] = "custom" /\ target[2] = k /\ e = "" /\ k # ""
        \/ /\ target[1] = "candidates" /\ e = "" /\ k = "" /\ es # ""
        \/ /\ target[1] = "direct" /\ target[2] = "localhost" /\ e = "" /\ k = "" /\ es = ""
    BY <1>3, <1>8, <1>DiscoveryIs, Zenon
  <2>2. target[1] # "local" /\ target[1] # "error"
    BY <2>1, Zenon
  <2>3. target[1] = "custom" => e = "" /\ target[2] = k
    BY <2>1, Zenon
  <2>4. target[1] = "candidates" => given = {"endpoints"}
    BY <1>5, <2>1, Zenon
  <2>5. target[1] = "direct" => target[2] = IF given = {} THEN "localhost" ELSE e
    BY <1>5, <2>1, Zenon
  <2>6. ~(dir # "" /\ (mode = "local" \/ (mode = "auto" /\ given = {})))
    <3>1. mode = "cluster" => mode # "auto"
      OBVIOUS
    <3> QED BY <1>5, <1>8, <3>1, Zenon
  <2> QED BY <1>1, <1>2, <1>3, <1>4, <1>8, <2>2, <2>3, <2>4, <2>5, <2>6, <1>SentIs, Zenon DEF TargetFollowsOptions
<1> QED BY <1>1, <1>3, <1>6, <1>7, <1>8, <1>TargetIs, Zenon

(* An interactive session calls what its lines' commands would. *)
LEMMA SessionsAct ==
  ASSUME WellOrdered
  PROVE  \A L : \A lines \in Seq(L) : \A db, format : SessionActsAsCommands(db, format, lines)
<1> DEFINE
  (* The calls of a line, and what else it changes. *)
  LineCalls(db, format, line) ==
    IF line.kind = "sql" THEN <<run_sql(db, line.arg, format)>>
    ELSE IF line.kind \in {"tables", "schema"} THEN <<catalog(db, format)>>
    ELSE IF line.kind = "status" THEN <<status(format)>>
    ELSE IF line.kind = "read" /\ line.arg \notin {"", "nofile"}
    THEN <<batch(db, line.arg, TRUE, format)>> ELSE <<>>
  LineDoes(s, line, t) ==
    /\ t = [db |-> t.db, format |-> t.format, over |-> t.over, calls |-> t.calls]
    /\ t.db = IF line.kind = "database" /\ line.arg # "" THEN line.arg ELSE s.db
    /\ t.format = IF line.kind = "mode" /\ line.arg \in Formats THEN line.arg ELSE s.format
    /\ t.over \in BOOLEAN /\ (t.over <=> line.kind \in {"quit", "eof", "readline_error"})
    /\ t.calls = s.calls \o LineCalls(s.db, s.format, line)
  SessionStates(D, F, K) == [db : D, format : F, over : BOOLEAN, calls : Seq(K)]
<1> HIDE DEF LineCalls, LineDoes, SessionStates

<1>LineIs.
    ASSUME NEW D, NEW F, NEW K, NEW s \in SessionStates(D, F, K), ~s.over, NEW line
    PROVE  LineDoes(s, line, run_repl_line(s, line))
  <2> USE <1>LineIs
  <2> DEFINE Same(x) == [db |-> x.db, format |-> x.format, over |-> x.over, calls |-> x.calls]
             Goal(t) ==
               /\ t = Same(t)
               /\ t.db = IF line.kind = "database" /\ line.arg # "" THEN line.arg ELSE s.db
               /\ t.format = IF line.kind = "mode" /\ line.arg \in Formats THEN line.arg ELSE s.format
               /\ t.over \in BOOLEAN /\ (t.over <=> line.kind \in {"quit", "eof", "readline_error"})
               /\ t.calls = s.calls \o LineCalls(s.db, s.format, line)
  <2>1. PICK t : t = run_repl_line(s, line)
    BY Zenon
  <2>2. PICK yes : yes = TRUE
    BY Zenon
  <2>3. /\ s = [db |-> s.db, format |-> s.format, over |-> s.over, calls |-> s.calls]
        /\ s.over \in BOOLEAN /\ s.calls \in Seq(K)
    BY DEF SessionStates
  <2>4. ASSUME NEW c PROVE s.calls \o <<c>> = Append(s.calls, c)
    BY <2>3
  <2>5. s.calls \o <<>> = s.calls
    BY <2>3
  <2>6. ASSUME NEW x
        PROVE  /\ LET u == [s EXCEPT !.over = x] IN
                  u = Same(u) /\ u.db = s.db /\ u.format = s.format /\ u.over = x /\ u.calls = s.calls
               /\ LET u == [s EXCEPT !.calls = x] IN
                  u = Same(u) /\ u.db = s.db /\ u.format = s.format /\ u.over = s.over /\ u.calls = x
               /\ LET u == [s EXCEPT !.db = x] IN
                  u = Same(u) /\ u.db = x /\ u.format = s.format /\ u.over = s.over /\ u.calls = s.calls
               /\ LET u == [s EXCEPT !.format = x] IN
                  u = Same(u) /\ u.db = s.db /\ u.format = x /\ u.over = s.over /\ u.calls = s.calls
    BY DEF SessionStates
  <2>7. s = Same(s)
    BY <2>3, Zenon
  <2> HIDE DEF Same
  <2> SUFFICES Goal(t)
    BY <2>1, Zenon DEF Same, LineDoes
  <2>8. CASE line.kind \in {"eof", "readline_error"}
    <3>1. line.kind \notin {"quit", "blank", "interrupt", "sql",
                           "tables", "schema", "database", "mode", "status", "read"}
      BY <2>8
    <3>2. t = [s EXCEPT !.over = yes]
      BY <2>1, <2>2, <2>8, <3>1, Zenon DEF run_repl_line
    <3>3. t = Same(t) /\ t.db = s.db /\ t.format = s.format /\ t.over = yes /\ t.calls = s.calls
      BY <3>2, <2>6, <2>7, Zenon
    <3>4. LineCalls(s.db, s.format, line) = <<>>
      BY <2>8, <3>1, Zenon DEF LineCalls
    <3> QED BY <2>2, <2>3, <2>5, <2>8, <3>1, <3>3, <3>4, Zenon
  <2>9. CASE line.kind \in {"blank", "interrupt"}
    <3>1. line.kind \notin {"eof", "readline_error", "quit", "sql",
                           "tables", "schema", "database", "mode", "status", "read"}
      BY <2>9
    <3>2. t = s
      BY <2>1, <2>2, <2>9, <3>1, Zenon DEF run_repl_line
    <3>3. t = Same(t) /\ t.db = s.db /\ t.format = s.format /\ t.over = s.over /\ t.calls = s.calls
      BY <3>2, <2>6, <2>7, Zenon
    <3>4. LineCalls(s.db, s.format, line) = <<>>
      BY <2>9, <3>1, Zenon DEF LineCalls
    <3> QED BY <2>2, <2>3, <2>5, <2>9, <3>1, <3>3, <3>4, Zenon
  <2>10. CASE line.kind = "sql"
    <3>1. line.kind \notin {"eof", "readline_error", "quit", "blank", "interrupt", "tables",
                           "schema", "database", "mode", "status", "read"}
      BY <2>10
    <3>2. PICK c : c = run_sql(s.db, line.arg, s.format)
      BY Zenon
    <3>3. t = [s EXCEPT !.calls = Append(s.calls, c)]
      BY <2>1, <2>2, <2>10, <3>1, <3>2, Zenon DEF run_repl_line
    <3>4. t = Same(t) /\ t.db = s.db /\ t.format = s.format /\ t.over = s.over /\ t.calls = Append(s.calls, c)
      BY <3>3, <2>6, <2>7, Zenon
    <3>5. LineCalls(s.db, s.format, line) = <<c>>
      BY <2>10, <3>1, <3>2, Zenon DEF LineCalls
    <3> QED BY <2>2, <2>3, <2>4, <2>10, <3>1, <3>4, <3>5, Zenon
  <2>11. CASE line.kind = "quit"
    <3>1. line.kind \notin {"eof", "readline_error", "blank", "interrupt", "sql",
                           "tables", "schema", "database", "mode", "status", "read"}
      BY <2>11
    <3>2. t = [s EXCEPT !.over = yes]
      BY <2>1, <2>2, <2>11, <3>1, Zenon DEF run_repl_line, handle_metacommand
    <3>3. t = Same(t) /\ t.db = s.db /\ t.format = s.format /\ t.over = yes /\ t.calls = s.calls
      BY <3>2, <2>6, <2>7, Zenon
    <3>4. LineCalls(s.db, s.format, line) = <<>>
      BY <2>11, <3>1, Zenon DEF LineCalls
    <3> QED BY <2>2, <2>3, <2>5, <2>11, <3>1, <3>3, <3>4, Zenon
  <2>12. CASE line.kind \in {"tables", "schema"}
    <3>1. line.kind \notin {"eof", "readline_error", "quit", "blank", "interrupt", "sql",
                           "database", "mode", "status", "read"}
      BY <2>12
    <3>2. PICK c : c = catalog(s.db, s.format)
      BY Zenon
    <3>3. t = [s EXCEPT !.calls = Append(s.calls, c)]
      BY <2>1, <2>2, <2>12, <3>1, <3>2, Zenon DEF run_repl_line, handle_metacommand
    <3>4. t = Same(t) /\ t.db = s.db /\ t.format = s.format /\ t.over = s.over /\ t.calls = Append(s.calls, c)
      BY <3>3, <2>6, <2>7, Zenon
    <3>5. LineCalls(s.db, s.format, line) = <<c>>
      BY <2>12, <3>1, <3>2, Zenon DEF LineCalls
    <3> QED BY <2>2, <2>3, <2>4, <2>12, <3>1, <3>4, <3>5, Zenon
  <2>13. CASE line.kind = "database"
    <3>1. line.kind \notin {"eof", "readline_error", "quit", "blank", "interrupt", "sql",
                           "tables", "schema", "mode", "status", "read"}
      BY <2>13
    <3>2. CASE line.arg # ""
      <4>1. t = [s EXCEPT !.db = line.arg]
        BY <2>1, <2>2, <2>13, <3>1, <3>2, Zenon DEF run_repl_line, handle_metacommand
      <4>2. t = Same(t) /\ t.db = line.arg /\ t.format = s.format /\ t.over = s.over /\ t.calls = s.calls
        BY <4>1, <2>6, <2>7, Zenon
      <4>3. LineCalls(s.db, s.format, line) = <<>>
        BY <2>13, <3>1, <3>2, Zenon DEF LineCalls
      <4> QED BY <2>2, <2>3, <2>5, <2>13, <3>1, <3>2, <4>2, <4>3, Zenon
    <3>3. CASE line.arg = ""
      <4>1. t = s
        BY <2>1, <2>2, <2>13, <3>1, <3>3, Zenon DEF run_repl_line, handle_metacommand
      <4>2. t = Same(t) /\ t.db = s.db /\ t.format = s.format /\ t.over = s.over /\ t.calls = s.calls
        BY <4>1, <2>6, <2>7, Zenon
      <4>3. LineCalls(s.db, s.format, line) = <<>>
        BY <2>13, <3>1, <3>3, Zenon DEF LineCalls
      <4> QED BY <2>2, <2>3, <2>5, <2>13, <3>1, <3>3, <4>2, <4>3, Zenon
    <3> QED BY <3>2, <3>3, Zenon
  <2>14. CASE line.kind = "mode"
    <3>1. line.kind \notin {"eof", "readline_error", "quit", "blank", "interrupt", "sql",
                           "tables", "schema", "database", "status", "read"}
      BY <2>14
    <3>2. CASE line.arg \in Formats
      <4>1. t = [s EXCEPT !.format = line.arg]
        BY <2>1, <2>2, <2>14, <3>1, <3>2, Zenon DEF run_repl_line, handle_metacommand
      <4>2. t = Same(t) /\ t.db = s.db /\ t.format = line.arg /\ t.over = s.over /\ t.calls = s.calls
        BY <4>1, <2>6, <2>7, Zenon
      <4>3. LineCalls(s.db, s.format, line) = <<>>
        BY <2>14, <3>1, <3>2, Zenon DEF LineCalls
      <4> QED BY <2>2, <2>3, <2>5, <2>14, <3>1, <3>2, <4>2, <4>3, Zenon
    <3>3. CASE line.arg \notin Formats
      <4>1. t = s
        BY <2>1, <2>2, <2>14, <3>1, <3>3, Zenon DEF run_repl_line, handle_metacommand
      <4>2. t = Same(t) /\ t.db = s.db /\ t.format = s.format /\ t.over = s.over /\ t.calls = s.calls
        BY <4>1, <2>6, <2>7, Zenon
      <4>3. LineCalls(s.db, s.format, line) = <<>>
        BY <2>14, <3>1, <3>3, Zenon DEF LineCalls
      <4> QED BY <2>2, <2>3, <2>5, <2>14, <3>1, <3>3, <4>2, <4>3, Zenon
    <3> QED BY <3>2, <3>3, Zenon
  <2>15. CASE line.kind = "status"
    <3>1. line.kind \notin {"eof", "readline_error", "quit", "blank", "interrupt", "sql",
                           "tables", "schema", "database", "mode", "read"}
      BY <2>15
    <3>2. PICK c : c = status(s.format)
      BY Zenon
    <3>3. t = [s EXCEPT !.calls = Append(s.calls, c)]
      BY <2>1, <2>2, <2>15, <3>1, <3>2, Zenon DEF run_repl_line, handle_metacommand
    <3>4. t = Same(t) /\ t.db = s.db /\ t.format = s.format /\ t.over = s.over /\ t.calls = Append(s.calls, c)
      BY <3>3, <2>6, <2>7, Zenon
    <3>5. LineCalls(s.db, s.format, line) = <<c>>
      BY <2>15, <3>1, <3>2, Zenon DEF LineCalls
    <3> QED BY <2>2, <2>3, <2>4, <2>15, <3>1, <3>4, <3>5, Zenon
  <2>16. CASE line.kind = "read"
    <3>1. line.kind \notin {"eof", "readline_error", "quit", "blank", "interrupt", "sql",
                           "tables", "schema", "database", "mode", "status"}
      BY <2>16
    <3>2. CASE line.arg \notin {"", "nofile"}
      <4>1. PICK c : c = batch(s.db, line.arg, TRUE, s.format)
        BY Zenon
      <4>2. t = [s EXCEPT !.calls = Append(s.calls, c)]
        BY <2>1, <2>2, <2>16, <3>1, <3>2, <4>1, Zenon DEF run_repl_line, handle_metacommand
      <4>3. t = Same(t) /\ t.db = s.db /\ t.format = s.format /\ t.over = s.over /\ t.calls = Append(s.calls, c)
        BY <4>2, <2>6, <2>7, Zenon
      <4>4. LineCalls(s.db, s.format, line) = <<c>>
        BY <2>16, <3>1, <3>2, <4>1, Zenon DEF LineCalls
      <4> QED BY <2>2, <2>3, <2>4, <2>16, <3>1, <3>2, <4>3, <4>4, Zenon
    <3>3. CASE line.arg \in {"", "nofile"}
      <4>1. t = s
        BY <2>1, <2>2, <2>16, <3>1, <3>3, Zenon DEF run_repl_line, handle_metacommand
      <4>2. t = Same(t) /\ t.db = s.db /\ t.format = s.format /\ t.over = s.over /\ t.calls = s.calls
        BY <4>1, <2>6, <2>7, Zenon
      <4>3. LineCalls(s.db, s.format, line) = <<>>
        BY <2>16, <3>1, <3>3, Zenon DEF LineCalls
      <4> QED BY <2>2, <2>3, <2>5, <2>16, <3>1, <3>3, <4>2, <4>3, Zenon
    <3> QED BY <3>2, <3>3, Zenon
  <2>17. CASE line.kind \notin {"eof", "readline_error", "quit", "blank", "interrupt", "sql",
                           "tables", "schema", "database", "mode", "status", "read"}
    <3>1. t = s
      BY <2>1, <2>2, <2>17, Zenon DEF run_repl_line, handle_metacommand
    <3>2. t = Same(t) /\ t.db = s.db /\ t.format = s.format /\ t.over = s.over /\ t.calls = s.calls
      BY <3>1, <2>6, <2>7, Zenon
    <3>3. LineCalls(s.db, s.format, line) = <<>>
      BY <2>17, Zenon DEF LineCalls
    <3> QED BY <2>2, <2>3, <2>5, <2>17, <3>2, <3>3, Zenon
  <2> QED BY <2>8, <2>9, <2>10, <2>11, <2>12, <2>13, <2>14, <2>15, <2>16, <2>17, Zenon

<1> DEFINE
  (* The calls of a session that a command would make too. *)
  AlsoCommand(c) == c.op = "batch" => c.text.script # "empty"
  Kept(calls) == At(calls, {i \in DOMAIN calls : AlsoCommand(calls[i])})
<1> HIDE DEF AlsoCommand, Kept

(* A line makes the calls of its command, but for .read of an empty script. *)
<1>AsCommandIs.
    ASSUME NEW line, NEW db, NEW format
    PROVE  \/ LineCalls(db, format, line) = <<>> /\ AsCommand(line, db, format) = <<>>
           \/ \E c : /\ LineCalls(db, format, line) = <<c>>
                     /\ AsCommand(line, db, format) = IF AlsoCommand(c) THEN <<c>> ELSE <<>>
  <2>1. CASE line.kind = "sql"
    <3>1. line.kind \notin {"tables", "schema"} /\ line.kind # "status" /\ line.kind # "read"
      BY <2>1
    <3>2. PICK q : q = [kind |-> "sql", db |-> db, sql |-> line.arg, format |-> format]
      BY Zenon
    <3>3. q.kind = "sql" /\ q.db = db /\ q.sql = line.arg /\ q.format = format
      BY <3>2
    <3>4. q.kind \notin {"exec", "query"} /\ q.kind # "batch" /\ q.kind # "status" /\ q.kind # "drop"
      BY <3>3
    <3>5. PICK c : c = run_sql(db, line.arg, format)
      BY Zenon
    <3>6. run_client_command(q) = <<c>>
      BY <3>3, <3>4, <3>5, Zenon DEF run_client_command
    <3>7. AsCommand(line, db, format) = <<c>>
      BY <2>1, <3>1, <3>2, <3>6, Zenon DEF AsCommand
    <3>8. c.op \in {"query", "execute"}
      BY <3>5 DEF run_sql, Call
    <3>9. c.op # "batch"
      BY <3>8
    <3>10. LineCalls(db, format, line) = <<c>>
      BY <2>1, <3>5, Zenon DEF LineCalls
    <3> QED BY <3>7, <3>9, <3>10, Zenon DEF AlsoCommand
  <2>2. CASE line.kind \in {"tables", "schema"}
    <3>1. line.kind # "sql" /\ line.kind # "status" /\ line.kind # "read"
      BY <2>2
    <3>2. PICK q : q = [kind |-> "query", params |-> "ok", db |-> db, sql |-> [word |-> "SELECT"], format |-> format]
      BY Zenon
    <3>3. /\ q.kind = "query" /\ q.params = "ok" /\ q.db = db /\ q.format = format
          /\ q.sql = [word |-> "SELECT"]
      BY <3>2
    <3>4. /\ q.kind # "exec" /\ q.params # "malformed" /\ q.kind # "sql"
          /\ q.kind # "batch" /\ q.kind # "status" /\ q.kind # "drop"
      BY <3>3
    <3>5. PICK c : c = catalog(db, format)
      BY Zenon
    <3>6. run_client_command(q) = <<c>>
      BY <3>3, <3>4, <3>5, Zenon DEF run_client_command, catalog
    <3>7. AsCommand(line, db, format) = <<c>>
      BY <2>2, <3>1, <3>2, <3>6, Zenon DEF AsCommand
    <3>8. c.op = "query"
      BY <3>5 DEF catalog, Call
    <3>9. c.op # "batch"
      BY <3>8
    <3>10. LineCalls(db, format, line) = <<c>>
      BY <2>2, <3>1, <3>5, Zenon DEF LineCalls
    <3> QED BY <3>7, <3>9, <3>10, Zenon DEF AlsoCommand
  <2>3. CASE line.kind = "status"
    <3>1. line.kind # "sql" /\ line.kind \notin {"tables", "schema"} /\ line.kind # "read"
      BY <2>3
    <3>2. PICK q : q = [kind |-> "status", format |-> format]
      BY Zenon
    <3>3. q.kind = "status" /\ q.format = format
      BY <3>2
    <3>4. q.kind \notin {"exec", "query"} /\ q.kind # "sql" /\ q.kind # "batch" /\ q.kind # "drop"
      BY <3>3
    <3>5. PICK c : c = status(format)
      BY Zenon
    <3>6. run_client_command(q) = <<c>>
      BY <3>3, <3>4, <3>5, Zenon DEF run_client_command
    <3>7. AsCommand(line, db, format) = <<c>>
      BY <2>3, <3>1, <3>2, <3>6, Zenon DEF AsCommand
    <3>8. PICK none : c = Call("status", none, [word |-> none], format)
      BY <3>5, Zenon DEF status
    <3>9. c.op = "status"
      BY <3>8 DEF Call
    <3>10. c.op # "batch"
      BY <3>9
    <3>11. LineCalls(db, format, line) = <<c>>
      BY <2>3, <3>1, <3>5, Zenon DEF LineCalls
    <3> QED BY <3>7, <3>10, <3>11, Zenon DEF AlsoCommand
  <2>4. CASE line.kind = "read" /\ line.arg # ""
    <3>1. line.kind # "sql" /\ line.kind \notin {"tables", "schema"} /\ line.kind # "status"
      <4>1. line.kind = "read"
        BY <2>4, Zenon
      <4> QED BY <4>1
    <3>2. PICK yes : yes = TRUE
      BY Zenon
    <3>3. PICK q : q = [kind |-> "batch", db |-> db, script |-> line.arg, stop_on_error |-> yes, format |-> format]
      BY Zenon
    <3>4. q.kind = "batch" /\ q.db = db /\ q.script = line.arg /\ q.stop_on_error = yes /\ q.format = format
      BY <3>3
    <3>5. q.kind \notin {"exec", "query"} /\ q.kind # "sql" /\ q.kind # "status" /\ q.kind # "drop"
      BY <3>4
    <3>6. PICK c : c = batch(db, line.arg, yes, format)
      BY Zenon
    <3>7. run_client_command(q) = IF line.arg \in {"nofile", "empty"} THEN <<>> ELSE <<c>>
      BY <3>4, <3>5, <3>6, Zenon DEF run_client_command
    <3>8. AsCommand(line, db, format) = run_client_command(q)
      BY <2>4, <3>1, <3>2, <3>3, Zenon DEF AsCommand
    <3>9. c.op = "batch" /\ c.text.script = line.arg
      BY <3>6 DEF batch, Call
    <3>10. LineCalls(db, format, line) = IF line.arg = "nofile" THEN <<>> ELSE <<c>>
      BY <2>4, <3>1, <3>2, <3>6, Zenon DEF LineCalls
    <3>11. line.arg = "empty" => line.arg # "nofile"
      <4>1. "empty" # "nofile"
        OBVIOUS
      <4> QED BY <4>1, Zenon
    <3> QED BY <3>7, <3>8, <3>9, <3>10, <3>11, Zenon DEF AlsoCommand
  <2>5. CASE /\ line.kind # "sql" /\ line.kind \notin {"tables", "schema"} /\ line.kind # "status"
             /\ ~(line.kind = "read" /\ line.arg # "")
    <3>1. AsCommand(line, db, format) = <<>>
      BY <2>5, Zenon DEF AsCommand
    <3>2. LineCalls(db, format, line) = <<>>
      BY <2>5, Zenon DEF LineCalls
    <3> QED BY <3>1, <3>2, Zenon
  <2> QED BY <2>1, <2>2, <2>3, <2>4, <2>5, Zenon

(* One call more. *)
<1>KeptAppend.
    ASSUME NEW K, NEW calls \in Seq(K), NEW c \in K
    PROVE  /\ Kept(calls) \in Seq(K)
           /\ Kept(Append(calls, c)) = Kept(calls) \o (IF AlsoCommand(c) THEN <<c>> ELSE <<>>)
  <2> DEFINE Part1(x) == IF AlsoCommand(x) THEN <<x>> ELSE <<>>
             Parts(cs) == [i \in DOMAIN cs |-> Part1(cs[i])]
  <2>1. \A x \in K : Part1(x) \in Seq(K)
    <3>1. \A x \in K : <<x>> \in Seq(K) /\ <<>> \in Seq(K)
      OBVIOUS
    <3> QED BY <3>1, Zenon
  <2>2. \A cs : Kept(cs) = Concat(Parts(cs))
    BY Zenon DEF Kept, At
  <2> HIDE DEF Part1
  <2>3. PICK n \in Nat : n = Len(calls) /\ DOMAIN calls = 1..n /\ \A i \in 1..n : calls[i] \in K
    OBVIOUS
  <2>4. PICK p : p = Parts(calls)
    BY Zenon
  <2>5. p \in [1..n -> Seq(K)]
    BY <2>1, <2>3, <2>4, Zenon
  <2>6. p \in Seq(Seq(K)) /\ DOMAIN p = 1..n
    BY <2>5
  <2>7. PICK last \in Seq(K) : last = Part1(c)
    BY <2>1, Zenon
  <2>8. PICK more : more = Append(calls, c)
    BY Zenon
  <2>9. /\ DOMAIN more = 1..(n + 1) /\ more[n + 1] = c /\ \A i \in 1..n : more[i] = calls[i]
    BY <2>3, <2>8
  <2>10. Parts(more) = [i \in 1..(n + 1) |-> IF i = n + 1 THEN last ELSE p[i]]
    <3>1. ASSUME NEW i \in 1..(n + 1) PROVE Part1(more[i]) = IF i = n + 1 THEN last ELSE p[i]
      <4>1. i = n + 1 \/ i \in 1..n
        OBVIOUS
      <4>2. n + 1 \notin 1..n
        OBVIOUS
      <4> QED BY <2>3, <2>4, <2>7, <2>9, <4>1, <4>2, Zenon
    <3> QED BY <2>9, <3>1, Zenon
  <2>11. Append(p, last) = [i \in 1..(n + 1) |-> IF i = n + 1 THEN last ELSE p[i]]
    BY <2>6, AppendIs
  <2>12. Parts(more) = Append(p, last)
    BY <2>10, <2>11, Zenon
  <2> HIDE DEF Parts
  <2>13. Concat(p) \in Seq(K) /\ Concat(Append(p, last)) = Concat(p) \o last
    BY <2>6, ConcatAppend
  <2> QED BY <2>2, <2>4, <2>7, <2>8, <2>12, <2>13, Zenon DEF Part1

<1> DEFINE
  (* The latest choice of a database or of a format among the lines before i. *)
  Chosen(lines, i, kind, valid) ==
    {j \in 1..(i - 1) : lines[j].kind = kind /\ lines[j].arg \in valid}
  Latest(lines, i, kind, valid, start) ==
    IF Chosen(lines, i, kind, valid) = {} THEN start
    ELSE lines[Max(Chosen(lines, i, kind, valid))].arg
<1> HIDE DEF Chosen, Latest

<1>LatestFirst.
    ASSUME NEW lines, NEW kind, NEW valid, NEW start
    PROVE  Latest(lines, 1, kind, valid, start) = start
  <2>1. Chosen(lines, 1, kind, valid) = {}
    BY DEF Chosen
  <2> QED BY <2>1, Zenon DEF Latest

<1> DEFINE
  LatestMoves(lines, i, kind, valid, start) ==
    Latest(lines, i + 1, kind, valid, start) =
      IF lines[i].kind = kind /\ lines[i].arg \in valid THEN lines[i].arg
      ELSE Latest(lines, i, kind, valid, start)
<1> HIDE DEF LatestMoves

<1>LatestNext.
    ASSUME NEW lines, NEW kind, NEW valid, NEW start, NEW i \in Nat \ {0}
    PROVE  LatestMoves(lines, i, kind, valid, start)
  <2>1. PICK now, before : /\ now = Chosen(lines, i + 1, kind, valid)
                           /\ before = Chosen(lines, i, kind, valid)
    BY Zenon
  <2>2. now = {j \in 1..i : lines[j].kind = kind /\ lines[j].arg \in valid}
    BY <2>1 DEF Chosen
  <2>3. before = {j \in 1..(i - 1) : lines[j].kind = kind /\ lines[j].arg \in valid}
    BY <2>1, Zenon DEF Chosen
  <2>4. CASE lines[i].kind = kind /\ lines[i].arg \in valid
    <3>1. i \in now /\ now \subseteq 0..i /\ now # {}
      BY <2>2, <2>4
    <3>2. Max(now) \in now /\ \A y \in now : Max(now) >= y
      BY <3>1, LastPlace, Zenon
    <3>3. Max(now) = i
      <4>1. PICK m : m = Max(now)
        BY Zenon
      <4>2. m \in 0..i /\ m >= i
        BY <3>1, <3>2, <4>1, Zenon
      <4>3. m = i
        BY <4>2
      <4> QED BY <4>1, <4>3, Zenon
    <3> QED BY <2>1, <2>4, <3>1, <3>3, Zenon DEF LatestMoves, Latest
  <2>5. CASE ~(lines[i].kind = kind /\ lines[i].arg \in valid)
    <3>1. now = before
      BY <2>2, <2>3, <2>5
    <3> QED BY <2>1, <2>5, <3>1, Zenon DEF LatestMoves, Latest
  <2> QED BY <2>4, <2>5, Zenon

(* A line makes one call or none. *)
<1>LineCallsFew.
    ASSUME NEW line, NEW db, NEW format
    PROVE  \/ LineCalls(db, format, line) = <<>>
           \/ LineCalls(db, format, line) = <<LineCalls(db, format, line)[1]>>
  <2>1. \A c : <<c>> = << <<c>>[1] >>
    OBVIOUS
  <2>2. LineCalls(db, format, line) = <<>> \/ \E c : LineCalls(db, format, line) = <<c>>
    BY <1>AsCommandIs, Zenon
  <2> QED BY <2>1, <2>2, Zenon

<1> DEFINE
  (* The states of a session, one for every line. *)
  DbsOf(db, lines) == {db} \cup {lines[i].arg : i \in DOMAIN lines}
  CallsOf(db, format, lines) ==
    {LineCalls(q[1], q[2], lines[q[3]])[1] :
       q \in DbsOf(db, lines) \X DbsOf(format, lines) \X DOMAIN lines}
  StatesOf(db, format, lines) ==
    SessionStates(DbsOf(db, lines), DbsOf(format, lines), CallsOf(db, format, lines))
<1> HIDE DEF DbsOf, CallsOf, StatesOf

<1>LineTyped.
    ASSUME NEW L, NEW lines \in Seq(L), NEW db, NEW format,
           NEW i \in 1..Len(lines), NEW s \in StatesOf(db, format, lines)
    PROVE  run_repl_line(s, lines[i]) \in StatesOf(db, format, lines)
  <2> DEFINE D == DbsOf(db, lines)
             F == DbsOf(format, lines)
             K == CallsOf(db, format, lines)
  <2>1. s \in SessionStates(D, F, K)
    BY Zenon DEF StatesOf
  <2>2. CASE s.over
    BY <2>2, Zenon DEF run_repl_line
  <2>3. CASE ~s.over
    <3>1. i \in DOMAIN lines
      OBVIOUS
    <3>2. PICK line : line = lines[i]
      BY Zenon
    <3>3. line.arg \in D /\ line.arg \in F
      BY <3>1, <3>2, Zenon DEF DbsOf
    <3>4. s.db \in D /\ s.format \in F /\ s.calls \in Seq(K)
      BY <2>1, Zenon DEF SessionStates
    <3>5. PICK t : t = run_repl_line(s, line)
      BY Zenon
    <3>6. /\ t = [db |-> t.db, format |-> t.format, over |-> t.over, calls |-> t.calls]
          /\ t.db = IF line.kind = "database" /\ line.arg # "" THEN line.arg ELSE s.db
          /\ t.format = IF line.kind = "mode" /\ line.arg \in Formats THEN line.arg ELSE s.format
          /\ t.over \in BOOLEAN
          /\ t.calls = s.calls \o LineCalls(s.db, s.format, line)
      <4> HIDE DEF D, F, K
      <4>1. LineDoes(s, line, run_repl_line(s, line))
        BY <2>1, <2>3, <1>LineIs, Zenon
      <4>2. LineDoes(s, line, t)
        BY <3>5, <4>1, Zenon
      <4> QED BY <4>2, Zenon DEF LineDoes
    <3>7. PICK cs : cs = LineCalls(s.db, s.format, line)
      BY Zenon
    <3>8. cs = <<>> \/ (cs = <<cs[1]>> /\ cs[1] \in K)
      <4>1. cs = <<>> \/ cs = <<cs[1]>>
        BY <3>7, <1>LineCallsFew, Zenon
      <4>2. cs[1] \in K
        <5>1. PICK q : q = <<s.db, s.format, i>>
          BY Zenon
        <5>2. q \in D \X F \X DOMAIN lines
          <6> HIDE DEF D, F
          <6> QED BY <3>1, <3>4, <5>1
        <5>3. q[1] = s.db /\ q[2] = s.format /\ q[3] = i
          BY <5>1
        <5>4. cs[1] = LineCalls(q[1], q[2], lines[q[3]])[1]
          BY <3>2, <3>7, <5>3, Zenon
        <5>5. q \in DbsOf(db, lines) \X DbsOf(format, lines) \X DOMAIN lines
          BY <5>2, Zenon
        <5> QED BY <5>4, <5>5, Zenon DEF CallsOf
      <4> QED BY <4>1, <4>2, Zenon
    <3>9. cs \in Seq(K)
      <4> HIDE DEF K
      <4>1. <<>> \in Seq(K) /\ (cs[1] \in K => <<cs[1]>> \in Seq(K))
        OBVIOUS
      <4> QED BY <3>8, <4>1, Zenon
    <3>10. t.calls \in Seq(K)
      <4> HIDE DEF K
      <4>1. s.calls \o cs \in Seq(K)
        BY <3>4, <3>9
      <4> QED BY <3>6, <3>7, <4>1, Zenon
    <3>11. t.db \in D /\ t.format \in F
      BY <3>3, <3>4, <3>6, Zenon
    <3>12. t \in SessionStates(D, F, K)
      <4> HIDE DEF D, F, K
      <4> QED BY <3>6, <3>10, <3>11, Zenon DEF SessionStates
    <3> QED BY <3>2, <3>5, <3>12, Zenon DEF StatesOf
  <2> QED BY <2>2, <2>3, Zenon

<1>SessionIs.
    ASSUME NEW L, NEW lines \in Seq(L), NEW db, NEW format
    PROVE  LET after == Session(db, format, lines) IN
           /\ after[0] = [db |-> db, format |-> format, over |-> FALSE, calls |-> <<>>]
           /\ \A i \in 1..Len(lines) : after[i] = run_repl_line(after[i - 1], lines[i])
           /\ \A i \in 0..Len(lines) : after[i] \in StatesOf(db, format, lines)
  <2> DEFINE n == Len(lines)
             S == StatesOf(db, format, lines)
             none == [db |-> db, format |-> format, over |-> FALSE, calls |-> <<>>]
             op(i, s) == run_repl_line(s, lines[i])
             step == [i \in 1..n |-> [s \in S |-> op(i, s)]]
             Step(f) == [i \in 0..n |-> IF i = 0 THEN none ELSE op(i, f[i - 1])]
  <2>1. n \in Nat /\ none \in S /\ \A i \in 1..n, s \in S : op(i, s) \in S
    <3>1. none \in S
      <4>1. db \in DbsOf(db, lines) /\ format \in DbsOf(format, lines)
        BY Zenon DEF DbsOf
      <4>2. <<>> \in Seq(CallsOf(db, format, lines)) /\ FALSE \in BOOLEAN
        OBVIOUS
      <4> QED BY <4>1, <4>2, Zenon DEF StatesOf, SessionStates
    <3>2. \A i \in 1..n, s \in S : op(i, s) \in S
      BY <1>LineTyped, Zenon
    <3>3. n \in Nat
      OBVIOUS
    <3> QED BY <3>1, <3>2, <3>3, Zenon
  <2>2. Session(db, format, lines) = CHOOSE f : f = Step(f)
    BY Zenon DEF Session
  <2> HIDE DEF n, S, op, none
  <2>3. PICK f \in [0..n -> S] : IsRow(f, n, none, step)
    <3>1. step \in [1..n -> [S -> S]]
      BY <2>1
    <3> HIDE DEF step
    <3> QED BY <2>1, <3>1, Rows, Zenon
  <2>4. f = Step(f)
    <3>1. f[0] = none
      BY <2>3, Zenon DEF IsRow
    <3>2. ASSUME NEW i \in 1..n PROVE f[i] = op(i, f[i - 1])
      <4>1. f[i - 1] \in S
        BY <2>1
      <4>2. step[i][f[i - 1]] = op(i, f[i - 1])
        BY <4>1, Zenon
      <4> QED BY <2>3, <4>2, Zenon DEF IsRow
    <3> QED BY <2>1, <3>1, <3>2
  <2>5. PICK g : g = Session(db, format, lines) /\ g = Step(g)
    BY <2>2, <2>4, Zenon
  <2>6. g[0] = none /\ \A i \in 1..n : g[i] = op(i, g[i - 1])
    BY <2>1, <2>5
  <2>7. \A i \in 0..n : g[i] \in S
    BY <2>1, <2>6, RowsTyped, Zenon
  <2> QED BY <2>5, <2>6, <2>7, Zenon DEF n, S, op, none

<1> SUFFICES ASSUME NEW L, NEW lines \in Seq(L), NEW db, NEW format
             PROVE  SessionActsAsCommands(db, format, lines)
  BY Zenon
<1> DEFINE n == Len(lines)
           ends == {i \in DOMAIN lines : lines[i].kind \in {"quit", "eof", "readline_error"}}
           live == {i \in DOMAIN lines : \A j \in ends : i < j}
           dbs == {lines[j].arg : j \in {j \in DOMAIN lines : lines[j].kind = "database"}} \ {""}
           cmd(i) == IF i \in live
                     THEN AsCommand(lines[i], Latest(lines, i, "database", dbs, db),
                                              Latest(lines, i, "mode", Formats, format))
                     ELSE <<>>
           cmds == [i \in DOMAIN lines |-> cmd(i)]
           sent == run_repl(db, format, lines).calls
<1>1. SessionActsAsCommands(db, format, lines) <=> Kept(sent) = Concat(cmds)
  BY Zenon DEF SessionActsAsCommands, Kept, AlsoCommand, Latest, Chosen
<1>2. n \in Nat /\ DOMAIN lines = 1..n
  OBVIOUS
<1>3. \A j \in 1..n : lines[j].kind = "database" => (lines[j].arg \in dbs <=> lines[j].arg # "")
  BY <1>2, Zenon
<1>4. \A j \in 1..n : j \in ends <=> lines[j].kind \in {"quit", "eof", "readline_error"}
  BY <1>2, Zenon
<1>5. \A i \in 1..n : i \in live <=> \A j \in ends : i < j
  BY <1>2, Zenon
<1>6. ends \subseteq 1..n
  BY <1>2, Zenon
<1> HIDE DEF ends, dbs, live
<1> DEFINE C == {cmds[i][1] : i \in 1..n}
<1>7. cmds \in Seq(Seq(C)) /\ Len(cmds) = n
  <2>1. ASSUME NEW i \in 1..n PROVE cmd(i) \in Seq(C)
    <3>1. cmd(i) = <<>> \/ \E c : cmd(i) = <<c>>
      <4>1. \A line, d, f : AsCommand(line, d, f) = <<>> \/ \E c : AsCommand(line, d, f) = <<c>>
        BY <1>AsCommandIs, Zenon
      <4> QED BY <4>1, Zenon
    <3>2. cmds[i] = cmd(i)
      BY <1>2, Zenon
    <3>3. cmds[i][1] \in C
      BY Zenon
    <3> HIDE DEF cmds, C
    <3>4. \A c : <<c>>[1] = c /\ (c \in C => <<c>> \in Seq(C))
      OBVIOUS
    <3>5. <<>> \in Seq(C)
      OBVIOUS
    <3>6. CASE cmd(i) = <<>>
      BY <3>5, <3>6, Zenon
    <3>7. CASE \E c : cmd(i) = <<c>>
      <4>1. PICK c : cmd(i) = <<c>>
        BY <3>7, Zenon
      <4>2. c \in C
        BY <3>2, <3>3, <3>4, <4>1, Zenon
      <4> QED BY <3>4, <4>1, <4>2, Zenon
    <3> QED BY <3>1, <3>6, <3>7, Zenon
  <2> HIDE DEF C, cmd
  <2>2. cmds \in [1..n -> Seq(C)]
    BY <1>2, <2>1, Zenon
  <2> HIDE DEF cmds, n
  <2> QED BY <1>2, <2>2
<1> HIDE DEF C
<1>8. PICK ps : ps = Concats(cmds)
  BY Zenon
<1>9. /\ ps[0] = <<>> /\ \A i \in 1..n : ps[i] = ps[i - 1] \o cmds[i]
      /\ \A i \in 0..n : ps[i] \in Seq(C)
  <2> HIDE DEF cmds
  <2> QED BY <1>7, <1>8, ConcatsIs, Zenon
<1>10. \A i \in 1..n : cmds[i] = cmd(i)
  BY <1>2, Zenon
<1>11. Concat(cmds) = ps[n]
  <2> HIDE DEF cmds
  <2> QED BY <1>7, <1>8, Zenon DEF Concat
<1> HIDE DEF cmds
<1> DEFINE D == DbsOf(db, lines)
           F == DbsOf(format, lines)
           K == CallsOf(db, format, lines)
<1>12. PICK ss : ss = Session(db, format, lines)
  BY Zenon
<1>13. /\ ss[0] = [db |-> db, format |-> format, over |-> FALSE, calls |-> <<>>]
       /\ \A i \in 1..n : ss[i] = run_repl_line(ss[i - 1], lines[i])
       /\ \A i \in 0..n : ss[i] \in SessionStates(D, F, K)
  BY <1>12, <1>SessionIs, Zenon DEF StatesOf
<1> HIDE DEF D, F, K
<1> DEFINE Over(i) == ss[i].over <=> \E j \in ends : j <= i
           Held(i) == ~ss[i].over =>
                        /\ ss[i].db = Latest(lines, i + 1, "database", dbs, db)
                        /\ ss[i].format = Latest(lines, i + 1, "mode", Formats, format)
           Same(i) == Kept(ss[i].calls) = ps[i]
           T == {i \in 0..n : Over(i) /\ Held(i) /\ Same(i)}
<1>14. 0 \in T
  <2>1. PICK s : s = ss[0]
    BY Zenon
  <2>2. s.db = db /\ s.format = format /\ s.over = FALSE /\ s.calls = <<>>
    BY <1>13, <2>1
  <2>3. Over(0)
    <3>1. ~\E j \in ends : j <= 0
      BY <1>2, <1>6
    <3> QED BY <2>1, <2>2, <3>1, Zenon
  <2>4. 0 + 1 = 1 /\ 0 \in 0..n
    BY <1>2
  <2>5. Held(0)
    <3>1. /\ Latest(lines, 1, "database", dbs, db) = db
          /\ Latest(lines, 1, "mode", Formats, format) = format
      <4>1. Latest(lines, 1, "database", dbs, db) = db
        BY <1>LatestFirst
      <4>2. Latest(lines, 1, "mode", Formats, format) = format
        BY <1>LatestFirst
      <4> QED BY <4>1, <4>2, Zenon
    <3> QED BY <2>1, <2>2, <2>4, <3>1, Zenon
  <2>6. Kept(<<>>) = <<>>
    <3>1. [i \in DOMAIN <<>> |-> IF i \in {k \in DOMAIN <<>> : AlsoCommand(<<>>[k])}
                                 THEN << <<>>[i] >> ELSE <<>>] = <<>>
      <4>1. PICK z : z = <<>> /\ DOMAIN z = {}
        OBVIOUS
      <4>2. PICK y : y = [i \in {} |-> IF i \in {k \in {} : AlsoCommand(z[k])}
                                        THEN << z[i] >> ELSE z]
        BY Zenon
      <4>3. y = [i \in {} |-> i] /\ z = [i \in {} |-> i]
        BY <4>1, <4>2
      <4> QED BY <4>1, <4>2, <4>3, Zenon
    <3> QED BY <3>1, ConcatNone, Zenon DEF Kept, At
  <2>7. Same(0)
    BY <1>9, <2>1, <2>2, <2>6, Zenon
  <2> QED BY <2>3, <2>4, <2>5, <2>7, Zenon
<1>15. ASSUME NEW i \in 1..n, i - 1 \in T PROVE i \in T
  <2>1. i \in 0..n /\ i - 1 \in 0..n /\ (i - 1) + 1 = i /\ i \in Nat \ {0}
    BY <1>2
  <2>2. PICK s \in SessionStates(D, F, K) : s = ss[i - 1]
    BY <1>13, <2>1, Zenon
  <2>3. PICK t : t = ss[i]
    BY Zenon
  <2>4. PICK line : line = lines[i]
    BY Zenon
  <2>5. t = run_repl_line(s, line)
    BY <1>13, <2>2, <2>3, <2>4, Zenon
  <2>6. Over(i - 1) /\ Held(i - 1) /\ Same(i - 1)
    BY <1>15, Zenon
  <2>7. s.over <=> \E j \in ends : j <= i - 1
    BY <2>2, <2>6, Zenon
  <2>8. Kept(s.calls) = ps[i - 1]
    BY <2>2, <2>6, Zenon
  <2>9. ps[i] = ps[i - 1] \o cmd(i) /\ ps[i - 1] \in Seq(C)
    BY <1>9, <1>10, <2>1, Zenon
  <2>10. i \in live <=> ~\E j \in ends : j <= i
    BY <1>2, <1>5, <1>6
  <2>11. CASE s.over
    <3>1. t = s
      BY <2>5, <2>11, Zenon DEF run_repl_line
    <3>2. \E j \in ends : j <= i
      <4>1. PICK j \in ends : j <= i - 1
        BY <2>7, <2>11, Zenon
      <4>2. j \in 1..n
        BY <1>6, <4>1, Zenon
      <4>3. j <= i
        BY <1>2, <4>1, <4>2
      <4> QED BY <4>1, <4>3, Zenon
    <3>3. cmd(i) = <<>>
      BY <2>10, <3>2, Zenon
    <3>4. ps[i] = ps[i - 1]
      <4>1. PICK q \in Seq(C) : q = ps[i - 1]
        BY <2>9, Zenon
      <4>2. q \o <<>> = q
        BY <4>1
      <4> QED BY <2>9, <3>3, <4>1, <4>2, Zenon
    <3> QED BY <2>1, <2>3, <2>8, <2>11, <3>1, <3>2, <3>4, Zenon
  <2>12. CASE ~s.over
    <3>1. /\ t.db = IF line.kind = "database" /\ line.arg # "" THEN line.arg ELSE s.db
          /\ t.format = IF line.kind = "mode" /\ line.arg \in Formats THEN line.arg ELSE s.format
          /\ t.over \in BOOLEAN /\ (t.over <=> line.kind \in {"quit", "eof", "readline_error"})
          /\ t.calls = s.calls \o LineCalls(s.db, s.format, line)
      <4>1. LineDoes(s, line, run_repl_line(s, line))
        BY <2>2, <2>12, <1>LineIs, Zenon
      <4>2. LineDoes(s, line, t)
        BY <2>5, <4>1, Zenon
      <4> QED BY <4>2, Zenon DEF LineDoes
    <3>2. /\ s.db = Latest(lines, i, "database", dbs, db)
          /\ s.format = Latest(lines, i, "mode", Formats, format)
      <4>1. /\ s.db = Latest(lines, (i - 1) + 1, "database", dbs, db)
            /\ s.format = Latest(lines, (i - 1) + 1, "mode", Formats, format)
        BY <2>2, <2>6, <2>12, Zenon
      <4>2. PICK k : k = (i - 1) + 1 /\ k = i
        BY <2>1, Zenon
      <4> QED BY <4>1, <4>2, Zenon
    <3>3. Over(i)
      <4>1. ~\E j \in ends : j <= i - 1
        BY <2>7, <2>12, Zenon
      <4>2. (\E j \in ends : j <= i) <=> i \in ends
        BY <1>2, <1>6, <4>1
      <4> QED BY <1>4, <2>3, <2>4, <3>1, <4>2, Zenon
    <3>4. Held(i)
      <4>1. t.db = Latest(lines, i + 1, "database", dbs, db)
        <5>1. LatestMoves(lines, i, "database", dbs, db)
          BY <2>1, <1>LatestNext, Zenon
        <5> QED BY <1>3, <2>4, <3>1, <3>2, <5>1, Zenon DEF LatestMoves
      <4>2. t.format = Latest(lines, i + 1, "mode", Formats, format)
        <5>1. LatestMoves(lines, i, "mode", Formats, format)
          BY <2>1, <1>LatestNext, Zenon
        <5> QED BY <2>4, <3>1, <3>2, <5>1, Zenon DEF LatestMoves
      <4> QED BY <2>3, <4>1, <4>2, Zenon
    <3>5. Same(i)
      <4>1. s.calls \in Seq(K)
        BY <2>2, Zenon DEF SessionStates
      <4>2. t \in SessionStates(D, F, K)
        BY <1>13, <2>1, <2>3, Zenon
      <4>3. t.calls \in Seq(K)
        BY <4>2, Zenon DEF SessionStates
      <4>4. PICK cs : cs = LineCalls(s.db, s.format, line)
        BY Zenon
      <4>5. PICK as : as = AsCommand(line, s.db, s.format)
        BY Zenon
      <4>6. \/ cs = <<>> /\ as = <<>>
            \/ \E c : cs = <<c>> /\ as = IF AlsoCommand(c) THEN <<c>> ELSE <<>>
        BY <4>4, <4>5, <1>AsCommandIs, Zenon
      <4>7. cmd(i) = as
        <5>1. CASE i \in live
          BY <2>4, <3>2, <4>5, <5>1, Zenon
        <5>2. CASE i \notin live
          <6>1. line.kind \in {"quit", "eof", "readline_error"}
            BY <2>3, <2>10, <3>1, <3>3, <5>2, Zenon
          <6>2. /\ line.kind # "sql" /\ line.kind \notin {"tables", "schema"}
                /\ line.kind # "status" /\ line.kind # "read"
            BY <6>1
          <6>3. as = <<>>
            BY <4>5, <6>2, Zenon DEF AsCommand
          <6> QED BY <5>2, <6>3, Zenon
        <5> QED BY <5>1, <5>2, Zenon
      <4>8. Kept(t.calls) = ps[i - 1] \o as
        <5>1. CASE cs = <<>> /\ as = <<>>
          <6>1. s.calls \o <<>> = s.calls
            BY <4>1
          <6>2. PICK q \in Seq(C) : q = ps[i - 1]
            BY <2>9, Zenon
          <6>3. q \o <<>> = q
            BY <6>2
          <6> QED BY <2>8, <3>1, <4>4, <5>1, <6>1, <6>2, <6>3, Zenon
        <5>2. CASE \E c : cs = <<c>> /\ as = IF AlsoCommand(c) THEN <<c>> ELSE <<>>
          <6>1. PICK c : cs = <<c>> /\ as = IF AlsoCommand(c) THEN <<c>> ELSE <<>>
            BY <5>2, Zenon
          <6>2. PICK old, new : old = s.calls /\ new = t.calls
            BY Zenon
          <6>3. old \in Seq(K) /\ new \in Seq(K) /\ new = old \o <<c>>
            BY <3>1, <4>1, <4>3, <4>4, <6>1, <6>2, Zenon
          <6>4. new = Append(old, c) /\ c \in K
            <7>1. new = Append(old, c)
              BY <6>3
            <7>2. new[Len(old) + 1] = c /\ Len(old) + 1 \in 1..Len(new)
              BY <6>3, <7>1
            <7>3. new[Len(old) + 1] \in K
              BY <6>3, <7>2
            <7> QED BY <7>1, <7>2, <7>3, Zenon
          <6>5. Kept(Append(old, c)) = Kept(old) \o (IF AlsoCommand(c) THEN <<c>> ELSE <<>>)
            BY <6>3, <6>4, <1>KeptAppend, Zenon
          <6> QED BY <2>8, <6>1, <6>2, <6>4, <6>5, Zenon
        <5> QED BY <4>6, <5>1, <5>2, Zenon
      <4> QED BY <2>3, <2>9, <4>7, <4>8, Zenon
    <3> QED BY <2>1, <3>3, <3>4, <3>5, Zenon
  <2> QED BY <2>11, <2>12, Zenon
<1>16. n \in T
  <2>1. n \in 0..n
    BY <1>2
  <2> HIDE DEF T, n
  <2> QED BY <1>2, <1>14, <1>15, <2>1, Upwards, Zenon
<1>17. sent = ss[n].calls
  BY <1>12, Zenon DEF run_repl
<1> QED BY <1>1, <1>11, <1>16, <1>17, Zenon

=============================================================================
