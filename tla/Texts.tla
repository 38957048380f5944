------------------------------- MODULE Texts --------------------------------
(* Operators on sequences for the modules about texts, bytes and rows.  A fold is
   the recursive function of its values, one for every place of the sequence and
   one in front of the first: theorems are about these. *)
EXTENDS Naturals, Sequences, FiniteSetsExt

(* The first i of some sequences, one after the other. *)
Concats(parts) ==
  LET upto[i \in 0..Len(parts)] == IF i = 0 THEN <<>> ELSE upto[i - 1] \o parts[i] IN upto
Concat(parts) == Concats(parts)[Len(parts)]

(* The elements at some places, in order. *)
At(s, places) == Concat([i \in DOMAIN s |-> IF i \in places THEN <<s[i]>> ELSE <<>>])

(* The number that the first i digits are. *)
Numbers(digits, base) ==
  LET upto[i \in 0..Len(digits)] == IF i = 0 THEN 0 ELSE upto[i - 1] * base + digits[i] IN upto
Number(digits, base) == Numbers(digits, base)[Len(digits)]

IsPrefixOf(s, t) == Len(s) <= Len(t) /\ s = SubSeq(t, 1, Len(s))
=============================================================================
