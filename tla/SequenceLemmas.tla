-------------------------- MODULE SequenceLemmas --------------------------
(***************************************************************************)
(* Facts about numbers, sequences and recursive functions that the proofs  *)
(* of several components cite.                                             *)
(***************************************************************************)
EXTENDS Integers, SequencesExt, SequenceTheorems, WellFoundedInduction, TLAPS

\* A set of numbers has a least one: every induction of the proofs rests on it, and
\* so does what CHOOSE takes where the code takes the first.
LEMMA LeastOf ==
  ASSUME NEW S \in SUBSET Nat, S # {}
  PROVE  \E n \in S : \A m \in S : n <= m
<1>1. PICK n \in S : \A m \in S : ~(<<m, n>> \in OpToRel(<, Nat))
  BY NatLessThanWellFounded, WFMin
<1>2. \A m \in S : ~(m < n)
  BY <1>1 DEF OpToRel
<1>3. QED
  BY <1>2

\* What InsertAt and RemoveAt return, place by place.
IsInserted(q, s, c, e) ==
    /\ Len(q) = Len(s) + 1
    /\ \A k \in 1 .. Len(s) + 1 : q[k] = IF k < c THEN s[k] ELSE IF k = c THEN e ELSE s[k - 1]
IsRemoved(q, s, d) ==
    /\ Len(q) = Len(s) - 1
    /\ \A k \in 1 .. Len(s) - 1 : q[k] = IF k < d THEN s[k] ELSE s[k + 1]

\* InsertAt of SequencesExt, which dhcpserver.c and linked_list.c do with their pointers.
LEMMA InsertedAt ==
  ASSUME NEW S, NEW s \in Seq(S), NEW c \in 1 .. Len(s) + 1, NEW e \in S
  PROVE  InsertAt(s, c, e) \in Seq(S) /\ IsInserted(InsertAt(s, c, e), s, c, e)
<1> DEFINE n == Len(s)
           l == SubSeq(s, 1, c - 1)
           r == SubSeq(s, c, n)
           b == l \o <<e>>
           q == b \o r
<1>1. n \in Nat /\ \A i \in 1 .. n : s[i] \in S
  OBVIOUS
<1>2. l \in Seq(S) /\ Len(l) = c - 1 /\ \A k \in 1 .. c - 1 : l[k] = s[k]
  BY <1>1, SubSeqProperties
<1>3. r \in Seq(S) /\ Len(r) = n - c + 1 /\ \A k \in 1 .. n - c + 1 : r[k] = s[c + k - 1]
  BY <1>1, SubSeqProperties
<1>4. <<e>> \in Seq(S) /\ Len(<<e>>) = 1 /\ <<e>>[1] = e
  OBVIOUS
<1> HIDE DEF l, r
<1>5. /\ b \in Seq(S) /\ Len(b) = Len(l) + 1
      /\ \A k \in 1 .. Len(l) + 1 : b[k] = IF k <= Len(l) THEN l[k] ELSE <<e>>[k - Len(l)]
  BY <1>2, <1>4, ConcatProperties
<1>6. b \in Seq(S) /\ Len(b) = c /\ \A k \in 1 .. c : b[k] = IF k < c THEN s[k] ELSE e
  BY <1>1, <1>2, <1>4, <1>5
<1> HIDE DEF b
<1>7. /\ q \in Seq(S) /\ Len(q) = Len(b) + Len(r)
      /\ \A k \in 1 .. Len(b) + Len(r) : q[k] = IF k <= Len(b) THEN b[k] ELSE r[k - Len(b)]
  BY <1>3, <1>6, ConcatProperties
<1> HIDE DEF q
<1>8. q \in Seq(S) /\ Len(q) = n + 1
  BY <1>1, <1>3, <1>6, <1>7
<1>9. ASSUME NEW k \in 1 .. n + 1
      PROVE  q[k] = IF k < c THEN s[k] ELSE IF k = c THEN e ELSE s[k - 1]
  <2>1. CASE k <= c
    BY <1>1, <1>3, <1>6, <1>7, <2>1
  <2>2. CASE k > c
    <3>1. k - c \in 1 .. n - c + 1 /\ c + (k - c) - 1 = k - 1 /\ ~(k <= c) /\ ~(k < c) /\ k # c
      BY <1>1, <2>2
    <3>2. q[k] = r[k - c]
      BY <1>1, <1>3, <1>6, <1>7, <3>1
    <3>3. r[k - c] = s[k - 1]
      BY <1>3, <3>1
    <3>4. QED
      BY <3>1, <3>2, <3>3
  <2>3. QED
    BY <1>1, <2>1, <2>2
<1>10. q = InsertAt(s, c, e)
  BY DEF InsertAt, q, b, l, r
<1>11. QED
  BY <1>8, <1>9, <1>10 DEF IsInserted

\* RemoveAt of SequencesExt, which dhcpserver.c and linked_list.c do with their pointers.
LEMMA RemovedAt ==
  ASSUME NEW S, NEW s \in Seq(S), NEW d \in 1 .. Len(s)
  PROVE  RemoveAt(s, d) \in Seq(S) /\ IsRemoved(RemoveAt(s, d), s, d)
<1> DEFINE n == Len(s)
           l == SubSeq(s, 1, d - 1)
           r == SubSeq(s, d + 1, n)
           q == l \o r
<1>1. n \in Nat /\ \A i \in 1 .. n : s[i] \in S
  OBVIOUS
<1>2. l \in Seq(S) /\ Len(l) = d - 1 /\ \A k \in 1 .. d - 1 : l[k] = s[k]
  BY <1>1, SubSeqProperties
<1>3. r \in Seq(S) /\ Len(r) = n - d /\ \A k \in 1 .. n - d : r[k] = s[d + k]
  BY <1>1, SubSeqProperties
<1> HIDE DEF l, r
<1>4. /\ q \in Seq(S) /\ Len(q) = Len(l) + Len(r)
      /\ \A k \in 1 .. Len(l) + Len(r) : q[k] = IF k <= Len(l) THEN l[k] ELSE r[k - Len(l)]
  BY <1>2, <1>3, ConcatProperties
<1> HIDE DEF q
<1>5. q \in Seq(S) /\ Len(q) = n - 1
  BY <1>1, <1>2, <1>3, <1>4
<1>6. ASSUME NEW k \in 1 .. n - 1 PROVE q[k] = IF k < d THEN s[k] ELSE s[k + 1]
  <2>1. CASE k < d
    <3>1. k \in 1 .. d - 1 /\ k \in 1 .. Len(l) + Len(r) /\ k <= Len(l)
      BY <1>1, <1>2, <1>3, <2>1
    <3>2. q[k] = l[k] /\ l[k] = s[k]
      BY <1>2, <1>4, <3>1
    <3>3. QED
      BY <2>1, <3>2
  <2>2. CASE ~(k < d)
    <3>1. k - (d - 1) \in 1 .. n - d /\ d + (k - (d - 1)) = k + 1 /\ ~(k <= d - 1)
      BY <1>1, <2>2
    <3>2. q[k] = r[k - (d - 1)]
      <4>1. k \in 1 .. Len(l) + Len(r) /\ ~(k <= Len(l))
        BY <1>1, <1>2, <1>3, <3>1
      <4>2. QED
        BY <1>2, <1>4, <4>1
    <3>3. r[k - (d - 1)] = s[k + 1]
      BY <1>3, <3>1
    <3>4. QED
      BY <2>2, <3>2, <3>3
  <2>3. QED
    BY <2>1, <2>2
<1>7. q = RemoveAt(s, d)
  BY DEF RemoveAt, q, l, r
<1>8. QED
  BY <1>5, <1>6, <1>7 DEF IsRemoved

\* A function that starts from base and goes on by step: what a recursive
\* definition over 0 .. n stands for.
IsRun(f, n, A, base, step) ==
    f \in [0 .. n -> A] /\ f[0] = base /\ \A i \in 1 .. n : f[i] = step[<<i, f[i - 1]>>]

\* There is one, so that a walk along a list is well defined.  (Had it none
\* for some n, take the least: it is not 0, and the one for n - 1 can be extended.)
LEMMA Iterates ==
  ASSUME NEW A, NEW base \in A, NEW step \in [Nat \X A -> A], NEW n \in Nat
  PROVE  \E f : IsRun(f, n, A, base, step)
<1> DEFINE Steps(f, k) == f[0] = base /\ \A i \in 1 .. k : f[i] = step[<<i, f[i - 1]>>]
           S == {k \in Nat : ~\E f \in [0 .. k -> A] : Steps(f, k)}
<1>1. SUFFICES ASSUME n \in S PROVE FALSE
  BY DEF IsRun
<1>2. PICK m \in S : \A k \in S : m <= k
  <2>1. S \in SUBSET Nat /\ S # {}
    BY <1>1
  <2> HIDE DEF S
  <2>2. QED
    BY <2>1, LeastOf
<1>3. m # 0
  <2>1. [i \in 0 .. 0 |-> base] \in [0 .. 0 -> A] /\ Steps([i \in 0 .. 0 |-> base], 0)
    OBVIOUS
  <2>2. QED
    BY <2>1
<1>4. m - 1 \in Nat /\ m - 1 \notin S
  BY <1>2, <1>3
<1>5. PICK f \in [0 .. m - 1 -> A] : Steps(f, m - 1)
  BY <1>4
<1> DEFINE g == [i \in 0 .. m |-> IF i = m THEN step[<<m, f[m - 1]>>] ELSE f[i]]
<1>6. step[<<m, f[m - 1]>>] \in A
  BY <1>3, <1>4, <1>5
<1>7. g \in [0 .. m -> A] /\ g[0] = base
  BY <1>3, <1>4, <1>5, <1>6
<1>8. ASSUME NEW i \in 1 .. m PROVE g[i] = step[<<i, g[i - 1]>>]
  <2>1. CASE i = m
    <3>1. g[m] = step[<<m, f[m - 1]>>] /\ g[m - 1] = f[m - 1]
      BY <1>3, <1>4
    <3>2. QED
      BY <2>1, <3>1, Zenon
  <2>2. CASE i # m
    <3>1. g[i] = f[i] /\ g[i - 1] = f[i - 1] /\ i \in 1 .. m - 1
      BY <1>3, <1>4, <2>2
    <3>2. QED
      BY <1>5, <3>1, Zenon
  <2>3. QED
    BY <2>1, <2>2
<1>9. Steps(g, m)
  BY <1>7, <1>8
<1>10. QED
  BY <1>2, <1>7, <1>9
===========================================================================
