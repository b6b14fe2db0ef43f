---------------------------- MODULE OnceSequences ----------------------------
(***************************************************************************)
(* Lemmas about sequences without repetition (IsInjective of the module    *)
(* Functions) and the set of what they hold (ToSet): the queues of waiting *)
(* callers, pushes and runs of the models.  First, induction on numbers.   *)
(***************************************************************************)
EXTENDS Integers, Sequences, SequencesExt, SequenceTheorems, WellFoundedInduction,
        TLAPS

\* A set of numbers that is not empty has a smallest one.
LEMMA SmallestNat ==
  ASSUME NEW S \in SUBSET Nat, S # {}
  PROVE  \E k \in S : \A j \in S : k <= j
<1>1. PICK k \in S : \A j \in S : ~(<<j, k>> \in OpToRel(<, Nat))
  BY WFMin, NatLessThanWellFounded, Zenon
<1>2. \A j \in S : ~(j < k)
  BY <1>1 DEF OpToRel
<1> QED BY <1>2

\* What holds of 0 and of the successor of each number it holds of holds of all.
LEMMA AllNat ==
  ASSUME NEW S \in SUBSET Nat, 0 \in S, \A n \in S : n + 1 \in S
  PROVE  S = Nat
<1> SUFFICES ASSUME Nat \ S # {} PROVE FALSE
  OBVIOUS
<1> DEFINE D == Nat \ S
<1>0. D \in SUBSET Nat /\ D # {}
  OBVIOUS
<1> HIDE DEF D
<1>1. \E k \in D : \A j \in D : k <= j
  BY <1>0, SmallestNat
<1>2. PICK k \in Nat \ S : \A j \in Nat \ S : k <= j
  BY <1>1 DEF D
<1>3. k # 0 /\ k - 1 \in Nat
  BY <1>2
<1>4. k - 1 \in S
  BY <1>2, <1>3
<1>5. (k - 1) + 1 = k
  BY <1>2
<1> QED BY <1>2, <1>4, <1>5

\* Three parts in a row, grouped either way.
LEMMA Regroup ==
  ASSUME NEW S, NEW s \in Seq(S), NEW t \in Seq(S), NEW u \in Seq(S),
         NEW st, st = s \o t, NEW tu, tu = t \o u
  PROVE  st \o u = s \o tu
BY ConcatAssociative, SMTT(60)

\* What a concatenation holds.
LEMMA ConcatSet ==
  ASSUME NEW S, NEW s \in Seq(S), NEW t \in Seq(S)
  PROVE  ToSet(s \o t) = ToSet(s) \cup ToSet(t)
<1>1. /\ s \o t \in Seq(S)
      /\ Len(s \o t) = Len(s) + Len(t)
      /\ \A k \in 1..Len(s) + Len(t) :
           (s \o t)[k] = IF k <= Len(s) THEN s[k] ELSE t[k - Len(s)]
  BY ConcatProperties
<1>2. /\ Len(s) \in Nat /\ Len(t) \in Nat
      /\ DOMAIN s = 1..Len(s) /\ DOMAIN t = 1..Len(t) /\ DOMAIN (s \o t) = 1..Len(s \o t)
  BY <1>1, LenProperties
<1>3. ToSet(s \o t) \subseteq ToSet(s) \cup ToSet(t)
  BY <1>1, <1>2 DEF ToSet
<1>4. ToSet(s) \subseteq ToSet(s \o t)
  BY <1>1, <1>2 DEF ToSet
<1>5. ASSUME NEW k \in 1..Len(t) PROVE t[k] \in ToSet(s \o t)
  <2>1. k + Len(s) \in 1..Len(s) + Len(t) /\ ~(k + Len(s) <= Len(s)) /\ (k + Len(s)) - Len(s) = k
    BY <1>2
  <2> QED BY <2>1, <1>1, <1>2 DEF ToSet
<1>6. ToSet(t) \subseteq ToSet(s \o t)
  BY <1>5, <1>2 DEF ToSet
<1> QED BY <1>3, <1>4, <1>6

\* One item more.
LEMMA AppendSet ==
  ASSUME NEW S, NEW s \in Seq(S), NEW e \in S
  PROVE  ToSet(Append(s, e)) = ToSet(s) \cup {e}
<1> DEFINE t == <<e>>
<1>1. t \in Seq(S) /\ Append(s, e) = s \o t
  BY AppendIsConcat
<1>2. DOMAIN t = {1} /\ t[1] = e
  OBVIOUS
<1>3. ToSet(t) = {e}
  BY <1>2 DEF ToSet
<1> HIDE DEF t
<1> QED BY <1>1, <1>3, ConcatSet

\* A concatenation repeats nothing if neither part does and they share nothing.
LEMMA ConcatOnce ==
  ASSUME NEW S, NEW s \in Seq(S), NEW t \in Seq(S),
         IsInjective(s), IsInjective(t), ToSet(s) \cap ToSet(t) = {}
  PROVE  IsInjective(s \o t)
<1>1. /\ s \o t \in Seq(S)
      /\ Len(s \o t) = Len(s) + Len(t)
      /\ \A k \in 1..Len(s) + Len(t) :
           (s \o t)[k] = IF k <= Len(s) THEN s[k] ELSE t[k - Len(s)]
  BY ConcatProperties
<1>2. /\ Len(s) \in Nat /\ Len(t) \in Nat
      /\ DOMAIN s = 1..Len(s) /\ DOMAIN t = 1..Len(t) /\ DOMAIN (s \o t) = 1..Len(s \o t)
  BY <1>1, LenProperties
<1>3. SUFFICES ASSUME NEW a \in 1..Len(s) + Len(t), NEW b \in 1..Len(s) + Len(t),
                      (s \o t)[a] = (s \o t)[b]
               PROVE  a = b
  BY <1>1, <1>2 DEF IsInjective
<1>4. CASE a <= Len(s) /\ b <= Len(s)
  BY <1>1, <1>2, <1>3, <1>4 DEF IsInjective
<1>5. CASE a > Len(s) /\ b > Len(s)
  <2>1. a - Len(s) \in 1..Len(t) /\ b - Len(s) \in 1..Len(t)
    BY <1>2, <1>5
  <2>2. t[a - Len(s)] = t[b - Len(s)]
    BY <1>1, <1>2, <1>3, <1>5
  <2>3. a - Len(s) = b - Len(s)
    BY <2>1, <2>2, <1>2 DEF IsInjective
  <2> QED BY <2>3, <1>2
<1>6. CASE a <= Len(s) /\ b > Len(s)
  <2>1. a \in 1..Len(s) /\ b - Len(s) \in 1..Len(t)
    BY <1>2, <1>6
  <2>2. s[a] = t[b - Len(s)]
    BY <1>1, <1>2, <1>3, <1>6
  <2>3. s[a] \in ToSet(s) /\ t[b - Len(s)] \in ToSet(t)
    BY <2>1, <1>2 DEF ToSet
  <2> QED BY <2>2, <2>3
<1>7. CASE a > Len(s) /\ b <= Len(s)
  <2>1. b \in 1..Len(s) /\ a - Len(s) \in 1..Len(t)
    BY <1>2, <1>7
  <2>2. s[b] = t[a - Len(s)]
    BY <1>1, <1>2, <1>3, <1>7
  <2>3. s[b] \in ToSet(s) /\ t[a - Len(s)] \in ToSet(t)
    BY <2>1, <1>2 DEF ToSet
  <2> QED BY <2>2, <2>3
<1> QED BY <1>2, <1>4, <1>5, <1>6, <1>7

\* One new item more.
LEMMA AppendOnce ==
  ASSUME NEW S, NEW s \in Seq(S), NEW e \in S, IsInjective(s), e \notin ToSet(s)
  PROVE  IsInjective(Append(s, e))
<1> DEFINE t == <<e>>
<1>1. t \in Seq(S) /\ Append(s, e) = s \o t
  BY AppendIsConcat
<1>2. ToSet(t) = {e} /\ IsInjective(t)
  BY DEF ToSet, IsInjective
<1> HIDE DEF t
<1> QED BY <1>1, <1>2, ConcatOnce

\* Whatever part of a sequence is cut out, it repeats nothing either.
LEMMA SubSeqOnce ==
  ASSUME NEW S, NEW s \in Seq(S), IsInjective(s), NEW m \in 1..Len(s) + 1, NEW n \in 0..Len(s)
  PROVE  /\ SubSeq(s, m, n) \in Seq(S)
         /\ IsInjective(SubSeq(s, m, n))
         /\ ToSet(SubSeq(s, m, n)) = {s[k] : k \in m..n}
<1>0. Len(s) \in Nat /\ DOMAIN s = 1..Len(s)
  BY LenProperties
<1>1. \A k \in m..n : s[k] \in S
  BY <1>0, ElementOfSeq
<1>2. /\ SubSeq(s, m, n) \in Seq(S)
      /\ Len(SubSeq(s, m, n)) = IF m <= n THEN n - m + 1 ELSE 0
      /\ \A k \in 1..n - m + 1 : SubSeq(s, m, n)[k] = s[m + k - 1]
  BY <1>0, <1>1, SubSeqProperties
<1>3. DOMAIN SubSeq(s, m, n) = 1..n - m + 1
  BY <1>0, <1>2, LenProperties
<1>4. IsInjective(SubSeq(s, m, n))
  <2>1. SUFFICES ASSUME NEW a \in 1..n - m + 1, NEW b \in 1..n - m + 1,
                        SubSeq(s, m, n)[a] = SubSeq(s, m, n)[b]
                 PROVE  a = b
    BY <1>3 DEF IsInjective
  <2>2. s[m + a - 1] = s[m + b - 1] /\ m + a - 1 \in 1..Len(s) /\ m + b - 1 \in 1..Len(s)
    BY <1>0, <1>2, <2>1
  <2>3. m + a - 1 = m + b - 1
    BY <1>0, <2>2 DEF IsInjective
  <2> QED BY <2>3
<1>5. ASSUME NEW k \in m..n PROVE s[k] \in ToSet(SubSeq(s, m, n))
  <2>1. k - m + 1 \in 1..n - m + 1 /\ m + (k - m + 1) - 1 = k
    BY <1>0
  <2>2. SubSeq(s, m, n)[k - m + 1] = s[k]
    BY <1>2, <2>1
  <2> QED BY <1>3, <2>1, <2>2 DEF ToSet
<1>6. ASSUME NEW k \in 1..n - m + 1 PROVE SubSeq(s, m, n)[k] \in {s[j] : j \in m..n}
  <2>1. m + k - 1 \in m..n
    BY <1>0
  <2> QED BY <1>2, <2>1
<1>7. ToSet(SubSeq(s, m, n)) = {s[k] : k \in m..n}
  BY <1>3, <1>5, <1>6 DEF ToSet
<1> QED BY <1>2, <1>4, <1>7

\* A sequence without repetition, cut in two.
LEMMA Cut ==
  ASSUME NEW S, NEW s \in Seq(S), IsInjective(s), NEW n \in 0..Len(s)
  PROVE  /\ SubSeq(s, 1, n) \in Seq(S) /\ IsInjective(SubSeq(s, 1, n))
         /\ SubSeq(s, n + 1, Len(s)) \in Seq(S) /\ IsInjective(SubSeq(s, n + 1, Len(s)))
         /\ ToSet(SubSeq(s, 1, n)) \cup ToSet(SubSeq(s, n + 1, Len(s))) = ToSet(s)
         /\ ToSet(SubSeq(s, 1, n)) \cap ToSet(SubSeq(s, n + 1, Len(s))) = {}
<1>0. Len(s) \in Nat /\ DOMAIN s = 1..Len(s) /\ n \in Nat
  BY LenProperties
<1>1. 1 \in 1..Len(s) + 1 /\ n + 1 \in 1..Len(s) + 1 /\ Len(s) \in 0..Len(s)
  BY <1>0
<1>2. /\ SubSeq(s, 1, n) \in Seq(S) /\ IsInjective(SubSeq(s, 1, n))
      /\ ToSet(SubSeq(s, 1, n)) = {s[k] : k \in 1..n}
  BY <1>1, SubSeqOnce
<1>3. /\ SubSeq(s, n + 1, Len(s)) \in Seq(S) /\ IsInjective(SubSeq(s, n + 1, Len(s)))
      /\ ToSet(SubSeq(s, n + 1, Len(s))) = {s[k] : k \in n + 1..Len(s)}
  BY <1>1, SubSeqOnce
<1>4. 1..Len(s) = (1..n) \cup (n + 1..Len(s)) /\ (1..n) \cap (n + 1..Len(s)) = {}
  BY <1>0
<1>5. ToSet(s) = {s[k] : k \in 1..n} \cup {s[k] : k \in n + 1..Len(s)}
  BY <1>0, <1>4 DEF ToSet
<1>6. ASSUME NEW a \in 1..n, NEW b \in n + 1..Len(s) PROVE s[a] # s[b]
  BY <1>0 DEF IsInjective
<1>7. {s[k] : k \in 1..n} \cap {s[k] : k \in n + 1..Len(s)} = {}
  BY <1>6
<1> QED BY <1>2, <1>3, <1>5, <1>7

\* A sequence without repetition, and one element taken out of it.
LEMMA Without ==
  ASSUME NEW S, NEW s \in Seq(S), IsInjective(s), NEW n \in DOMAIN s
  PROVE  /\ RemoveAt(s, n) \in Seq(S)
         /\ IsInjective(RemoveAt(s, n))
         /\ ToSet(RemoveAt(s, n)) = ToSet(s) \ {s[n]}
<1>0. Len(s) \in Nat /\ DOMAIN s = 1..Len(s) /\ n \in 1..Len(s)
  BY LenProperties
<1> DEFINE l == SubSeq(s, 1, n - 1)
           r == SubSeq(s, n + 1, Len(s))
<1>1. /\ 1 \in 1..Len(s) + 1 /\ n - 1 \in 0..Len(s)
      /\ n + 1 \in 1..Len(s) + 1 /\ Len(s) \in 0..Len(s)
  BY <1>0
<1>2. l \in Seq(S) /\ IsInjective(l) /\ ToSet(l) = {s[k] : k \in 1..n - 1}
  BY <1>1, SubSeqOnce
<1>3. r \in Seq(S) /\ IsInjective(r) /\ ToSet(r) = {s[k] : k \in n + 1..Len(s)}
  BY <1>1, SubSeqOnce
<1>4. RemoveAt(s, n) = l \o r
  BY DEF RemoveAt
<1>5. ASSUME NEW a \in 1..n - 1, NEW b \in n + 1..Len(s) PROVE s[a] # s[b] /\ s[a] # s[n] /\ s[b] # s[n]
  BY <1>0 DEF IsInjective
<1>6. ToSet(l) \cap ToSet(r) = {}
  BY <1>2, <1>3, <1>5
<1>7. 1..Len(s) = (1..n - 1) \cup {n} \cup (n + 1..Len(s))
  BY <1>0
<1>8. ToSet(s) = ToSet(l) \cup {s[n]} \cup ToSet(r)
  BY <1>0, <1>2, <1>3, <1>7 DEF ToSet
<1>9. ASSUME NEW a \in 1..n - 1 PROVE s[a] # s[n]
  BY <1>0 DEF IsInjective
<1>10. ASSUME NEW b \in n + 1..Len(s) PROVE s[b] # s[n]
  BY <1>0 DEF IsInjective
<1>11. s[n] \notin ToSet(l) /\ s[n] \notin ToSet(r)
  BY <1>2, <1>3, <1>9, <1>10
<1> HIDE DEF l, r
<1>a. l \o r \in Seq(S)
  BY <1>2, <1>3, ConcatProperties
<1>b. IsInjective(l \o r)
  BY <1>2, <1>3, <1>6, ConcatOnce
<1>c. ToSet(l \o r) = ToSet(l) \cup ToSet(r)
  BY <1>2, <1>3, ConcatSet
<1>12. l \o r \in Seq(S) /\ IsInjective(l \o r) /\ ToSet(l \o r) = ToSet(l) \cup ToSet(r)
  BY <1>a, <1>b, <1>c
<1> QED BY <1>4, <1>8, <1>11, <1>12

\* The head of a sequence without repetition, and the others.
LEMMA Behead ==
  ASSUME NEW S, NEW s \in Seq(S), IsInjective(s), s # <<>>
  PROVE  /\ Head(s) \in S /\ Head(s) \in ToSet(s)
         /\ Tail(s) \in Seq(S) /\ IsInjective(Tail(s))
         /\ ToSet(Tail(s)) = ToSet(s) \ {Head(s)}
<1>a. Len(s) \in Nat \ {0} /\ DOMAIN s = 1..Len(s)
  BY LenProperties, EmptySeq
<1>b. Head(s) = s[1]
  BY <1>a
<1>c. Tail(s) = SubSeq(s, 2, Len(s))
  BY TailIsSubSeq
<1>0. /\ Len(s) \in Nat \ {0} /\ DOMAIN s = 1..Len(s)
      /\ Head(s) = s[1] /\ 1 \in DOMAIN s /\ Tail(s) = SubSeq(s, 2, Len(s))
  BY <1>a, <1>b, <1>c
<1>1. 2 \in 1..Len(s) + 1 /\ Len(s) \in 0..Len(s)
  BY <1>0
<1> DEFINE u == SubSeq(s, 2, Len(s))
<1>d. u \in Seq(S) /\ IsInjective(u) /\ ToSet(u) = {s[k] : k \in 2..Len(s)}
  BY <1>1, SubSeqOnce
<1>e. Tail(s) = u
  BY <1>c
<1> HIDE DEF u
<1>2. /\ Tail(s) \in Seq(S) /\ IsInjective(Tail(s))
      /\ ToSet(Tail(s)) = {s[k] : k \in 2..Len(s)}
  BY <1>d, <1>e
<1>3. ASSUME NEW k \in 2..Len(s) PROVE s[k] # s[1]
  BY <1>0 DEF IsInjective
<1>4. 1..Len(s) = {1} \cup (2..Len(s))
  BY <1>0
<1>5. ToSet(s) = {s[1]} \cup {s[k] : k \in 2..Len(s)}
  BY <1>0, <1>4 DEF ToSet
<1>6. Head(s) \in S /\ Head(s) \in ToSet(s)
  BY <1>0, ElementOfSeq DEF ToSet
<1> QED BY <1>0, <1>2, <1>3, <1>5, <1>6

\* A sequence is its head and the rest.
LEMMA HeadAndTail ==
  ASSUME NEW S, NEW s \in Seq(S), s # <<>>
  PROVE  s = <<Head(s)>> \o Tail(s)
<1>1. Len(s) \in Nat \ {0} /\ 1 \in 1..Len(s) /\ Len(s) \in 1..Len(s)
  BY LenProperties, EmptySeq
<1>2. SubSeq(s, 1, Len(s)) = <<s[1]>> \o SubSeq(s, 1 + 1, Len(s))
  BY <1>1, SubSeqRecursiveFirst
<1> QED BY <1>2, SubSeqFull, TailIsSubSeq

\* The empty sequence.
LEMMA EmptyOnce == ToSet(<<>>) = {} /\ IsInjective(<<>>)
BY DEF ToSet, IsInjective

\* A sequence that holds nothing is empty.
LEMMA NothingIn ==
  ASSUME NEW S, NEW s \in Seq(S), s # <<>>
  PROVE  Head(s) \in S /\ Head(s) \in ToSet(s)
<1>1. Len(s) \in Nat \ {0} /\ DOMAIN s = 1..Len(s)
  BY LenProperties, EmptySeq
<1>2. Head(s) = s[1] /\ 1 \in DOMAIN s
  BY <1>1
<1> QED BY <1>1, <1>2, ElementOfSeq DEF ToSet
=============================================================================
