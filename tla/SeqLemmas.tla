----------------------------- MODULE SeqLemmas -----------------------------
(***************************************************************************)
(* Facts about sequences that the proofs of several components need.       *)
(*                                                                         *)
(* Induction is stated about sets: a set that holds 0 and n + 1 with n     *)
(* holds every natural number.  That is a statement without operator       *)
(* parameters, which follows from the least-element principle and which    *)
(* the provers can use.                                                    *)
(***************************************************************************)
EXTENDS Integers, Sequences, SequencesExt, SubSequences, SequenceTheorems, WellFoundedInduction, TLAPS

\* Induction on natural numbers
LEMMA NatSetInduction ==
    ASSUME NEW T, 0 \in T, \A n \in Nat : n \in T => n + 1 \in T
    PROVE  Nat \subseteq T
<1> DEFINE Bad == {n \in Nat : n \notin T}
<1>1. SUFFICES ASSUME Bad # {} PROVE FALSE
  OBVIOUS
<1>2. PICK x \in Bad : \A y \in Bad : <<y, x>> \notin OpToRel(<, Nat)
  <2>1. Bad \subseteq Nat
    OBVIOUS
  <2> QED
    BY <1>1, <2>1, WFMin, NatLessThanWellFounded, Zenon
<1>3. \A y \in Bad : ~(y < x)
  BY <1>2 DEF OpToRel
<1>4. x # 0 /\ x - 1 \in Nat
  OBVIOUS
<1>5. x - 1 \notin Bad
  BY <1>3, <1>4
<1> QED
  BY <1>4, <1>5

\* Induction on sequences
LEMMA SeqSetInduction ==
    ASSUME NEW S, NEW T, <<>> \in T,
           \A s \in Seq(S), e \in S : s \in T => Append(s, e) \in T
    PROVE  Seq(S) \subseteq T
<1> DEFINE Good == {n \in Nat : \A s \in Seq(S) : Len(s) = n => s \in T}
<1>1. 0 \in Good
  <2>1. \A s \in Seq(S) : Len(s) = 0 => s = <<>>
    BY EmptySeq
  <2> QED
    BY <2>1
<1>2. ASSUME NEW n \in Nat, n \in Good PROVE n + 1 \in Good
  <2>1. SUFFICES ASSUME NEW s \in Seq(S), Len(s) = n + 1 PROVE s \in T
    OBVIOUS
  <2>2. PICK t \in Seq(S), e \in S : s = Append(t, e)
    <3>1. s # <<>>
      BY <2>1
    <3> QED
      BY <3>1, SequenceEmptyOrAppend, Zenon
  <2>3. Len(t) = n
    BY <2>1, <2>2
  <2> QED
    BY <1>2, <2>2, <2>3
<1>3. Nat \subseteq Good
  <2> HIDE DEF Good
  <2> QED
    BY <1>1, <1>2, NatSetInduction
<1> QED
  BY <1>3, LenProperties

-----------------------------------------------------------------------------
(* Concatenation and prefixes.                                             *)

\* A sequence is its head and its tail.
LEMMA HeadAndTail ==
    ASSUME NEW S, NEW s \in Seq(S), s # <<>>
    PROVE  /\ Head(s) \in S /\ Tail(s) \in Seq(S) /\ s = <<Head(s)>> \o Tail(s)
           /\ Len(s) = 1 => Tail(s) = <<>>
           /\ Len(s) # 1 => Tail(s) # <<>>
<1>1. Head(s) \in S /\ Tail(s) \in Seq(S) /\ Len(Tail(s)) = Len(s) - 1
  BY HeadTailProperties
<1>2. s = <<Head(s)>> \o Tail(s)
  OBVIOUS
<1>3. Len(s) = 1 => Tail(s) = <<>>
  <2>1. Len(s) = 1 => Len(Tail(s)) \notin Nat \ {0}
    BY <1>1
  <2> QED
    BY <1>1, <2>1, EmptySeq, Zenon
<1>4. Len(s) # 1 => Tail(s) # <<>>
  <2>1. Len(s) \in Nat /\ Len(<<>>) = 0
    OBVIOUS
  <2>2. Len(s) # 1 => Len(s) - 1 # 0
    BY <2>1
  <2> QED
    BY <1>1, <2>1, <2>2, Zenon
<1> QED
  BY <1>1, <1>2, <1>3, <1>4

\* The two ways to put three sequences together
Regrouped(a, b, c) == (a \o b) \o c = a \o (b \o c)

\* make the same one.
LEMMA Regroup ==
    ASSUME NEW S, NEW a \in Seq(S), NEW b \in Seq(S), NEW c \in Seq(S)
    PROVE  Regrouped(a, b, c)
BY ConcatAssociative DEF Regrouped

\* The first of two parts is a prefix of both together.
LEMMA FrontIsPrefix ==
    ASSUME NEW S, NEW a \in Seq(S), NEW b \in Seq(S)
    PROVE  IsPrefix(a, a \o b)
<1>1. Len(a \o b) = Len(a) + Len(b) /\ Len(a) \in Nat /\ Len(b) \in Nat
  OBVIOUS
<1>2. SubSeq(a, 1, Len(a)) = a
  BY SubSeqFull
<1>3. SubSeq(a \o b, 1, Len(a)) = a
  <2>1. a \o b \in Seq(S)
    OBVIOUS
  <2>2. \A i \in 1..Len(a) : (a \o b)[i] = a[i] /\ a[i] \in S
    OBVIOUS
  <2>3. /\ SubSeq(a \o b, 1, Len(a)) \in Seq(S) /\ Len(SubSeq(a \o b, 1, Len(a))) = Len(a)
        /\ \A i \in 1..Len(a) : SubSeq(a \o b, 1, Len(a))[i] = (a \o b)[i]
    BY <1>1, <2>1, <2>2
  <2> QED
    BY <2>2, <2>3, SeqEqual
<1> QED
  BY <1>1, <1>2, <1>3 DEF IsPrefix

\* A prefix stays one when the longer sequence grows.
LEMMA PrefixAppend ==
    ASSUME NEW S, NEW s \in Seq(S), NEW t \in Seq(S), IsPrefix(s, t), NEW e
    PROVE  IsPrefix(s, Append(t, e))
<1>1. Len(s) \in Nat /\ Len(t) \in Nat /\ Len(s) <= Len(t)
  BY DEF IsPrefix
<1>2. Len(Append(t, e)) = Len(t) + 1 /\ \A i \in 1..Len(s) : Append(t, e)[i] = t[i]
  BY <1>1
<1>3. SubSeq(Append(t, e), 1, Len(s)) = SubSeq(t, 1, Len(s))
  BY <1>1, <1>2
<1> QED
  BY <1>1, <1>2, <1>3 DEF IsPrefix

\* A beginning of a beginning is one.
LEMMA PrefixTransitive ==
    ASSUME NEW S, NEW a \in Seq(S), NEW b \in Seq(S), NEW c \in Seq(S),
           IsPrefix(a, b), IsPrefix(b, c)
    PROVE  IsPrefix(a, c)
<1>1. \A k \in 1..Len(a) : a[k] = b[k]
  BY DEF IsPrefix
<1>2. \A k \in 1..Len(b) : b[k] = c[k]
  BY DEF IsPrefix
<1> QED
  BY <1>1, <1>2 DEF IsPrefix

\* If a sequence with one more element begins t, that element is the next of t.
LEMMA NextOfPrefix ==
    ASSUME NEW S, NEW s \in Seq(S), NEW x \in S, NEW t \in Seq(S), IsPrefix(Append(s, x), t)
    PROVE  Len(s) < Len(t) /\ t[Len(s) + 1] = x
<1> DEFINE n == Len(s) + 1
           u == Append(s, x)
<1>1. u \in Seq(S) /\ Len(u) = n /\ u[n] = x /\ n \in Nat /\ n >= 1 /\ n > Len(s)
  OBVIOUS
<1>2. n <= Len(t) /\ SubSeq(u, 1, n) = SubSeq(t, 1, n)
  BY <1>1 DEF IsPrefix
<1> HIDE DEF u, n
<1>3. SubSeq(u, 1, n)[n] = u[n] /\ SubSeq(t, 1, n)[n] = t[n]
  BY <1>1, <1>2
<1>4. t[n] = x /\ Len(s) < Len(t)
  BY <1>1, <1>2, <1>3
<1> QED
  BY <1>4 DEF n

-----------------------------------------------------------------------------
(* FlattenSeq.                                                             *)

\* g flattens the first i elements of s, for every i up to n.
Flattens(g, s, n) ==
    g = [i \in 1..n |-> IF i = 1 THEN s[i] ELSE g[i - 1] \o s[i]]

\* The recursive equation of FlattenSeq, one index at a time
LEMMA FlattensAt ==
    ASSUME NEW g, NEW s, NEW n, Flattens(g, s, n), NEW i \in 1..n
    PROVE  g[i] = IF i = 1 THEN s[i] ELSE g[i - 1] \o s[i]
<1> DEFINE r == [j \in 1..n |-> IF j = 1 THEN s[j] ELSE g[j - 1] \o s[j]]
<1>1. r[i] = IF i = 1 THEN s[i] ELSE g[i - 1] \o s[i]
  OBVIOUS
<1>2. g = r
  BY Zenon DEF Flattens
<1> QED
  BY <1>1, <1>2, Zenon

\* The recursive function of FlattenSeq exists for every length.
LEMMA FlattensExists == ASSUME NEW s PROVE \A n \in Nat : \E g : Flattens(g, s, n)
<1> DEFINE T == {n \in Nat : \E g : Flattens(g, s, n)}
<1>1. 0 \in T
  <2>1. Flattens([i \in 1..0 |-> 0], s, 0)
    BY DEF Flattens
  <2> QED
    BY <2>1
<1>2. ASSUME NEW n \in Nat, n \in T PROVE n + 1 \in T
  <2>1. PICK g : Flattens(g, s, n)
    BY <1>2
  <2> DEFINE h == [i \in 1..(n + 1) |->
                     IF i <= n THEN g[i] ELSE IF i = 1 THEN s[i] ELSE g[i - 1] \o s[i]]
  <2>2. \A i \in 1..n : h[i] = IF i = 1 THEN s[i] ELSE h[i - 1] \o s[i]
    <3>1. TAKE i \in 1..n
    <3>2. h[i] = g[i] /\ (i # 1 => h[i - 1] = g[i - 1])
      OBVIOUS
    <3> QED
      BY <2>1, <3>2, FlattensAt
  <2>3. h[n + 1] = IF n + 1 = 1 THEN s[n + 1] ELSE h[n] \o s[n + 1]
    OBVIOUS
  <2>4. Flattens(h, s, n + 1)
    <3>1. \A i \in 1..(n + 1) : h[i] = IF i = 1 THEN s[i] ELSE h[i - 1] \o s[i]
      <4>1. \A i \in 1..(n + 1) : i \in 1..n \/ i = n + 1
        OBVIOUS
      <4>2. n + 1 - 1 = n
        OBVIOUS
      <4> HIDE DEF h
      <4> QED
        BY <2>2, <2>3, <4>1, <4>2
    <3>2. h = [i \in 1..(n + 1) |-> h[i]]
      OBVIOUS
    <3> HIDE DEF h
    <3> QED
      BY <3>1, <3>2 DEF Flattens
  <2> QED
    BY <2>4
<1>3. Nat \subseteq T
  <2> HIDE DEF T
  <2> QED
    BY <1>1, <1>2, NatSetInduction
<1> QED
  BY <1>3

\* FlattenSeq is the last value of that function.
LEMMA FlattenSeqDef ==
    ASSUME NEW s, Len(s) \in Nat \ {0}
    PROVE  \E g : Flattens(g, s, Len(s)) /\ FlattenSeq(s) = g[Len(s)]
<1> DEFINE f == CHOOSE g : Flattens(g, s, Len(s))
<1>1. Flattens(f, s, Len(s))
  BY FlattensExists
<1>2. FlattenSeq(s) = f[Len(s)]
  BY DEF FlattenSeq, Flattens
<1> QED
  BY <1>1, <1>2

\* Two flattenings agree as far as the sequences do.
LEMMA FlattensAgree ==
    ASSUME NEW s, NEW t, Len(s) \in Nat, Len(t) \in Nat, Len(s) <= Len(t),
           \A i \in 1..Len(s) : s[i] = t[i],
           NEW g, NEW h, Flattens(g, s, Len(s)), Flattens(h, t, Len(t))
    PROVE  \A i \in 1..Len(s) : g[i] = h[i]
<1> DEFINE m == Len(s)
           T == {i \in Nat : i \in 1..m => g[i] = h[i]}
<1>1. 0 \in T
  OBVIOUS
<1>2. ASSUME NEW i \in Nat, i \in T PROVE i + 1 \in T
  <2>1. SUFFICES ASSUME i + 1 \in 1..m PROVE g[i + 1] = h[i + 1]
    OBVIOUS
  <2>2. g[i + 1] = IF i + 1 = 1 THEN s[i + 1] ELSE g[i + 1 - 1] \o s[i + 1]
    BY <2>1, FlattensAt
  <2>3. h[i + 1] = IF i + 1 = 1 THEN t[i + 1] ELSE h[i + 1 - 1] \o t[i + 1]
    BY <2>1, FlattensAt
  <2>4. i + 1 # 1 => i \in 1..m /\ i + 1 - 1 = i
    BY <2>1
  <2> QED
    BY <1>2, <2>1, <2>2, <2>3, <2>4
<1>3. Nat \subseteq T
  <2> HIDE DEF T
  <2> QED
    BY <1>1, <1>2, NatSetInduction
<1> QED
  BY <1>3

\* Nothing to concatenate
LEMMA FlattenEmpty == FlattenSeq(<<>>) = <<>>
BY DEF FlattenSeq

\* Sequences over S flatten to a sequence over S.
LEMMA FlattenType ==
    ASSUME NEW S, NEW s \in Seq(Seq(S))
    PROVE  FlattenSeq(s) \in Seq(S)
<1>1. CASE s = <<>>
  <2>1. <<>> \in Seq(S)
    OBVIOUS
  <2> QED
    BY <1>1, <2>1, FlattenEmpty, Zenon
<1>2. CASE s # <<>>
  <2>1. Len(s) \in Nat \ {0}
    BY <1>2
  <2>2. PICK g : Flattens(g, s, Len(s)) /\ FlattenSeq(s) = g[Len(s)]
    BY <2>1, FlattenSeqDef
  <2> DEFINE T == {i \in Nat : i \in 1..Len(s) => g[i] \in Seq(S)}
  <2>3. 0 \in T
    OBVIOUS
  <2>4. ASSUME NEW i \in Nat, i \in T PROVE i + 1 \in T
    <3>1. SUFFICES ASSUME i + 1 \in 1..Len(s) PROVE g[i + 1] \in Seq(S)
      OBVIOUS
    <3>2. g[i + 1] = IF i + 1 = 1 THEN s[i + 1] ELSE g[i + 1 - 1] \o s[i + 1]
      BY <2>2, <3>1, FlattensAt
    <3>3. i + 1 # 1 => i \in 1..Len(s) /\ i + 1 - 1 = i
      BY <3>1, <2>1
    <3>4. s[i + 1] \in Seq(S)
      BY <3>1, ElementOfSeq
    <3> QED
      BY <2>4, <3>2, <3>3, <3>4
  <2>5. Nat \subseteq T
    <3> HIDE DEF T
    <3> QED
      BY <2>3, <2>4, NatSetInduction
  <2> QED
    BY <2>1, <2>2, <2>5
<1> QED
  BY <1>1, <1>2

\* One more sequence at the end comes last.
LEMMA FlattenAppend ==
    ASSUME NEW S, NEW s \in Seq(Seq(S)), NEW e \in Seq(S)
    PROVE  FlattenSeq(Append(s, e)) = FlattenSeq(s) \o e
<1> DEFINE t == Append(s, e)
<1>1. /\ Len(s) \in Nat /\ Len(t) = Len(s) + 1 /\ t[Len(s) + 1] = e
      /\ \A i \in 1..Len(s) : s[i] = t[i]
  OBVIOUS
<1> HIDE DEF t
<1>2. PICK h : Flattens(h, t, Len(t)) /\ FlattenSeq(t) = h[Len(t)]
  BY <1>1, FlattenSeqDef
<1>3. h[Len(s) + 1] = IF Len(s) + 1 = 1 THEN e ELSE h[Len(s)] \o e
  BY <1>1, <1>2, FlattensAt
<1>4. CASE s = <<>>
  BY <1>1, <1>2, <1>3, <1>4, FlattenEmpty DEF t
<1>5. CASE s # <<>>
  <2>1. Len(s) \in Nat \ {0}
    BY <1>5
  <2>2. PICK g : Flattens(g, s, Len(s)) /\ FlattenSeq(s) = g[Len(s)]
    BY <2>1, FlattenSeqDef
  <2>3. \A i \in 1..Len(s) : g[i] = h[i]
    <3>1. Len(s) \in Nat /\ Len(t) \in Nat /\ Len(s) <= Len(t)
      BY <1>1
    <3> QED
      <4>1. Flattens(g, s, Len(s)) /\ Flattens(h, t, Len(t))
        BY <1>2, <2>2
      <4>2. \A i \in 1..Len(s) : s[i] = t[i]
        BY <1>1
      <4> QED
        BY <4>1, <4>2, <3>1, FlattensAgree
  <2>4. h[Len(s)] = FlattenSeq(s)
    BY <2>1, <2>2, <2>3
  <2>5. h[Len(s) + 1] = h[Len(s)] \o e
    BY <1>3, <2>1
  <2> QED
    BY <1>1, <1>2, <2>4, <2>5, Zenon DEF t
<1> QED
  BY <1>4, <1>5

\* FlattenSeq distributes over concatenation.
LEMMA FlattenConcat ==
    ASSUME NEW S, NEW s \in Seq(Seq(S)), NEW t \in Seq(Seq(S))
    PROVE  FlattenSeq(s \o t) = FlattenSeq(s) \o FlattenSeq(t)
<1> DEFINE T == {u \in Seq(Seq(S)) : FlattenSeq(s \o u) = FlattenSeq(s) \o FlattenSeq(u)}
<1>1. <<>> \in T
  <2>1. FlattenSeq(s) \o <<>> = FlattenSeq(s) /\ s \o <<>> = s
    BY FlattenType, ConcatEmptySeq
  <2>2. <<>> \in Seq(Seq(S))
    OBVIOUS
  <2> QED
    BY <2>1, <2>2, FlattenEmpty, Zenon
<1>2. ASSUME NEW u \in Seq(Seq(S)), NEW e \in Seq(S), u \in T PROVE Append(u, e) \in T
  <2>1. s \o Append(u, e) = Append(s \o u, e) /\ s \o u \in Seq(Seq(S))
    <3>1. <<e>> \in Seq(Seq(S)) /\ s \o u \in Seq(Seq(S)) /\ Append(u, e) = u \o <<e>>
      OBVIOUS
    <3>2. Append(s \o u, e) = (s \o u) \o <<e>>
      <4>1. \A q \in Seq(Seq(S)) : Append(q, e) = q \o <<e>>
        OBVIOUS
      <4> QED
        BY <3>1, <4>1, Zenon
    <3>3. Regrouped(s, u, <<e>>)
      BY <3>1, Regroup, Zenon
    <3> QED
      BY <3>1, <3>2, <3>3, Zenon DEF Regrouped
  <2>2. FlattenSeq(Append(s \o u, e)) = FlattenSeq(s \o u) \o e
    BY <2>1, FlattenAppend
  <2>3. FlattenSeq(Append(u, e)) = FlattenSeq(u) \o e
    BY FlattenAppend
  <2>4. (FlattenSeq(s) \o FlattenSeq(u)) \o e = FlattenSeq(s) \o (FlattenSeq(u) \o e)
    <3> DEFINE x == FlattenSeq(s)
               y == FlattenSeq(u)
    <3>1. x \in Seq(S) /\ y \in Seq(S)
      BY FlattenType
    <3> HIDE DEF x, y
    <3>2. Regrouped(x, y, e)
      BY <3>1, Regroup, Zenon
    <3> QED
      BY <3>2, Zenon DEF Regrouped, x, y
  <2>5. Append(u, e) \in Seq(Seq(S))
    OBVIOUS
  <2> QED
    BY <1>2, <2>1, <2>2, <2>3, <2>4, <2>5
<1>3. Seq(Seq(S)) \subseteq T
  <2> HIDE DEF T
  <2> QED
    BY <1>1, <1>2, SeqSetInduction
<1> QED
  BY <1>3

\* One sequence alone is the result.
LEMMA FlattenSingle ==
    ASSUME NEW S, NEW e \in Seq(S)
    PROVE  FlattenSeq(<<e>>) = e
<1>1. <<e>> = Append(<<>>, e) /\ <<>> \in Seq(Seq(S)) /\ <<>> \o e = e
  OBVIOUS
<1> QED
  BY <1>1, FlattenAppend, FlattenEmpty

\* The first element comes first.
LEMMA FlattenFirst ==
    ASSUME NEW S, NEW s \in Seq(Seq(S)), s # <<>>
    PROVE  FlattenSeq(s) = Head(s) \o FlattenSeq(Tail(s))
<1>1. s = <<Head(s)>> \o Tail(s) /\ Head(s) \in Seq(S) /\ Tail(s) \in Seq(Seq(S))
  OBVIOUS
<1>2. <<Head(s)>> \in Seq(Seq(S))
  BY <1>1
<1>3. FlattenSeq(<<Head(s)>> \o Tail(s)) = FlattenSeq(<<Head(s)>>) \o FlattenSeq(Tail(s))
  BY <1>1, <1>2, FlattenConcat, Zenon
<1>4. FlattenSeq(<<Head(s)>>) = Head(s)
  BY <1>1, FlattenSingle, Zenon
<1> QED
  BY <1>1, <1>3, <1>4, Zenon

-----------------------------------------------------------------------------
(* Sequences of which elements were lost.                                  *)

\* A subsequence stays one when the longer sequence grows.
LEMMA SubSeqOfLonger ==
    ASSUME NEW S, NEW s \in Seq(S), NEW t \in Seq(S), NEW u \in Seq(S), IsSubSeqOf(s, t)
    PROVE  IsSubSeqOf(s, t \o u)
<1>1. PICK f \in [1..Len(s) -> 1..Len(t)] :
          /\ \A i, j \in 1..Len(s) : i < j => f[i] < f[j]
          /\ \A i \in 1..Len(s) : s[i] = t[f[i]]
  BY DEF IsSubSeqOf
<1>2. Len(s) \in Nat /\ Len(t) \in Nat /\ Len(u) \in Nat /\ Len(t \o u) = Len(t) + Len(u)
  OBVIOUS
<1>3. \A k \in 1..Len(t) : k \in 1..Len(t \o u) /\ (t \o u)[k] = t[k]
  OBVIOUS
<1>4. f \in [1..Len(s) -> 1..Len(t \o u)]
  BY <1>1, <1>3, Zenon
<1>5. \A i \in 1..Len(s) : s[i] = (t \o u)[f[i]]
  BY <1>1, <1>3, Zenon
<1> QED
  BY <1>1, <1>4, <1>5, Zenon DEF IsSubSeqOf

\* So does the beginning of a subsequence.
LEMMA FrontOfSubSeq ==
    ASSUME NEW S, NEW a \in Seq(S), NEW b \in Seq(S), NEW t \in Seq(S), IsSubSeqOf(a \o b, t)
    PROVE  IsSubSeqOf(a, t)
<1>1. PICK f \in [1..Len(a \o b) -> 1..Len(t)] :
          /\ \A i, j \in 1..Len(a \o b) : i < j => f[i] < f[j]
          /\ \A i \in 1..Len(a \o b) : (a \o b)[i] = t[f[i]]
  BY DEF IsSubSeqOf
<1>2. \A k \in 1..Len(a) : k \in 1..Len(a \o b) /\ (a \o b)[k] = a[k]
  OBVIOUS
<1> DEFINE g == [i \in 1..Len(a) |-> f[i]]
<1>3. g \in [1..Len(a) -> 1..Len(t)] /\ \A i \in 1..Len(a) : g[i] = f[i]
  BY <1>1, <1>2, Zenon
<1> HIDE DEF g
<1>4. \A i, j \in 1..Len(a) : i < j => g[i] < g[j]
  BY <1>1, <1>2, <1>3, Zenon
<1>5. \A i \in 1..Len(a) : a[i] = t[g[i]]
  BY <1>1, <1>2, <1>3, Zenon
<1> QED
  BY <1>3, <1>4, <1>5, Zenon DEF IsSubSeqOf

\* And so does a subsequence when the same is added to both.
LEMMA SubSeqOfConcat ==
    ASSUME NEW S, NEW s \in Seq(S), NEW t \in Seq(S), NEW u \in Seq(S), IsSubSeqOf(s, t)
    PROVE  IsSubSeqOf(s \o u, t \o u)
<1>1. PICK f \in [1..Len(s) -> 1..Len(t)] :
          /\ \A i, j \in 1..Len(s) : i < j => f[i] < f[j]
          /\ \A i \in 1..Len(s) : s[i] = t[f[i]]
  BY DEF IsSubSeqOf
<1> DEFINE m == Len(s)
           n == Len(t)
           l == Len(u)
           g == [i \in 1..(m + l) |-> IF i <= m THEN f[i] ELSE i + (n - m)]
<1>2. /\ m \in Nat /\ n \in Nat /\ l \in Nat /\ Len(t \o u) = n + l /\ Len(s \o u) = m + l
      /\ \A k \in 1..n : (t \o u)[k] = t[k]
      /\ \A k \in (n + 1)..(n + l) : (t \o u)[k] = u[k - n]
      /\ \A k \in 1..m : (s \o u)[k] = s[k]
      /\ \A k \in (m + 1)..(m + l) : (s \o u)[k] = u[k - m]
  OBVIOUS
<1>3. /\ \A i \in 1..m : f[i] \in 1..n
      /\ \A i, j \in 1..m : i < j => f[i] < f[j]
      /\ \A i \in 1..m : s[i] = t[f[i]]
  BY <1>1
<1>g. \A i \in 1..(m + l) : g[i] = IF i <= m THEN f[i] ELSE i + (n - m)
  OBVIOUS
<1> HIDE DEF m, n, l
<1>4. \A i \in 1..(m + l) : (IF i <= m THEN f[i] ELSE i + (n - m)) \in 1..(n + l)
  BY <1>2, <1>3
<1>5. g \in [1..(m + l) -> 1..(n + l)]
  BY <1>4
<1> HIDE DEF g
<1>6. \A i, j \in 1..(m + l) : i < j => g[i] < g[j]
  <2> SUFFICES ASSUME NEW i \in 1..(m + l), NEW j \in 1..(m + l), i < j PROVE g[i] < g[j]
    OBVIOUS
  <2>1. CASE j <= m
    <3>1. i \in 1..m /\ j \in 1..m /\ i <= m
      BY <2>1, <1>2
    <3>2. g[i] = f[i] /\ g[j] = f[j]
      BY <2>1, <3>1, <1>g
    <3> QED
      BY <3>1, <3>2, <1>3
  <2>2. CASE i <= m /\ m < j
    <3>1. g[i] = f[i] /\ g[j] = j + (n - m) /\ f[i] \in 1..n
      BY <2>2, <1>2, <1>3, <1>g
    <3> QED
      BY <3>1, <2>2, <1>2
  <2>3. CASE m < i
    <3>1. g[i] = i + (n - m) /\ g[j] = j + (n - m)
      BY <2>3, <1>2, <1>g
    <3> QED
      BY <3>1, <1>2
  <2> QED
    BY <2>1, <2>2, <2>3, <1>2
<1>7. \A i \in 1..(m + l) : (s \o u)[i] = (t \o u)[g[i]]
  <2> SUFFICES ASSUME NEW i \in 1..(m + l) PROVE (s \o u)[i] = (t \o u)[g[i]]
    OBVIOUS
  <2>1. CASE i <= m
    <3>1. i \in 1..m
      BY <2>1, <1>2
    <3>2. g[i] = f[i]
      BY <2>1, <1>g
    <3> QED
      BY <3>1, <3>2, <1>2, <1>3, Zenon
  <2>2. CASE ~(i <= m)
    <3>1. g[i] = i + (n - m)
      BY <2>2, <1>g
    <3>2. i + (n - m) \in (n + 1)..(n + l) /\ i \in (m + 1)..(m + l) /\ (i + (n - m)) - n = i - m
      BY <2>2, <1>2
    <3> QED
      BY <3>1, <3>2, <1>2, ZenonT(40)
  <2> QED
    BY <2>1, <2>2
<1> QED
  BY <1>2, <1>5, <1>6, <1>7, ZenonT(40) DEF IsSubSeqOf

\* A sequence of which nothing is lost.
LEMMA SubSeqOfItself ==
    ASSUME NEW S, NEW s \in Seq(S)
    PROVE  IsSubSeqOf(s, s)
<1> DEFINE f == [i \in 1..Len(s) |-> i]
<1>1. f \in [1..Len(s) -> 1..Len(s)] /\ \A i \in 1..Len(s) : f[i] = i
  OBVIOUS
<1> HIDE DEF f
<1> QED
  BY <1>1, Zenon DEF IsSubSeqOf

\* More is lost of what is left.
LEMMA SubSeqTransitive ==
    ASSUME NEW S, NEW s \in Seq(S), NEW t \in Seq(S), NEW u \in Seq(S),
           IsSubSeqOf(s, t), IsSubSeqOf(t, u)
    PROVE  IsSubSeqOf(s, u)
<1>1. PICK f \in [1..Len(s) -> 1..Len(t)] :
          /\ \A i, j \in 1..Len(s) : i < j => f[i] < f[j]
          /\ \A i \in 1..Len(s) : s[i] = t[f[i]]
  BY DEF IsSubSeqOf
<1>2. PICK g \in [1..Len(t) -> 1..Len(u)] :
          /\ \A i, j \in 1..Len(t) : i < j => g[i] < g[j]
          /\ \A i \in 1..Len(t) : t[i] = u[g[i]]
  BY DEF IsSubSeqOf
<1> DEFINE h == [i \in 1..Len(s) |-> g[f[i]]]
<1>3. h \in [1..Len(s) -> 1..Len(u)] /\ \A i \in 1..Len(s) : h[i] = g[f[i]] /\ f[i] \in 1..Len(t)
  BY <1>1, <1>2, Zenon
<1> HIDE DEF h
<1>4. \A i, j \in 1..Len(s) : i < j => h[i] < h[j]
  BY <1>1, <1>2, <1>3, Zenon
<1>5. \A i \in 1..Len(s) : s[i] = u[h[i]]
  BY <1>1, <1>2, <1>3, Zenon
<1> QED
  BY <1>3, <1>4, <1>5, Zenon DEF IsSubSeqOf

\* Something in the middle is lost.
LEMMA WithoutMiddle ==
    ASSUME NEW S, NEW a \in Seq(S), NEW b \in Seq(S), NEW c \in Seq(S), NEW t \in Seq(S),
           IsSubSeqOf((a \o b) \o c, t)
    PROVE  IsSubSeqOf(a \o c, t)
<1>1. IsSubSeqOf(a, a)
  BY SubSeqOfItself
<1>2. IsSubSeqOf(a, a \o b) /\ a \o b \in Seq(S)
  BY <1>1, SubSeqOfLonger
<1> DEFINE ab == a \o b
<1>3. ab \in Seq(S) /\ IsSubSeqOf(a, ab) /\ IsSubSeqOf(ab \o c, t)
  BY <1>2
<1> HIDE DEF ab
<1>4. IsSubSeqOf(a \o c, ab \o c)
  BY <1>3, SubSeqOfConcat
<1>5. a \o c \in Seq(S) /\ ab \o c \in Seq(S)
  BY <1>3
<1> QED
  BY <1>3, <1>4, <1>5, SubSeqTransitive

-----------------------------------------------------------------------------
(* Elements that stand for sequences: codes for bytes.                     *)

\* What the elements of q stand for under F, and all that one after the other
PartsOf(F, q) == [k \in DOMAIN q |-> F[q[k]]]
Spread(F, q)  == FlattenSeq(PartsOf(F, q))

\* The parts are sequences, and so are all of them together.
LEMMA SpreadType ==
    ASSUME NEW A, NEW S, NEW F \in [A -> Seq(S)], NEW q \in Seq(A)
    PROVE  PartsOf(F, q) \in Seq(Seq(S)) /\ Spread(F, q) \in Seq(S)
<1>1. DOMAIN q = 1..Len(q) /\ Len(q) \in Nat /\ \A k \in 1..Len(q) : q[k] \in A
  OBVIOUS
<1>2. \A k \in 1..Len(q) : F[q[k]] \in Seq(S)
  BY <1>1
<1>3. PartsOf(F, q) \in Seq(Seq(S))
  BY <1>1, <1>2 DEF PartsOf
<1> QED
  BY <1>3, FlattenType DEF Spread

\* F spreads q and r apart from each other.
SpreadsApart(F, q, r) == Spread(F, q \o r) = Spread(F, q) \o Spread(F, r)

\* Spread distributes over concatenation.
LEMMA SpreadConcat ==
    ASSUME NEW A, NEW S, NEW F \in [A -> Seq(S)], NEW q \in Seq(A), NEW r \in Seq(A)
    PROVE  SpreadsApart(F, q, r)
<1> DEFINE Parts(s) == PartsOf(F, s)
<1>1. Parts(q) \in Seq(Seq(S)) /\ Parts(r) \in Seq(Seq(S))
  BY SpreadType
<1>2. q \o r \in Seq(A) /\ Len(q) \in Nat /\ Len(r) \in Nat
  OBVIOUS
<1>3. Parts(q \o r) \in Seq(Seq(S)) /\ Parts(q) \o Parts(r) \in Seq(Seq(S))
  <2>1. Parts(q \o r) \in Seq(Seq(S))
    BY <1>2, SpreadType
  <2> HIDE DEF Parts
  <2> QED
    BY <1>1, <2>1
<1>4. \A s \in Seq(A) : Len(Parts(s)) = Len(s) /\ \A k \in 1..Len(s) : Parts(s)[k] = F[s[k]]
  BY DEF PartsOf
<1>5. /\ Len(q \o r) = Len(q) + Len(r)
      /\ \A k \in 1..Len(q) : (q \o r)[k] = q[k]
      /\ \A k \in (Len(q) + 1)..(Len(q) + Len(r)) : (q \o r)[k] = r[k - Len(q)]
  OBVIOUS
<1>6. /\ Len(Parts(q) \o Parts(r)) = Len(Parts(q)) + Len(Parts(r))
      /\ \A k \in 1..Len(Parts(q)) : (Parts(q) \o Parts(r))[k] = Parts(q)[k]
      /\ \A k \in (Len(Parts(q)) + 1)..(Len(Parts(q)) + Len(Parts(r))) :
             (Parts(q) \o Parts(r))[k] = Parts(r)[k - Len(Parts(q))]
  <2> HIDE DEF Parts
  <2> QED
    BY <1>1
<1> HIDE DEF Parts
<1>7. Len(Parts(q \o r)) = Len(Parts(q) \o Parts(r))
  BY <1>2, <1>4, <1>5, <1>6
<1>8. \A k \in 1..Len(Parts(q \o r)) : Parts(q \o r)[k] = (Parts(q) \o Parts(r))[k]
  <2> SUFFICES ASSUME NEW k \in 1..(Len(q) + Len(r))
               PROVE  Parts(q \o r)[k] = (Parts(q) \o Parts(r))[k]
    BY <1>2, <1>4, <1>5
  <2>0. Parts(q \o r)[k] = F[(q \o r)[k]] /\ Len(Parts(q)) = Len(q) /\ Len(Parts(r)) = Len(r)
    BY <1>2, <1>4, <1>5
  <2>1. CASE k \in 1..Len(q)
    <3>1. (q \o r)[k] = q[k] /\ Parts(q)[k] = F[q[k]]
      BY <2>1, <1>4, <1>5
    <3>2. (Parts(q) \o Parts(r))[k] = Parts(q)[k]
      BY <2>0, <2>1, <1>6
    <3> QED
      BY <2>0, <3>1, <3>2, Zenon
  <2>2. CASE k \in (Len(q) + 1)..(Len(q) + Len(r))
    <3> DEFINE j == k - Len(q)
    <3>1. j \in 1..Len(r)
      BY <2>2, <1>2
    <3>2. (q \o r)[k] = r[j] /\ Parts(r)[j] = F[r[j]]
      BY <2>2, <3>1, <1>4, <1>5
    <3>3. (Parts(q) \o Parts(r))[k] = Parts(r)[j]
      BY <2>0, <2>2, <1>6
    <3> QED
      BY <2>0, <3>2, <3>3, Zenon
  <2>3. k \in 1..Len(q) \/ k \in (Len(q) + 1)..(Len(q) + Len(r))
    BY <1>2
  <2> QED
    BY <2>1, <2>2, <2>3
<1>9. Parts(q \o r) = Parts(q) \o Parts(r)
  BY <1>3, <1>7, <1>8, SeqEqual
<1>10. FlattenSeq(Parts(q) \o Parts(r)) = FlattenSeq(Parts(q)) \o FlattenSeq(Parts(r))
  BY <1>1, FlattenConcat
<1> QED
  BY <1>9, <1>10 DEF Spread, SpreadsApart, Parts

\* One item
LEMMA SpreadSingle ==
    ASSUME NEW A, NEW S, NEW F \in [A -> Seq(S)], NEW x \in A
    PROVE  Spread(F, <<x>>) = F[x]
<1>1. PartsOf(F, <<x>>) = <<F[x]>>
  BY DEF PartsOf
<1> QED
  BY <1>1, FlattenSingle DEF Spread

\* The first item comes first.
LEMMA SpreadFirst ==
    ASSUME NEW A, NEW S, NEW F \in [A -> Seq(S)], NEW q \in Seq(A), q # <<>>
    PROVE  Spread(F, q) = F[Head(q)] \o Spread(F, Tail(q))
<1> DEFINE h == <<Head(q)>>
           t == Tail(q)
<1>1. Head(q) \in A /\ t \in Seq(A) /\ q = h \o t
  BY HeadAndTail
<1>2. h \in Seq(A)
  BY <1>1
<1>3. Spread(F, h) = F[Head(q)]
  BY <1>1, SpreadSingle
<1> HIDE DEF h, t
<1>4. SpreadsApart(F, h, t)
  BY <1>1, <1>2, SpreadConcat
<1> QED
  BY <1>1, <1>3, <1>4, Zenon DEF t, SpreadsApart

\* No items
LEMMA SpreadEmpty == ASSUME NEW F PROVE Spread(F, <<>>) = <<>>
<1>1. [k \in DOMAIN <<>> |-> F[<<>>[k]]] = <<>>
  OBVIOUS
<1> QED
  BY <1>1, FlattenEmpty DEF Spread, PartsOf

\* The CHOOSE of the fold takes the largest index.
LEMMA MaxOfInitial ==
    ASSUME NEW n \in Nat, NEW s \in SUBSET (1..(n + 1)), n + 1 \in s
    PROVE  Max(s) = n + 1 /\ s \ {Max(s)} \in SUBSET (1..n)
<1>1. \A y \in s : n + 1 >= y
  OBVIOUS
<1>2. \A x \in s : (\A y \in s : x >= y) => x = n + 1
  <2> SUFFICES ASSUME NEW x \in s, \A y \in s : x >= y PROVE x = n + 1
    OBVIOUS
  <2>1. x >= n + 1 /\ x \in 1..(n + 1)
    OBVIOUS
  <2> QED
    BY <2>1
<1>3. Max(s) = n + 1
  BY <1>1, <1>2, Zenon DEF Max
<1> QED
  BY <1>3
=============================================================================
