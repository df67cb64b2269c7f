--------------------------- MODULE SequenceLemmas ---------------------------
(***************************************************************************)
(* What the proofs need to know about numbers and sequences and no library *)
(* module says: induction over the numbers, stated of a set, and what      *)
(* follows from it about the concatenation of a sequence of sequences and  *)
(* about functions that are defined by recursion on an interval.           *)
(***************************************************************************)
EXTENDS Naturals, Sequences, SequencesExt, SequenceTheorems,
        WellFoundedInduction, TLAPS

(* Numbers *)

LessThan == {ss \in Nat \X Nat : ss[1] < ss[2]}

\* Every set of numbers that is not empty has a least one.
LEMMA LeastNumber ==
    ASSUME NEW T \in SUBSET Nat, T # {}
    PROVE  \E n \in T : \A k \in T : n <= k
<1>1. IsWellFoundedOn(LessThan, Nat)
    BY NatLessThanWellFounded DEF LessThan, OpToRel
<1>2. \E x \in T : \A y \in T : ~ (<<y, x>> \in LessThan)
    BY <1>1, WFMin
<1>3. ASSUME NEW y \in Nat, NEW x \in Nat, y < x
      PROVE  <<y, x>> \in LessThan
    BY <1>3 DEF LessThan
<1>4. PICK n \in T : \A k \in T : <<k, n>> \notin LessThan
    BY <1>2
<1>5. ASSUME NEW k \in T
      PROVE  n <= k
    <2>1. k \in Nat /\ n \in Nat /\ ~ (k < n)
        BY <1>3, <1>4
    <2>2. QED BY <2>1
<1>6. QED BY <1>5

\* A set that holds 0, and with each number the next, holds all numbers.
LEMMA AllNumbers ==
    ASSUME NEW T \in SUBSET Nat, 0 \in T, \A n \in T : n + 1 \in T
    PROVE  T = Nat
<1>1. SUFFICES ASSUME Nat \ T # {} PROVE FALSE
    OBVIOUS
<1>2. PICK n \in Nat \ T : \A k \in Nat \ T : n <= k
    BY LeastNumber, <1>1
<1>3. n # 0 /\ n - 1 \in Nat /\ n - 1 \in T
    BY <1>2
<1>4. QED
    BY <1>2, <1>3

\* What Min gives, of a set of numbers.
LEMMA LeastOfSome ==
    ASSUME NEW T \in SUBSET Nat, T # {}
    PROVE  Min(T) \in T /\ \A k \in T : Min(T) <= k
  BY LeastNumber DEF Min

\* What Max gives, of a set of numbers that has a bound.
LEMMA GreatestOfSome ==
    ASSUME NEW T \in SUBSET Nat, T # {}, NEW hi \in Nat, \A k \in T : k <= hi
    PROVE  Max(T) \in T /\ \A k \in T : k <= Max(T)
<1> DEFINE D == {hi - k : k \in T}
<1>1. D \in SUBSET Nat /\ D # {}
    <2>1. \A k \in T : hi - k \in Nat /\ hi - k \in D
        OBVIOUS
    <2>2. QED BY <2>1
<1>2. PICK d \in D : \A e \in D : d <= e
    BY <1>1, LeastNumber
<1>3. PICK x \in T : d = hi - x
    BY <1>2
<1>4. ASSUME NEW k \in T PROVE x >= k
    <2>1. hi - k \in D /\ hi - x <= hi - k
        BY <1>2, <1>3
    <2>2. QED BY <2>1
<1>5. \E y \in T : \A k \in T : y >= k
    BY <1>4
<1>6. Max(T) \in T /\ \A k \in T : Max(T) >= k
    BY <1>5 DEF Max
<1>7. QED BY <1>6

\* What the Select operators give.
LEMMA LeastOrNone ==
    ASSUME NEW T, NEW lo \in Nat, NEW hi \in Nat, \A k \in T : k \in lo .. hi,
           NEW x, x = IF T # {} THEN Min(T) ELSE 0
    PROVE  x = 0 \/ (x \in T /\ x \in lo .. hi /\ \A k \in T : x <= k)
<1>1. T \in SUBSET Nat
    OBVIOUS
<1>2. CASE T # {}
    <2>1. Min(T) \in T /\ \A k \in T : Min(T) <= k
        BY <1>1, <1>2, LeastOfSome
    <2>2. QED BY <1>2, <2>1
<1>3. QED BY <1>2

LEMMA LeastIs ==
    ASSUME NEW T \in SUBSET Nat, NEW x \in T, \A k \in T : x <= k
    PROVE  Min(T) = x
<1> DEFINE m == Min(T)
<1>1. m \in T /\ m <= x
  BY LeastOfSome
<1> HIDE DEF m
<1>2. m \in Nat /\ x \in Nat /\ x <= m
  BY <1>1
<1>3. m = x
  BY <1>1, <1>2
<1> QED
  BY <1>3 DEF m

-----------------------------------------------------------------------------
(* Concatenation *)

\* f[i] is the concatenation of the first i sequences of ss.
IsFlat(f, n, ss) == f = [i \in 1 .. n |-> IF i = 1 THEN ss[i] ELSE f[i - 1] \o ss[i]]

Flat(ss) == CHOOSE f : IsFlat(f, Len(ss), ss)

\* What FlattenSeq is, without its local definition.
LEMMA FlattenIsFlat ==
    ASSUME NEW ss
    PROVE  FlattenSeq(ss) = IF Len(ss) = 0 THEN ss ELSE Flat(ss)[Len(ss)]
BY DEF FlattenSeq, Flat, IsFlat

\* The recursion on which FlattenSeq rests has a solution.
LEMMA FlatExists ==
    ASSUME NEW ss, NEW n \in Nat
    PROVE  \E f : IsFlat(f, n, ss)
<1> DEFINE T == {m \in Nat : \E f : IsFlat(f, m, ss)}
<1>1. 0 \in T
    <2>1. IsFlat([i \in 1 .. 0 |-> 0], 0, ss)
        BY DEF IsFlat
    <2>2. QED BY <2>1
<1>2. ASSUME NEW m \in T
      PROVE  m + 1 \in T
    <2>0. m \in Nat
        OBVIOUS
    <2>1. PICK f : IsFlat(f, m, ss)
        OBVIOUS
    <2> DEFINE g == [i \in 1 .. m + 1 |-> IF i = 1 THEN ss[i] ELSE f[i - 1] \o ss[i]]
    <2>2. ASSUME NEW i \in 1 .. m
          PROVE  f[i] = IF i = 1 THEN ss[i] ELSE f[i - 1] \o ss[i]
        BY <2>1, <2>0 DEF IsFlat
    <2>3. ASSUME NEW i \in 1 .. m
          PROVE  g[i] = f[i]
        <3>1. i \in 1 .. m + 1
            BY <2>0
        <3>2. g[i] = IF i = 1 THEN ss[i] ELSE f[i - 1] \o ss[i]
            BY <3>1
        <3>3. QED BY <3>2, <2>2
    <2>4. IsFlat(g, m + 1, ss)
        <3>1. ASSUME NEW i \in 1 .. m + 1, i # 1
              PROVE  g[i - 1] = f[i - 1]
            <4>1. i - 1 \in 1 .. m
                BY <2>0, <3>1
            <4>2. QED BY <4>1, <2>3
        <3>2. QED BY <3>1 DEF IsFlat
    <2>5. QED BY <2>4
<1>3. T = Nat
    BY <1>1, <1>2, AllNumbers
<1>4. QED BY <1>3

\* One step of that recursion.
LEMMA FlatStep ==
    ASSUME NEW ss, NEW n \in Nat, Len(ss) \in Nat, n < Len(ss)
    PROVE  Flat(ss)[n + 1] = IF n = 0 THEN ss[n + 1] ELSE Flat(ss)[n] \o ss[n + 1]
<1>1. IsFlat(Flat(ss), Len(ss), ss)
    BY FlatExists DEF Flat
<1>2. n + 1 \in 1 .. Len(ss) /\ (n + 1) - 1 = n /\ (n + 1 = 1 <=> n = 0)
    OBVIOUS
<1> DEFINE i == n + 1
<1> HIDE DEF i
<1>3. i \in 1 .. Len(ss) => Flat(ss)[i] = IF i = 1 THEN ss[i] ELSE Flat(ss)[i - 1] \o ss[i]
    BY <1>1 DEF IsFlat
<1>4. QED BY <1>2, <1>3 DEF i

\* The concatenation of no sequence is empty.
LEMMA FlattenEmpty ==
    FlattenSeq(<<>>) = <<>>
BY FlattenIsFlat

\* The concatenation of sequences over a set is one.
LEMMA FlattenType ==
    ASSUME NEW S, NEW ss \in Seq(Seq(S))
    PROVE  FlattenSeq(ss) \in Seq(S)
<1> DEFINE T == {n \in Nat : n # 0 /\ n <= Len(ss) => Flat(ss)[n] \in Seq(S)}
<1>0. Len(ss) \in Nat /\ 0 \in T
    OBVIOUS
<1>1. ASSUME NEW n \in T
      PROVE  n + 1 \in T
    <2>1. n \in Nat /\ (n # 0 /\ n <= Len(ss) => Flat(ss)[n] \in Seq(S))
        OBVIOUS
    <2>2. SUFFICES ASSUME n < Len(ss)
                   PROVE  Flat(ss)[n + 1] \in Seq(S)
        BY <2>1, <1>0
    <2>3. ss[n + 1] \in Seq(S)
        BY <2>1, <2>2
    <2>4. Flat(ss)[n + 1] = IF n = 0 THEN ss[n + 1] ELSE Flat(ss)[n] \o ss[n + 1]
        BY <2>1, <2>2, <1>0, FlatStep
    <2>5. CASE n = 0
        BY <2>3, <2>4, <2>5
    <2>6. CASE n # 0
        <3>1. Flat(ss)[n] \in Seq(S)
            BY <2>1, <2>2, <2>6
        <3>2. QED BY <2>3, <2>4, <2>6, <3>1, ConcatProperties
    <2>7. QED BY <2>5, <2>6
<1>2. T \in SUBSET Nat
    OBVIOUS
<1> HIDE DEF T
<1>3. T = Nat
    BY <1>0, <1>1, <1>2, AllNumbers
<1>4. CASE Len(ss) = 0
    <2>1. ss = <<>>
        BY <1>4
    <2>2. <<>> \in Seq(S)
        OBVIOUS
    <2>3. QED BY <2>1, <2>2, FlattenEmpty
<1>5. CASE Len(ss) # 0
    <2>1. Flat(ss)[Len(ss)] \in Seq(S)
        BY <1>0, <1>3, <1>5 DEF T
    <2>2. QED BY <1>5, <2>1, FlattenIsFlat
<1>6. QED BY <1>4, <1>5

\* A sequence put at the end of the list is put at the end of the whole.
LEMMA FlattenAppend ==
    ASSUME NEW S, NEW ss \in Seq(Seq(S)), NEW s \in Seq(S)
    PROVE  FlattenSeq(Append(ss, s)) = FlattenSeq(ss) \o s
<1> DEFINE tt == Append(ss, s)
<1>0. /\ Len(ss) \in Nat /\ Len(tt) = Len(ss) + 1 /\ tt[Len(ss) + 1] = s
      /\ \A i \in 1 .. Len(ss) : tt[i] = ss[i]
    OBVIOUS
<1> DEFINE T == {n \in Nat : n # 0 /\ n <= Len(ss) => Flat(ss)[n] = Flat(tt)[n]}
<1> HIDE DEF tt
<1>1. 0 \in T /\ T \in SUBSET Nat
    OBVIOUS
<1>2. ASSUME NEW n \in T
      PROVE  n + 1 \in T
    <2>1. n \in Nat /\ (n # 0 /\ n <= Len(ss) => Flat(ss)[n] = Flat(tt)[n])
        OBVIOUS
    <2>2. SUFFICES ASSUME n < Len(ss)
                   PROVE  Flat(ss)[n + 1] = Flat(tt)[n + 1]
        BY <2>1, <1>0
    <2>3. Flat(ss)[n + 1] = IF n = 0 THEN ss[n + 1] ELSE Flat(ss)[n] \o ss[n + 1]
        BY <2>1, <2>2, <1>0, FlatStep
    <2>4. Flat(tt)[n + 1] = IF n = 0 THEN tt[n + 1] ELSE Flat(tt)[n] \o tt[n + 1]
        <3>1. n < Len(tt) /\ Len(tt) \in Nat
            BY <2>1, <2>2, <1>0
        <3>2. QED BY <2>1, <3>1, FlatStep
    <2>5. ss[n + 1] = tt[n + 1]
        BY <2>1, <2>2, <1>0
    <2>6. n # 0 => Flat(ss)[n] = Flat(tt)[n]
        BY <2>1, <2>2, <1>0
    <2> HIDE DEF T
    <2>7. QED BY <2>3, <2>4, <2>5, <2>6
<1> HIDE DEF T
<1>3. T = Nat
    BY <1>1, <1>2, AllNumbers
<1>4. Len(tt) # 0 /\ FlattenSeq(tt) = Flat(tt)[Len(ss) + 1]
    BY <1>0, FlattenIsFlat
<1>5. Flat(tt)[Len(ss) + 1] = IF Len(ss) = 0 THEN s ELSE Flat(tt)[Len(ss)] \o s
    <2>1. Len(ss) < Len(tt) /\ Len(tt) \in Nat
        BY <1>0
    <2>2. Flat(tt)[Len(ss) + 1] = IF Len(ss) = 0 THEN tt[Len(ss) + 1]
                                  ELSE Flat(tt)[Len(ss)] \o tt[Len(ss) + 1]
        BY <2>1, <1>0, FlatStep
    <2>3. QED BY <2>2, <1>0
<1>6. CASE Len(ss) = 0
    <2>1. FlattenSeq(ss) = <<>>
        BY <1>6, FlattenIsFlat
    <2>2. FlattenSeq(ss) \o s = s
        BY <2>1, ConcatEmptySeq
    <2>3. QED BY <1>4, <1>5, <1>6, <2>2 DEF tt
<1>7. CASE Len(ss) # 0
    <2>1. FlattenSeq(ss) = Flat(ss)[Len(ss)]
        BY <1>7, FlattenIsFlat
    <2>2. Flat(ss)[Len(ss)] = Flat(tt)[Len(ss)]
        BY <1>0, <1>3, <1>7 DEF T
    <2>3. QED BY <1>4, <1>5, <1>7, <2>1, <2>2 DEF tt
<1>8. QED BY <1>6, <1>7

\* The concatenation of one sequence is that sequence.
LEMMA FlattenOne ==
    ASSUME NEW S, NEW s \in Seq(S)
    PROVE  FlattenSeq(<<s>>) = s
<1>1. <<s>> = Append(<<>>, s)
    OBVIOUS
<1>2. <<>> \in Seq(Seq(S))
    OBVIOUS
<1>3. FlattenSeq(Append(<<>>, s)) = FlattenSeq(<<>>) \o s
    BY <1>2, FlattenAppend
<1>4. <<>> \o s = s
    BY ConcatEmptySeq
<1>5. QED BY <1>1, <1>3, <1>4, FlattenEmpty

LEMMA ConcatAppend ==
    ASSUME NEW S, NEW s \in Seq(S), NEW t \in Seq(S), NEW e \in S
    PROVE  s \o Append(t, e) = Append(s \o t, e)
<1>1. Append(t, e) = t \o <<e>>
    BY AppendIsConcat
<1>2. s \o t \in Seq(S)
    BY ConcatProperties
<1>3. Append(s \o t, e) = (s \o t) \o <<e>>
    BY <1>2, AppendIsConcat
<1>4. <<e>> \in Seq(S)
    OBVIOUS
<1>5. (s \o t) \o <<e>> = s \o (t \o <<e>>)
    BY <1>4, ConcatAssociative
<1>6. QED BY <1>1, <1>3, <1>5

\* Two lists of sequences can be concatenated apart.
LEMMA FlattenConcat ==
    ASSUME NEW S, NEW ss \in Seq(Seq(S)), NEW tt \in Seq(Seq(S))
    PROVE  FlattenSeq(ss \o tt) = FlattenSeq(ss) \o FlattenSeq(tt)
<1> DEFINE Good(t) == FlattenSeq(ss \o t) = FlattenSeq(ss) \o FlattenSeq(t)
           T == {n \in Nat : \A t \in Seq(Seq(S)) : Len(t) = n => Good(t)}
<1>1. 0 \in T
    <2>1. ASSUME NEW t \in Seq(Seq(S)), Len(t) = 0
          PROVE  Good(t)
        <3>1. t = <<>>
            BY <2>1
        <3>2. ss \o t = ss
            BY <3>1, ConcatEmptySeq
        <3>3. QED BY <3>1, <3>2, FlattenEmpty, FlattenType, ConcatEmptySeq
    <2>2. QED BY <2>1
<1>2. ASSUME NEW n \in T
      PROVE  n + 1 \in T
    <2>1. SUFFICES ASSUME NEW t \in Seq(Seq(S)), Len(t) = n + 1
                   PROVE  Good(t)
        OBVIOUS
    <2>2. PICK r \in Seq(Seq(S)), e \in Seq(S) : t = Append(r, e)
        <3>1. t # <<>>
            BY <2>1
        <3>2. QED BY <3>1, SequenceEmptyOrAppend
    <2>3. Len(r) = n
        BY <2>1, <2>2
    <2>4. Good(r)
        BY <2>3
    <2>5. ss \o t = Append(ss \o r, e)
        <3> DEFINE U == Seq(S)
        <3>1. ss \in Seq(U) /\ r \in Seq(U) /\ e \in U
            OBVIOUS
        <3> HIDE DEF U, T, Good
        <3>2. ss \o Append(r, e) = Append(ss \o r, e)
            BY <3>1, ConcatAppend
        <3>3. QED BY <2>2, <3>2
    <2>6. ss \o r \in Seq(Seq(S))
        BY ConcatProperties
    <2>7. FlattenSeq(ss \o t) = FlattenSeq(ss \o r) \o e
        BY <2>5, <2>6, FlattenAppend
    <2>8. FlattenSeq(t) = FlattenSeq(r) \o e
        BY <2>2, FlattenAppend
    <2>9. /\ FlattenSeq(ss) \in Seq(S)
          /\ FlattenSeq(r) \in Seq(S)
        BY FlattenType
    <2>10. (FlattenSeq(ss) \o FlattenSeq(r)) \o e = FlattenSeq(ss) \o (FlattenSeq(r) \o e)
        <3> DEFINE x == FlattenSeq(ss)
                   y == FlattenSeq(r)
        <3> HIDE DEF x, y, T, Good
        <3>1. x \in Seq(S) /\ y \in Seq(S)
            BY <2>9 DEF x, y
        <3>2. (x \o y) \o e = x \o (y \o e)
            BY <3>1, ConcatAssociative, SMTT(30)
        <3>3. QED BY <3>2 DEF x, y
    <2>11. QED BY <2>4, <2>7, <2>8, <2>10
<1>3. T = Nat
    <2> HIDE DEF T
    <2>1. QED BY <1>1, <1>2, AllNumbers DEF T
<1>4. Len(tt) \in Nat
    OBVIOUS
<1>5. QED BY <1>3, <1>4

\* The whole is the first sequence, and then the others.
LEMMA FlattenHeadTail ==
    ASSUME NEW S, NEW ss \in Seq(Seq(S)), ss # <<>>
    PROVE  FlattenSeq(ss) = Head(ss) \o FlattenSeq(Tail(ss))
<1>1. ss = <<Head(ss)>> \o Tail(ss)
    BY HeadTailProperties
<1>2. Head(ss) \in Seq(S) /\ Tail(ss) \in Seq(Seq(S)) /\ <<Head(ss)>> \in Seq(Seq(S))
    BY HeadTailProperties
<1>3. FlattenSeq(<<Head(ss)>> \o Tail(ss)) = FlattenSeq(<<Head(ss)>>) \o FlattenSeq(Tail(ss))
    BY <1>2, FlattenConcat
<1>4. FlattenSeq(<<Head(ss)>>) = Head(ss)
    BY <1>2, FlattenOne
<1>5. QED BY <1>1, <1>3, <1>4

\* A function on 1 .. n is a sequence of n elements.
LEMMA FunctionIsSeq ==
    ASSUME NEW S, NEW n \in Nat, NEW f \in [1 .. n -> S]
    PROVE  f \in Seq(S) /\ Len(f) = n
OBVIOUS

\* Concatenating the elements one by one gives the sequence.
LEMMA FlattenSingles ==
    ASSUME NEW S, NEW s \in Seq(S)
    PROVE  FlattenSeq([k \in DOMAIN s |-> <<s[k]>>]) = s
<1> DEFINE Singles(t) == [k \in DOMAIN t |-> <<t[k]>>]
           T == {n \in Nat : \A t \in Seq(S) : Len(t) = n => FlattenSeq(Singles(t)) = t}
<1>1. 0 \in T
    <2>1. ASSUME NEW t \in Seq(S), Len(t) = 0
          PROVE  FlattenSeq(Singles(t)) = t
        <3>1. t = <<>> /\ Singles(t) = <<>>
            BY <2>1
        <3>2. QED BY <3>1, FlattenEmpty
    <2>2. QED BY <2>1
<1>2. ASSUME NEW n \in T
      PROVE  n + 1 \in T
    <2>1. SUFFICES ASSUME NEW t \in Seq(S), Len(t) = n + 1
                   PROVE  FlattenSeq(Singles(t)) = t
        OBVIOUS
    <2>2. PICK r \in Seq(S), e \in S : t = Append(r, e)
        <3>1. t # <<>>
            BY <2>1
        <3>2. QED BY <3>1, SequenceEmptyOrAppend
    <2>3. Len(r) = n
        BY <2>1, <2>2
    <2>4. FlattenSeq(Singles(r)) = r
        BY <2>3
    <2>5. Singles(t) = Append(Singles(r), <<e>>)
        BY <2>2
    <2>6. Singles(r) \in Seq(Seq(S)) /\ <<e>> \in Seq(S)
        <3>1. Len(r) \in Nat /\ DOMAIN r = 1 .. Len(r)
            OBVIOUS
        <3>2. Singles(r) \in [1 .. Len(r) -> Seq(S)]
            BY <3>1
        <3> HIDE DEF Singles, T
        <3>3. Singles(r) \in Seq(Seq(S))
            BY <3>1, <3>2, FunctionIsSeq
        <3>4. QED BY <3>3
    <2> HIDE DEF Singles, T
    <2>7. FlattenSeq(Singles(t)) = r \o <<e>>
        BY <2>4, <2>5, <2>6, FlattenAppend
    <2>8. QED BY <2>2, <2>7, AppendIsConcat
<1>3. T \in SUBSET Nat
    OBVIOUS
<1> HIDE DEF T
<1>4. T = Nat
    BY <1>1, <1>2, <1>3, AllNumbers
<1>5. Len(s) \in Nat
    OBVIOUS
<1>6. QED BY <1>4, <1>5 DEF T

\* What the pieces of an output stand for, put together.
Stands(o) == FlattenSeq([k \in DOMAIN o |-> o[k].of])

\* Each of the pieces P stands for symbols of S.
Standing(P, S) == \A q \in P : q.of \in Seq(S)

\* A piece put at the end adds what it stands for at the end.
LEMMA StandsAppend ==
    ASSUME NEW S, NEW P, Standing(P, S), NEW o \in Seq(P), NEW e \in P
    PROVE  /\ Stands(o) \in Seq(S)
           /\ Append(o, e) \in Seq(P)
           /\ Stands(Append(o, e)) = Stands(o) \o e.of
<1> DEFINE Ofs(t) == [k \in DOMAIN t |-> t[k].of]
<1>1. ASSUME NEW t \in Seq(P)
      PROVE  Ofs(t) \in Seq(Seq(S))
    <2>1. Len(t) \in Nat /\ DOMAIN t = 1 .. Len(t) /\ \A k \in 1 .. Len(t) : t[k] \in P
        OBVIOUS
    <2>2. Ofs(t) \in [1 .. Len(t) -> Seq(S)]
        BY <2>1 DEF Standing
    <2> HIDE DEF Ofs
    <2>3. QED BY <2>1, <2>2
<1>2. Append(o, e) \in Seq(P)
    OBVIOUS
<1>3. Ofs(Append(o, e)) = Append(Ofs(o), e.of)
    OBVIOUS
<1> HIDE DEF Ofs
<1>4. FlattenSeq(Append(Ofs(o), e.of)) = FlattenSeq(Ofs(o)) \o e.of
    <2>1. e.of \in Seq(S)
        BY DEF Standing
    <2>2. QED BY <1>1, <2>1, FlattenAppend
<1>5. FlattenSeq(Ofs(o)) \in Seq(S)
    BY <1>1, FlattenType
<1>6. \A t : Stands(t) = FlattenSeq(Ofs(t))
    BY DEF Stands, Ofs
<1>7. QED BY <1>2, <1>3, <1>4, <1>5, <1>6

-----------------------------------------------------------------------------
(* What is in a sequence *)

Elements(s) == {s[i] : i \in DOMAIN s}

\* Append adds its element.
LEMMA AppendElements ==
    ASSUME NEW S, NEW s \in Seq(S), NEW e \in S
    PROVE  Append(s, e) \in Seq(S) /\ Elements(Append(s, e)) = Elements(s) \cup {e}
<1>1. /\ Append(s, e) \in Seq(S) /\ Len(Append(s, e)) = Len(s) + 1 /\ Len(s) \in Nat
      /\ \A i \in 1 .. Len(s) : Append(s, e)[i] = s[i]
      /\ Append(s, e)[Len(s) + 1] = e
  OBVIOUS
<1>2. DOMAIN s = 1 .. Len(s) /\ DOMAIN Append(s, e) = 1 .. Len(s) + 1
  BY <1>1
<1> QED
  BY <1>1, <1>2 DEF Elements

\* Tail adds nothing, and keeps the last of several.
LEMMA TailElements ==
    ASSUME NEW S, NEW s \in Seq(S), s # <<>>
    PROVE  /\ Tail(s) \in Seq(S) /\ Elements(Tail(s)) \subseteq Elements(s)
           /\ Len(s) > 1 => s[Len(s)] \in Elements(Tail(s))
<1>1. /\ Tail(s) \in Seq(S) /\ Len(Tail(s)) = Len(s) - 1 /\ Len(s) \in Nat /\ Len(s) > 0
      /\ \A i \in 1 .. Len(s) - 1 : Tail(s)[i] = s[i + 1]
  OBVIOUS
<1>2. DOMAIN s = 1 .. Len(s) /\ DOMAIN Tail(s) = 1 .. Len(s) - 1
  BY <1>1
<1>3. ASSUME NEW i \in 1 .. Len(s) - 1 PROVE i + 1 \in DOMAIN s /\ Tail(s)[i] = s[i + 1]
  BY <1>1, <1>2
<1>4. Elements(Tail(s)) \subseteq Elements(s)
  BY <1>2, <1>3 DEF Elements
<1>5. Len(s) > 1 => Len(s) - 1 \in DOMAIN Tail(s) /\ Tail(s)[Len(s) - 1] = s[Len(s)]
  BY <1>1, <1>2
<1> QED
  BY <1>1, <1>4, <1>5 DEF Elements

\* RemoveAt closes the gap.
LEMMA RemoveAtIs ==
    ASSUME NEW S, NEW s \in Seq(S), NEW i \in DOMAIN s
    PROVE  /\ RemoveAt(s, i) \in Seq(S) /\ Len(RemoveAt(s, i)) = Len(s) - 1
           /\ \A k \in 1 .. Len(s) - 1 : RemoveAt(s, i)[k] = IF k < i THEN s[k] ELSE s[k + 1]
<1> DEFINE a == SubSeq(s, 1, i - 1)
           b == SubSeq(s, i + 1, Len(s))
<1>1. Len(s) \in Nat /\ DOMAIN s = 1 .. Len(s) /\ i \in 1 .. Len(s)
  OBVIOUS
<1>2. /\ a \in Seq(S) /\ Len(a) = i - 1 /\ \A k \in 1 .. i - 1 : a[k] = s[k]
  <2>1. \A k \in 1 .. i - 1 : s[k] \in S
    BY <1>1
  <2> QED
    BY <1>1, <2>1, SubSeqProperties
<1>3. /\ b \in Seq(S) /\ Len(b) = Len(s) - i /\ \A k \in 1 .. Len(s) - i : b[k] = s[k + i]
  <2>1. \A k \in i + 1 .. Len(s) : s[k] \in S
    BY <1>1
  <2> QED
    BY <1>1, <2>1, SubSeqProperties
<1> HIDE DEF a, b
<1>4. /\ a \o b \in Seq(S) /\ Len(a \o b) = Len(s) - 1
      /\ \A k \in 1 .. Len(s) - 1 : (a \o b)[k] = IF k < i THEN s[k] ELSE s[k + 1]
  <2>1. /\ a \o b \in Seq(S) /\ Len(a \o b) = Len(a) + Len(b)
        /\ \A k \in 1 .. Len(a) + Len(b) : (a \o b)[k] = IF k <= Len(a) THEN a[k] ELSE b[k - Len(a)]
    BY <1>2, <1>3, ConcatProperties
  <2>2. ASSUME NEW k \in 1 .. Len(s) - 1
        PROVE  (a \o b)[k] = IF k < i THEN s[k] ELSE s[k + 1]
    <3>1. k \in 1 .. Len(a) + Len(b)
      BY <1>1, <1>2, <1>3
    <3>2. CASE k < i
      BY <1>1, <1>2, <2>1, <3>1, <3>2
    <3>3. CASE ~(k < i)
      <4>1. (a \o b)[k] = b[k - (i - 1)]
        BY <1>1, <1>2, <2>1, <3>1, <3>3
      <4>2. k - (i - 1) \in 1 .. Len(s) - i /\ (k - (i - 1)) + i = k + 1
        BY <1>1, <3>3
      <4> QED
        BY <1>3, <3>3, <4>1, <4>2
    <3> QED
      BY <3>2, <3>3
  <2> QED
    BY <1>1, <1>2, <1>3, <2>1, <2>2
<1> DEFINE c == a \o b
<1>5. c = RemoveAt(s, i)
  BY DEF RemoveAt, a, b
<1> QED
  BY <1>4, <1>5

\* RemoveAt takes away at most the element at that place.
LEMMA RemoveAtElements ==
    ASSUME NEW S, NEW s \in Seq(S), NEW i \in DOMAIN s
    PROVE  /\ RemoveAt(s, i) \in Seq(S)
           /\ Elements(RemoveAt(s, i)) \cup {s[i]} = Elements(s)
<1> DEFINE c == RemoveAt(s, i)
<1>1. Len(s) \in Nat /\ DOMAIN s = 1 .. Len(s) /\ i \in 1 .. Len(s)
  OBVIOUS
<1>4. /\ c \in Seq(S) /\ Len(c) = Len(s) - 1
      /\ \A k \in 1 .. Len(s) - 1 : c[k] = IF k < i THEN s[k] ELSE s[k + 1]
  BY RemoveAtIs
<1> HIDE DEF c
<1>6. DOMAIN c = 1 .. Len(s) - 1
  BY <1>1, <1>4
<1>7. ASSUME NEW k \in 1 .. Len(s) - 1
      PROVE  c[k] \in Elements(s)
  <2>1. k \in DOMAIN s /\ k + 1 \in DOMAIN s
    BY <1>1
  <2> QED
    BY <1>4, <2>1 DEF Elements
<1>8. ASSUME NEW k \in 1 .. Len(s), k # i
      PROVE  s[k] \in Elements(c)
  <2>1. CASE k < i
    <3>1. k \in 1 .. Len(s) - 1 /\ c[k] = s[k]
      BY <1>1, <1>4, <2>1
    <3> QED
      BY <1>6, <3>1 DEF Elements
  <2>2. CASE ~(k < i)
    <3>1. k - 1 \in 1 .. Len(s) - 1 /\ ~(k - 1 < i) /\ (k - 1) + 1 = k
      BY <1>1, <1>8, <2>2
    <3>2. c[k - 1] = s[k]
      BY <1>4, <3>1
    <3> QED
      BY <1>6, <3>1, <3>2 DEF Elements
  <2> QED
    BY <2>1, <2>2
<1>9. Elements(c) \cup {s[i]} = Elements(s)
  <2>1. Elements(c) \subseteq Elements(s)
    BY <1>6, <1>7 DEF Elements
  <2>2. s[i] \in Elements(s)
    BY DEF Elements
  <2>3. Elements(s) \subseteq Elements(c) \cup {s[i]}
    BY <1>1, <1>8 DEF Elements
  <2> QED
    BY <2>1, <2>2, <2>3
<1> QED
  BY <1>4, <1>9 DEF c

\* The oldest element is the head.
LEMMA RemoveAtHead ==
    ASSUME NEW S, NEW s \in Seq(S), s # <<>>
    PROVE  RemoveAt(s, 1) = Tail(s)
<1>1. Len(s) \in Nat /\ Len(s) > 0 /\ 1 \in DOMAIN s
  OBVIOUS
<1>2. ASSUME NEW c \in Seq(S), NEW d \in Seq(S), Len(c) = Len(s) - 1, Len(d) = Len(s) - 1,
             \A k \in 1 .. Len(s) - 1 : c[k] = IF k < 1 THEN s[k] ELSE s[k + 1],
             \A k \in 1 .. Len(s) - 1 : d[k] = s[k + 1]
      PROVE  c = d
  <2>1. \A k \in 1 .. Len(s) - 1 : c[k] = d[k]
    BY <1>1, <1>2
  <2> QED
    BY <1>1, <1>2, <2>1, SeqEqual
<1>3. /\ RemoveAt(s, 1) \in Seq(S) /\ Len(RemoveAt(s, 1)) = Len(s) - 1
      /\ \A k \in 1 .. Len(s) - 1 : RemoveAt(s, 1)[k] = IF k < 1 THEN s[k] ELSE s[k + 1]
  BY <1>1, RemoveAtIs
<1>4. /\ Tail(s) \in Seq(S) /\ Len(Tail(s)) = Len(s) - 1
      /\ \A k \in 1 .. Len(s) - 1 : Tail(s)[k] = s[k + 1]
  BY HeadTailProperties
<1> QED
  BY <1>2, <1>3, <1>4

-----------------------------------------------------------------------------
(* Recursion upwards on an interval *)

\* What holds at each place of an interval if it holds at all places above it
\* holds everywhere on it.
LEMMA FromAbove ==
    ASSUME NEW lo \in Int, NEW hi \in Int, NEW T,
           \A p \in lo .. hi : (\A q \in p + 1 .. hi : q \in T) => p \in T
    PROVE  lo .. hi \subseteq T
<1> DEFINE M == {m \in Nat : \A p \in lo .. hi : hi - p < m => p \in T}
<1>1. 0 \in M
    OBVIOUS
<1>2. ASSUME NEW m \in M
      PROVE  m + 1 \in M
    <2>1. m \in Nat /\ \A p \in lo .. hi : hi - p < m => p \in T
        OBVIOUS
    <2>2. SUFFICES ASSUME NEW p \in lo .. hi, hi - p < m + 1
                   PROVE  p \in T
        BY <2>1
    <2>3. \A q \in p + 1 .. hi : q \in T
        BY <2>1, <2>2
    <2>4. QED BY <2>3
<1>3. M \in SUBSET Nat
    OBVIOUS
<1> HIDE DEF M
<1>4. M = Nat
    BY <1>1, <1>2, <1>3, AllNumbers
<1>5. ASSUME NEW p \in lo .. hi
      PROVE  p \in T
    <2>1. hi - p + 1 \in Nat /\ hi - p < hi - p + 1
        OBVIOUS
    <2>2. QED BY <2>1, <1>4 DEF M
<1>6. QED BY <1>5

\* f is defined at each place of an interval from what it is at one place above,
\* but for those in the set `halt'.  Such a function exists.
Climbs(f, lo, hi, halt, base, next, G) ==
    \A p \in lo .. hi : f[p] = IF p \in halt THEN base[p] ELSE G[<<p, f[next[p]]>>]

LEMMA ClimbExists ==
    ASSUME NEW lo \in Int, NEW hi \in Int, NEW V, NEW halt, NEW base, NEW next, NEW G,
           \A p \in lo .. hi : p \in halt => base[p] \in V,
           \A p \in lo .. hi : p \notin halt => next[p] \in p + 1 .. hi,
           \A p \in lo .. hi, v \in V : G[<<p, v>>] \in V
    PROVE  \E f \in [lo .. hi -> V] : Climbs(f, lo, hi, halt, base, next, G)
<1> DEFINE T == {q \in Int : \E f \in [q .. hi -> V] : Climbs(f, q, hi, halt, base, next, G)}
           M == {m \in Nat : m <= hi + 1 - lo => hi + 1 - m \in T}
<1>1. 0 \in M
    <2>1. hi + 1 \in Int /\ hi + 1 .. hi = {}
        OBVIOUS
    <2>2. [x \in {} |-> x] \in [hi + 1 .. hi -> V] /\ Climbs([x \in {} |-> x], hi + 1, hi, halt, base, next, G)
        BY <2>1 DEF Climbs
    <2>3. hi + 1 \in T
        BY <2>1, <2>2
    <2> HIDE DEF T
    <2>4. 0 \in Nat /\ hi + 1 - 0 = hi + 1
        OBVIOUS
    <2>5. QED BY <2>3, <2>4
<1>2. ASSUME NEW m \in M
      PROVE  m + 1 \in M
    <2>1. m \in Nat
        OBVIOUS
    <2>2. SUFFICES ASSUME m + 1 <= hi + 1 - lo
                   PROVE  hi - m \in T
        BY <2>1
    <2> DEFINE q == hi - m
    <2>3. q \in Int /\ q \in lo .. hi /\ hi + 1 - m = q + 1
        BY <2>1, <2>2
    <2>4. PICK f \in [q + 1 .. hi -> V] : Climbs(f, q + 1, hi, halt, base, next, G)
        BY <2>1, <2>2, <2>3
    <2> HIDE DEF q, M
    <2> DEFINE v == IF q \in halt THEN base[q] ELSE G[<<q, f[next[q]]>>]
               g == [p \in q .. hi |-> IF p = q THEN v ELSE f[p]]
    <2>5. q \notin halt => next[q] \in q + 1 .. hi
        BY <2>3
    <2>6. v \in V
        BY <2>3, <2>5
    <2>7. g \in [q .. hi -> V]
        BY <2>3, <2>6
    <2>8. g[q] = v /\ \A p \in q + 1 .. hi : g[p] = f[p]
        BY <2>3
    <2>9. ASSUME NEW p \in q .. hi
          PROVE  g[p] = IF p \in halt THEN base[p] ELSE G[<<p, g[next[p]]>>]
        <3> HIDE DEF g
        <3>1. p \notin halt => next[p] \in p + 1 .. hi /\ next[p] \in q + 1 .. hi
            BY <2>3
        <3>2. p \notin halt => g[next[p]] = f[next[p]]
            BY <2>8, <3>1
        <3>3. CASE p = q
            BY <2>8, <3>2, <3>3
        <3>4. CASE p # q
            <4>1. p \in q + 1 .. hi
                BY <2>3, <3>4
            <4>2. f[p] = IF p \in halt THEN base[p] ELSE G[<<p, f[next[p]]>>]
                BY <2>4, <4>1 DEF Climbs
            <4>3. QED BY <2>8, <3>2, <4>1, <4>2
        <3>5. QED BY <3>3, <3>4
    <2> HIDE DEF g
    <2>10. Climbs(g, q, hi, halt, base, next, G)
        BY <2>9 DEF Climbs
    <2>11. q \in T
        BY <2>3, <2>7, <2>10
    <2>12. QED BY <2>11 DEF q
<1>3. M \in SUBSET Nat
    OBVIOUS
<1>4. M = Nat
    <2> HIDE DEF M
    <2>1. QED BY <1>1, <1>2, <1>3, AllNumbers
<1>5. CASE lo <= hi
    <2>1. hi + 1 - lo \in Nat /\ hi + 1 - (hi + 1 - lo) = lo
        BY <1>5
    <2>2. lo \in T
        <3> DEFINE m == hi + 1 - lo
        <3>1. m \in Nat /\ m <= hi + 1 - lo /\ hi + 1 - m = lo
            BY <2>1
        <3> HIDE DEF T, m
        <3>2. m <= hi + 1 - lo => hi + 1 - m \in T
            <4> HIDE DEF M
            <4>1. m \in M
                BY <1>4, <3>1
            <4>2. QED BY <4>1 DEF M
        <3>3. QED BY <3>1, <3>2
    <2>3. QED BY <2>2
<1>6. CASE ~(lo <= hi)
    <2>1. lo .. hi = {}
        BY <1>6
    <2>2. [x \in {} |-> x] \in [lo .. hi -> V] /\ Climbs([x \in {} |-> x], lo, hi, halt, base, next, G)
        BY <2>1 DEF Climbs
    <2>3. QED BY <2>2
<1>7. QED BY <1>5, <1>6

\* A scan: where one stops that goes on from p to step[p], until it is in `halt'.
IsScan(f, lo, hi, halt, step) ==
    f = [p \in lo .. hi |-> IF p \in halt THEN p ELSE f[step[p]]]

\* A scan that goes up has a solution.
LEMMA ScanExists ==
    ASSUME NEW lo \in Int, NEW hi \in Int, NEW halt, NEW step,
           \A p \in lo .. hi : p \notin halt => step[p] \in p + 1 .. hi
    PROVE  \E f : IsScan(f, lo, hi, halt, step)
<1> DEFINE base == [p \in lo .. hi |-> p]
           G == [pv \in (lo .. hi) \X Int |-> pv[2]]
<1>1. \A p \in lo .. hi : p \in halt => base[p] \in Int
    OBVIOUS
<1>2. \A p \in lo .. hi, v \in Int : G[<<p, v>>] \in Int
    OBVIOUS
<1>3. \A p \in lo .. hi, v \in Int : G[<<p, v>>] = v
    OBVIOUS
<1>4. \A p \in lo .. hi : base[p] = p
    OBVIOUS
<1> HIDE DEF base, G
<1>5. PICK f \in [lo .. hi -> Int] : Climbs(f, lo, hi, halt, base, step, G)
    BY <1>1, <1>2, ClimbExists
<1>6. ASSUME NEW p \in lo .. hi
      PROVE  f[p] = IF p \in halt THEN p ELSE f[step[p]]
    <2>1. f[p] = IF p \in halt THEN base[p] ELSE G[<<p, f[step[p]]>>]
        BY <1>5 DEF Climbs
    <2>2. p \notin halt => f[step[p]] \in Int
        <3>1. p \notin halt => step[p] \in lo .. hi
            OBVIOUS
        <3>2. QED BY <1>5, <3>1
    <2>3. QED BY <2>1, <2>2, <1>3, <1>4
<1>7. f = [p \in lo .. hi |-> IF p \in halt THEN p ELSE f[step[p]]]
    BY <1>5, <1>6
<1>8. QED BY <1>7 DEF IsScan

-----------------------------------------------------------------------------
(* What each element of a sequence becomes, one behind the other *)

LEMMA ConcatAssoc ==
    ASSUME NEW S, NEW s \in Seq(S), NEW t \in Seq(S), NEW u \in Seq(S)
    PROVE  (s \o t) \o u = s \o (t \o u) /\ s \o t \in Seq(S)
BY ConcatProperties

LEMMA ConcatEmptyToo ==
    ASSUME NEW S, NEW s \in Seq(S)
    PROVE  <<>> \o s = s /\ s \o <<>> = s
BY ConcatProperties

LEMMA ConsIs ==
    ASSUME NEW S, NEW e, NEW t, e \in S, t \in Seq(S)
    PROVE  /\ Cons(e, t) \in Seq(S) /\ Len(Cons(e, t)) = Len(t) + 1
           /\ \A k \in 1 .. Len(t) + 1 : Cons(e, t)[k] = IF k = 1 THEN e ELSE t[k - 1]
BY DEF Cons

LEMMA ConsConcat ==
    ASSUME NEW S, NEW e, NEW t, NEW u, e \in S, t \in Seq(S), u \in Seq(S)
    PROVE  Cons(e, t) \o u = Cons(e, t \o u)
<1>1. <<e>> \in Seq(S)
    OBVIOUS
<1>2. (<<e>> \o t) \o u = <<e>> \o (t \o u)
    BY <1>1, ConcatAssoc
<1>3. QED BY <1>2 DEF Cons

\* What holds of the empty sequence, and with every sequence of the one that
\* has one element more in front, holds of all.
LEMMA FromTheBack ==
    ASSUME NEW S, NEW T, <<>> \in T, \A e \in S, t \in Seq(S) : t \in T => Cons(e, t) \in T
    PROVE  Seq(S) \subseteq T
<1> DEFINE N == {n \in Nat : \A t \in Seq(S) : Len(t) = n => t \in T}
<1>1. 0 \in N
    OBVIOUS
<1>2. ASSUME NEW n \in N PROVE n + 1 \in N
    <2>1. SUFFICES ASSUME NEW t \in Seq(S), Len(t) = n + 1 PROVE t \in T
        OBVIOUS
    <2>2. t # <<>> /\ n \in Nat
        BY <2>1
    <2>3. Head(t) \in S /\ Tail(t) \in Seq(S) /\ Len(Tail(t)) = n
        BY <2>1, <2>2
    <2>4. Tail(t) \in T
        BY <2>3
    <2>5. Cons(Head(t), Tail(t)) = t
        BY <2>2 DEF Cons
    <2> HIDE DEF N
    <2>6. Cons(Head(t), Tail(t)) \in T
        BY <2>3, <2>4
    <2>7. QED BY <2>5, <2>6
<1>3. N \in SUBSET Nat
    OBVIOUS
<1> HIDE DEF N
<1>4. N = Nat
    BY <1>1, <1>2, <1>3, AllNumbers
<1>5. QED BY <1>4 DEF N

\* What each element of t becomes by g, one behind the other.
Gives(g, E, S) == \A e \in E : g[e] \in S
Mapped1(g, t)  == [k \in 1 .. Len(t) |-> g[t[k]]]
SpreadOf(g, t) == FlattenSeq(Mapped1(g, t))

LEMMA MapLen ==
    ASSUME NEW E, NEW g, NEW t, t \in Seq(E)
    PROVE  /\ Len(Mapped1(g, t)) = Len(t)
           /\ \A k \in 1 .. Len(t) : Mapped1(g, t)[k] = g[t[k]]
<1> DEFINE S == {g[t[k]] : k \in 1 .. Len(t)}
<1>1. Mapped1(g, t) \in [1 .. Len(t) -> S]
    BY DEF Mapped1
<1>2. Len(t) \in Nat
    OBVIOUS
<1>3. \A k \in 1 .. Len(t) : Mapped1(g, t)[k] = g[t[k]]
    BY DEF Mapped1
<1> QED BY <1>1, <1>2, <1>3, FunctionIsSeq

LEMMA MapType ==
    ASSUME NEW E, NEW S, NEW g, Gives(g, E, S), NEW t, t \in Seq(E)
    PROVE  Mapped1(g, t) \in Seq(S)
<1>1. Mapped1(g, t) \in [1 .. Len(t) -> S]
    BY DEF Mapped1, Gives
<1>2. Len(t) \in Nat
    OBVIOUS
<1> QED BY <1>1, <1>2, FunctionIsSeq

LEMMA MapCons ==
    ASSUME NEW E, NEW S, NEW g, Gives(g, E, S), NEW e, NEW t, e \in E, t \in Seq(E)
    PROVE  Mapped1(g, Cons(e, t)) = Cons(g[e], Mapped1(g, t))
<1> DEFINE m == Mapped1(g, t)
           u == Cons(e, t)
           v == Mapped1(g, u)
<1>1. g[e] \in S
    BY DEF Gives
<1>2. m \in Seq(S) /\ Len(m) = Len(t) /\ \A k \in 1 .. Len(t) : m[k] = g[t[k]]
    BY MapLen, MapType
<1>3. u \in Seq(E) /\ Len(u) = Len(t) + 1 /\ Len(t) \in Nat
    BY ConsIs
<1>4. \A k \in 1 .. Len(t) + 1 : u[k] = IF k = 1 THEN e ELSE t[k - 1]
    BY ConsIs
<1> HIDE DEF u
<1>5. v \in Seq(S) /\ Len(v) = Len(u) /\ \A k \in 1 .. Len(u) : v[k] = g[u[k]]
    BY <1>3, MapLen, MapType
<1> HIDE DEF m, v
<1> DEFINE n == Cons(g[e], m)
<1>6. n \in Seq(S) /\ Len(n) = Len(t) + 1
      /\ \A k \in 1 .. Len(t) + 1 : n[k] = IF k = 1 THEN g[e] ELSE m[k - 1]
    <2>1. n \in Seq(S) /\ Len(n) = Len(m) + 1
        BY <1>1, <1>2, ConsIs
    <2>2. \A k \in 1 .. Len(m) + 1 : n[k] = IF k = 1 THEN g[e] ELSE m[k - 1]
        BY <1>1, <1>2, ConsIs
    <2>3. Len(m) = Len(t)
        BY <1>2
    <2> HIDE DEF n
    <2>4. QED BY <2>1, <2>2, <2>3
<1> HIDE DEF n
<1>7. ASSUME NEW k \in 1 .. Len(t) + 1 PROVE v[k] = n[k]
    <2>1. k # 1 => k - 1 \in 1 .. Len(t)
        BY <1>3
    <2>2. v[k] = g[u[k]]
        BY <1>3, <1>5
    <2>3. QED BY <1>2, <1>4, <1>6, <2>1, <2>2
<1>8. v = n
    BY <1>3, <1>5, <1>6, <1>7
<1>9. QED BY <1>8 DEF n, m, u, v

\* What is put out for all elements is put out for each, one behind the other.
LEMMA SpreadType ==
    ASSUME NEW E, NEW S, NEW g, Gives(g, E, Seq(S)), NEW t, t \in Seq(E)
    PROVE  SpreadOf(g, t) \in Seq(S)
<1>1. Mapped1(g, t) \in Seq(Seq(S))
    BY MapType
<1> QED BY <1>1, FlattenType DEF SpreadOf

LEMMA SpreadNone ==
    ASSUME NEW g PROVE SpreadOf(g, <<>>) = <<>>
<1>1. Mapped1(g, <<>>) = <<>>
    BY DEF Mapped1
<1> QED BY <1>1, FlattenEmpty DEF SpreadOf

LEMMA SpreadCons ==
    ASSUME NEW E, NEW S, NEW g, Gives(g, E, Seq(S)), NEW e, NEW t, e \in E, t \in Seq(E)
    PROVE  SpreadOf(g, Cons(e, t)) = g[e] \o SpreadOf(g, t)
<1>1. g[e] \in Seq(S) /\ Mapped1(g, t) \in Seq(Seq(S))
    BY MapType DEF Gives
<1>2. <<g[e]>> \in Seq(Seq(S))
    BY <1>1
<1>3. FlattenSeq(Cons(g[e], Mapped1(g, t))) = FlattenSeq(<<g[e]>>) \o FlattenSeq(Mapped1(g, t))
    BY <1>1, <1>2, FlattenConcat DEF Cons
<1>4. FlattenSeq(<<g[e]>>) = g[e]
    BY <1>1, FlattenOne
<1>5. Mapped1(g, Cons(e, t)) = Cons(g[e], Mapped1(g, t))
    BY MapCons
<1> QED BY <1>3, <1>4, <1>5 DEF SpreadOf

LEMMA SpreadConcat ==
    ASSUME NEW E, NEW S, NEW g, Gives(g, E, Seq(S)), NEW s, NEW t, s \in Seq(E), t \in Seq(E)
    PROVE  SpreadOf(g, s \o t) = SpreadOf(g, s) \o SpreadOf(g, t)
<1> DEFINE T == {u \in Seq(E) : SpreadOf(g, u \o t) = SpreadOf(g, u) \o SpreadOf(g, t)}
<1>0. SpreadOf(g, t) \in Seq(S)
    BY SpreadType
<1>1. <<>> \in T
    <2>1. <<>> \o t = t
        OBVIOUS
    <2>2. SpreadOf(g, <<>>) \o SpreadOf(g, t) = SpreadOf(g, t)
        BY <1>0, SpreadNone, ConcatEmptyToo
    <2>3. QED BY <2>1, <2>2
<1>2. ASSUME NEW e \in E, NEW u \in Seq(E), u \in T
      PROVE  Cons(e, u) \in T
    <2>1. u \o t \in Seq(E) /\ Cons(e, u) \in Seq(E)
        BY ConsIs
    <2>2. Cons(e, u) \o t = Cons(e, u \o t)
        <3> HIDE DEF T
        <3>1. QED BY ConsConcat
    <2>3. g[e] \in Seq(S) /\ SpreadOf(g, u) \in Seq(S)
        BY SpreadType DEF Gives
    <2>4. SpreadOf(g, Cons(e, u \o t)) = g[e] \o SpreadOf(g, u \o t)
        <3>1. ASSUME NEW w, w \in Seq(E)
              PROVE  SpreadOf(g, Cons(e, w)) = g[e] \o SpreadOf(g, w)
            BY <3>1, SpreadCons
        <3>2. QED BY <2>1, <3>1
    <2>5. SpreadOf(g, u \o t) = SpreadOf(g, u) \o SpreadOf(g, t)
        BY <1>2
    <2>6. (g[e] \o SpreadOf(g, u)) \o SpreadOf(g, t) = g[e] \o (SpreadOf(g, u) \o SpreadOf(g, t))
        <3>1. ASSUME NEW a \in Seq(S), NEW b \in Seq(S), NEW c \in Seq(S)
              PROVE  (a \o b) \o c = a \o (b \o c)
            BY ConcatAssoc
        <3>2. QED BY <1>0, <2>3, <3>1
    <2>7. SpreadOf(g, Cons(e, u)) = g[e] \o SpreadOf(g, u)
        BY SpreadCons
    <2>8. QED BY <2>1, <2>2, <2>4, <2>5, <2>6, <2>7
<1> HIDE DEF T
<1>3. Seq(E) \subseteq T
    BY <1>1, <1>2, FromTheBack
<1>4. QED BY <1>3 DEF T

\* The recursion on which Spread rests.
IsSpread(f, n, ss) == f = [i \in 0 .. n |-> IF i = 0 THEN <<>> ELSE f[i - 1] \o ss[i]]

LEMMA SpreadExists ==
    ASSUME NEW ss, NEW n \in Nat
    PROVE  \E f : IsSpread(f, n, ss)
<1> DEFINE T == {m \in Nat : \E f : IsSpread(f, m, ss)}
<1>1. 0 \in T
    <2>1. IsSpread([i \in 0 .. 0 |-> <<>>], 0, ss)
        BY DEF IsSpread
    <2>2. QED BY <2>1
<1>2. ASSUME NEW m \in T
      PROVE  m + 1 \in T
    <2>0. m \in Nat
        OBVIOUS
    <2>1. PICK f : IsSpread(f, m, ss)
        OBVIOUS
    <2> DEFINE g == [i \in 0 .. m + 1 |-> IF i = 0 THEN <<>> ELSE f[i - 1] \o ss[i]]
    <2>2. ASSUME NEW i \in 0 .. m
          PROVE  f[i] = IF i = 0 THEN <<>> ELSE f[i - 1] \o ss[i]
        BY <2>1, <2>0 DEF IsSpread
    <2>3. ASSUME NEW i \in 0 .. m
          PROVE  g[i] = f[i]
        <3>1. i \in 0 .. m + 1
            BY <2>0
        <3>2. g[i] = IF i = 0 THEN <<>> ELSE f[i - 1] \o ss[i]
            BY <3>1
        <3>3. QED BY <3>2, <2>2
    <2>4. IsSpread(g, m + 1, ss)
        <3>1. ASSUME NEW i \in 0 .. m + 1, i # 0
              PROVE  g[i - 1] = f[i - 1]
            <4>1. i - 1 \in 0 .. m
                BY <2>0, <3>1
            <4>2. QED BY <4>1, <2>3
        <3>2. QED BY <3>1 DEF IsSpread
    <2>5. QED BY <2>4
<1>3. T = Nat
    BY <1>1, <1>2, AllNumbers
<1>4. QED BY <1>3

LEMMA SpreadIsFlatten ==
    ASSUME NEW S, NEW ss \in Seq(Seq(S)), NEW f, IsSpread(f, Len(ss), ss)
    PROVE  f[Len(ss)] = FlattenSeq(ss)
<1> DEFINE T == {n \in Nat : n + 1 <= Len(ss) => f[n + 1] = Flat(ss)[n + 1]}
<1>1. Len(ss) \in Nat /\ \A i \in 1 .. Len(ss) : ss[i] \in Seq(S)
    OBVIOUS
<1>2. \A i \in 0 .. Len(ss) : f[i] = IF i = 0 THEN <<>> ELSE f[i - 1] \o ss[i]
    BY <1>1 DEF IsSpread
<1>3. 0 \in T
    <2>1. SUFFICES ASSUME 1 <= Len(ss) PROVE f[1] = Flat(ss)[1]
        OBVIOUS
    <2>2. f[1] = f[0] \o ss[1] /\ f[0] = <<>>
        <3>1. 0 \in 0 .. Len(ss) /\ 1 \in 0 .. Len(ss) /\ 1 - 1 = 0
            BY <1>1, <2>1
        <3>2. f[1] = IF 1 = 0 THEN <<>> ELSE f[1 - 1] \o ss[1]
            BY <1>2, <3>1
        <3>3. f[0] = IF 0 = 0 THEN <<>> ELSE f[0 - 1] \o ss[0]
            BY <1>2, <3>1
        <3>4. f[0] = <<>>
            BY <3>3
        <3>5. f[1] = f[0] \o ss[1]
            BY <3>1, <3>2
        <3>6. QED BY <3>4, <3>5
    <2>3. Flat(ss)[0 + 1] = ss[0 + 1]
        BY <1>1, <2>1, FlatStep
    <2>4. <<>> \o ss[1] = ss[1]
        BY <1>1, <2>1, ConcatEmptyToo
    <2>5. QED BY <2>2, <2>3, <2>4
<1>4. ASSUME NEW n \in T PROVE n + 1 \in T
    <2>1. n \in Nat
        OBVIOUS
    <2>2. SUFFICES ASSUME n + 2 <= Len(ss) PROVE f[n + 2] = Flat(ss)[n + 2]
        BY <2>1
    <2>3. f[n + 1] = Flat(ss)[n + 1]
        BY <1>1, <2>1, <2>2
    <2>4. n + 2 \in 0 .. Len(ss) /\ n + 2 # 0 /\ (n + 2) - 1 = n + 1
        BY <1>1, <2>1, <2>2
    <2>5. f[n + 2] = f[n + 1] \o ss[n + 2]
        BY <1>2, <2>4
    <2>6. n + 1 \in Nat /\ n + 1 < Len(ss) /\ n + 1 # 0 /\ (n + 1) + 1 = n + 2
        BY <1>1, <2>1, <2>2
    <2>7. Flat(ss)[n + 2] = Flat(ss)[n + 1] \o ss[n + 2]
        BY <1>1, <2>6, FlatStep
    <2>8. QED BY <2>3, <2>5, <2>7
<1>5. T \in SUBSET Nat
    OBVIOUS
<1>6. CASE Len(ss) = 0
    BY <1>1, <1>2, <1>6, FlattenIsFlat
<1>7. CASE Len(ss) # 0
    <2>1. Len(ss) - 1 \in Nat /\ (Len(ss) - 1) + 1 = Len(ss)
        BY <1>1, <1>7
    <2>2. Len(ss) - 1 \in T
        <3> HIDE DEF T
        <3>1. QED BY <1>3, <1>4, <1>5, <2>1, AllNumbers
    <2>3. f[Len(ss)] = Flat(ss)[Len(ss)]
        BY <2>1, <2>2
    <2>4. QED BY <1>7, <2>3, FlattenIsFlat
<1>8. QED BY <1>6, <1>7

LEMMA SpreadsOut ==
    ASSUME NEW E, NEW S, NEW g, Gives(g, E, Seq(S)), NEW t, t \in Seq(E), NEW f,
           f = [i \in 0 .. Len(t) |-> IF i = 0 THEN <<>> ELSE f[i - 1] \o g[t[i]]]
    PROVE  f[Len(t)] = SpreadOf(g, t)
<1>1. Mapped1(g, t) \in Seq(Seq(S)) /\ Len(Mapped1(g, t)) = Len(t)
    BY MapType, MapLen
<1>2. \A i \in 0 .. Len(t) : i # 0 => Mapped1(g, t)[i] = g[t[i]]
    BY MapLen
<1>3. IsSpread(f, Len(t), Mapped1(g, t))
    BY <1>2 DEF IsSpread
<1> QED BY <1>1, <1>3, SpreadIsFlatten DEF SpreadOf

-----------------------------------------------------------------------------
(* Parts of a sequence, and short ones *)

LEMMA SubSeqIs ==
    ASSUME NEW S, NEW s, s \in Seq(S), NEW i, NEW j, i \in 1 .. Len(s), j \in i .. Len(s)
    PROVE  /\ SubSeq(s, i, j) \in Seq(S) /\ Len(SubSeq(s, i, j)) = j - i + 1
           /\ \A m \in 1 .. j - i + 1 : SubSeq(s, i, j)[m] = s[i + m - 1]
BY SubSeqProperties

LEMMA SubSeqBehind ==
    ASSUME NEW S, NEW p, NEW s, p \in Seq(S), s \in Seq(S),
           NEW i, NEW j, i \in 1 .. Len(s), j \in i .. Len(s)
    PROVE  SubSeq(p \o s, i + Len(p), j + Len(p)) = SubSeq(s, i, j)
<1> DEFINE w == p \o s
           k == Len(p)
           a == SubSeq(w, i + k, j + k)
           b == SubSeq(s, i, j)
           n == j - i + 1
<1>1. /\ w \in Seq(S) /\ Len(w) = Len(s) + k /\ k \in Nat /\ Len(s) \in Nat
      /\ \A m \in 1 .. Len(s) : w[m + k] = s[m]
    BY ConcatProperties
<1> HIDE DEF w, k
<1>2. b \in Seq(S) /\ Len(b) = n /\ \A m \in 1 .. n : b[m] = s[i + m - 1]
    BY SubSeqIs
<1>3. i + k \in 1 .. Len(w) /\ j + k \in i + k .. Len(w) /\ (j + k) - (i + k) + 1 = n /\ n \in Nat
    BY <1>1
<1>4. a \in Seq(S) /\ Len(a) = n /\ \A m \in 1 .. n : a[m] = w[(i + k) + m - 1]
    <2> DEFINE x == i + k
               y == j + k
    <2>1. x \in 1 .. Len(w) /\ y \in x .. Len(w) /\ y - x + 1 = n
        BY <1>3
    <2> HIDE DEF x, y, n
    <2>2. /\ SubSeq(w, x, y) \in Seq(S) /\ Len(SubSeq(w, x, y)) = y - x + 1
          /\ \A m \in 1 .. y - x + 1 : SubSeq(w, x, y)[m] = w[x + m - 1]
        BY <1>1, <2>1, SubSeqIs
    <2>3. QED BY <2>1, <2>2 DEF x, y
<1> HIDE DEF a, b
<1>5. ASSUME NEW m \in 1 .. n PROVE a[m] = b[m]
    <2>1. i + m - 1 \in 1 .. Len(s) /\ (i + k) + m - 1 = (i + m - 1) + k
        BY <1>1
    <2>2. w[(i + m - 1) + k] = s[i + m - 1]
        BY <1>1, <2>1
    <2> HIDE DEF n
    <2>3. QED BY <1>2, <1>4, <2>1, <2>2
<1>6. a = b
    <2> HIDE DEF n
    <2>1. QED BY <1>2, <1>3, <1>4, <1>5
<1>7. QED BY <1>6 DEF a, b, w, k

LEMMA SubSeqStep ==
    ASSUME NEW S, NEW s \in Seq(S), NEW n \in Nat, NEW m \in Nat \ {0}, n + m <= Len(s)
    PROVE  /\ SubSeq(s, n + 1, n + m) \in Seq(S) /\ SubSeq(s, 1, n) \in Seq(S)
           /\ SubSeq(s, 1, n) \o SubSeq(s, n + 1, n + m) = SubSeq(s, 1, n + m)
<1> DEFINE a == SubSeq(s, 1, n)
           b == SubSeq(s, n + 1, n + m)
           w == SubSeq(s, 1, n + m)
<1>0. Len(s) \in Nat
    OBVIOUS
<1>1. a \in Seq(S) /\ Len(a) = n /\ \A i \in 1 .. n : a[i] = s[i]
    <2>1. CASE n = 0
        <3>1. a = <<>>
            BY <2>1, SubSeqProperties
        <3>2. QED BY <2>1, <3>1
    <2>2. CASE n # 0
        <3>1. 1 \in 1 .. Len(s) /\ n \in 1 .. Len(s)
            BY <1>0, <2>2
        <3>2. a \in Seq(S) /\ Len(a) = n - 1 + 1 /\ \A i \in 1 .. n - 1 + 1 : a[i] = s[1 + i - 1]
            BY <3>1, SubSeqIs
        <3> HIDE DEF a
        <3>3. n - 1 + 1 = n /\ \A i \in 1 .. n : 1 + i - 1 = i
            OBVIOUS
        <3>4. QED BY <3>2, <3>3
    <2>3. QED BY <2>1, <2>2
<1>2. b \in Seq(S) /\ Len(b) = m /\ \A i \in 1 .. m : b[i] = s[n + i]
    <2> DEFINE x == n + 1
               y == n + m
    <2>1. x \in 1 .. Len(s) /\ y \in x .. Len(s) /\ y - x + 1 = m
        BY <1>0
    <2>2. \A i \in 1 .. m : x + i - 1 = n + i
        OBVIOUS
    <2> HIDE DEF x, y
    <2>3. LET c0 == SubSeq(s, x, y)
          IN  c0 \in Seq(S) /\ Len(c0) = y - x + 1 /\ \A i \in 1 .. y - x + 1 : c0[i] = s[x + i - 1]
        BY <2>1, SubSeqIs
    <2>4. QED BY <2>1, <2>2, <2>3 DEF x, y
<1>3. w \in Seq(S) /\ Len(w) = n + m /\ \A i \in 1 .. n + m : w[i] = s[i]
    <2> DEFINE y == n + m
    <2>1. 1 \in 1 .. Len(s) /\ y \in 1 .. Len(s) /\ y - 1 + 1 = y
        BY <1>0
    <2>2. \A i \in 1 .. y : 1 + i - 1 = i
        OBVIOUS
    <2> HIDE DEF y
    <2>3. LET c0 == SubSeq(s, 1, y)
          IN  c0 \in Seq(S) /\ Len(c0) = y - 1 + 1 /\ \A i \in 1 .. y - 1 + 1 : c0[i] = s[1 + i - 1]
        BY <2>1, SubSeqIs
    <2>4. QED BY <2>1, <2>2, <2>3 DEF y
<1> HIDE DEF a, b, w
<1>4. a \o b \in Seq(S) /\ Len(a \o b) = n + m
      /\ \A i \in 1 .. n + m : (a \o b)[i] = IF i <= n THEN a[i] ELSE b[i - n]
    <2>1. ASSUME NEW x \in Seq(S), NEW y \in Seq(S)
          PROVE  /\ x \o y \in Seq(S) /\ Len(x \o y) = Len(x) + Len(y)
                 /\ \A i \in 1 .. Len(x) + Len(y) :
                        (x \o y)[i] = IF i <= Len(x) THEN x[i] ELSE y[i - Len(x)]
        OBVIOUS
    <2>2. a \in Seq(S) /\ b \in Seq(S) /\ Len(a) = n /\ Len(b) = m
        BY <1>1, <1>2
    <2>3. /\ a \o b \in Seq(S) /\ Len(a \o b) = Len(a) + Len(b)
          /\ \A i \in 1 .. Len(a) + Len(b) :
                 (a \o b)[i] = IF i <= Len(a) THEN a[i] ELSE b[i - Len(a)]
        BY <2>1, <2>2, Zenon
    <2>4. QED BY <2>2, <2>3, Zenon
<1>5. ASSUME NEW i \in 1 .. n + m PROVE (a \o b)[i] = w[i]
    <2>1. CASE i <= n
        <3>1. i \in 1 .. n
            BY <2>1
        <3>2. QED BY <1>1, <1>3, <1>4, <2>1, <3>1
    <2>2. CASE ~(i <= n)
        <3>1. i - n \in 1 .. m /\ n + (i - n) = i
            BY <2>2
        <3>2. b[i - n] = s[i]
            BY <1>2, <3>1
        <3>3. QED BY <1>3, <1>4, <2>2, <3>2
    <2>3. QED BY <2>1, <2>2
<1>6. a \o b = w
    <2> DEFINE ab == a \o b
    <2>1. ab \in Seq(S) /\ Len(ab) = n + m /\ \A i \in 1 .. n + m : ab[i] = w[i]
        BY <1>4, <1>5
    <2> HIDE DEF ab
    <2>2. ab = w
        BY <1>3, <2>1
    <2>3. QED BY <2>2 DEF ab
<1>7. QED BY <1>1, <1>2, <1>6 DEF a, b, w

LEMMA WholeSubSeq ==
    ASSUME NEW S, NEW s \in Seq(S)
    PROVE  SubSeq(s, 1, Len(s)) = s /\ SubSeq(s, 1, 0) = <<>>
BY SubSeqProperties

LEMMA OneElement ==
    ASSUME NEW S, NEW x \in S
    PROVE  /\ <<x>> \in Seq(S) /\ Len(<<x>>) = 1 /\ <<x>>[1] = x
           /\ Head(<<x>>) = x /\ Tail(<<x>>) = <<>> /\ <<x>> \o <<>> = <<x>>
<1>1. <<x>> \in Seq(S) /\ Len(<<x>>) = 1 /\ <<x>>[1] = x /\ Head(<<x>>) = x
    OBVIOUS
<1>2. Tail(<<x>>) = <<>>
    BY <1>1
<1>3. <<x>> \o <<>> = <<x>>
    BY <1>1, ConcatEmptyToo
<1>4. QED BY <1>1, <1>2, <1>3

LEMMA TwoElements ==
    ASSUME NEW S, NEW x \in S, NEW y \in S
    PROVE  /\ <<x, y>> \in Seq(S) /\ Len(<<x, y>>) = 2 /\ <<x, y>>[1] = x /\ <<x, y>>[2] = y
           /\ Head(<<x, y>>) = x /\ Tail(<<x, y>>) = <<y>> /\ <<x>> \o <<y>> = <<x, y>>
<1>1. <<x, y>> \in Seq(S) /\ Len(<<x, y>>) = 2 /\ <<x, y>>[1] = x /\ <<x, y>>[2] = y
      /\ Head(<<x, y>>) = x
    OBVIOUS
<1>2. Tail(<<x, y>>) = <<y>>
    <2>1. Tail(<<x, y>>) \in Seq(S) /\ Len(Tail(<<x, y>>)) = 1 /\ Tail(<<x, y>>)[1] = y
        BY <1>1
    <2>2. <<y>> \in Seq(S) /\ Len(<<y>>) = 1 /\ <<y>>[1] = y
        OBVIOUS
    <2>3. QED BY <2>1, <2>2
<1>3. <<x>> \o <<y>> = <<x, y>>
    <2>1. ASSUME NEW v \in Seq(S), NEW w \in Seq(S), Len(v) = 1, Len(w) = 1
          PROVE  v \o w \in Seq(S) /\ Len(v \o w) = 2 /\ (v \o w)[1] = v[1] /\ (v \o w)[2] = w[1]
        <3>1. /\ v \o w \in Seq(S) /\ Len(v \o w) = Len(v) + Len(w)
              /\ \A i \in 1 .. Len(v) + Len(w) :
                     (v \o w)[i] = IF i <= Len(v) THEN v[i] ELSE w[i - Len(v)]
            OBVIOUS
        <3>2. Len(v) + Len(w) = 2 /\ 1 \in 1 .. 2 /\ 2 \in 1 .. 2
            BY <2>1
        <3> DEFINE vw == v \o w
        <3> HIDE DEF vw
        <3>3. QED BY <2>1, <3>1, <3>2 DEF vw
    <2>2. <<x>> \in Seq(S) /\ <<y>> \in Seq(S) /\ Len(<<x>>) = 1 /\ Len(<<y>>) = 1
          /\ <<x>>[1] = x /\ <<y>>[1] = y
        OBVIOUS
    <2> DEFINE u == <<x>> \o <<y>>
               v == <<x, y>>
    <2>3. u \in Seq(S) /\ Len(u) = 2 /\ u[1] = x /\ u[2] = y
        BY <2>1, <2>2, Zenon
    <2>4. v \in Seq(S) /\ Len(v) = 2 /\ v[1] = x /\ v[2] = y
        BY <1>1
    <2> HIDE DEF u, v
    <2>5. u = v
        BY <2>3, <2>4
    <2>6. QED BY <2>5 DEF u, v
<1>4. QED BY <1>1, <1>2, <1>3

LEMMA ThreeElements ==
    ASSUME NEW S, NEW x \in S, NEW y \in S, NEW z \in S
    PROVE  /\ Append(<<x, y>>, z) = <<x, y, z>>
           /\ <<x, y, z>> \in Seq(S) /\ Len(<<x, y, z>>) = 3
           /\ <<x, y, z>>[1] = x /\ <<x, y, z>>[2] = y /\ <<x, y, z>>[3] = z
<1> DEFINE u == Append(<<x, y>>, z)
           v == <<x, y, z>>
<1>1. v \in Seq(S) /\ Len(v) = 3 /\ v[1] = x /\ v[2] = y /\ v[3] = z
    OBVIOUS
<1>2. ASSUME NEW w \in Seq(S), Len(w) = 2
      PROVE  /\ Append(w, z) \in Seq(S) /\ Len(Append(w, z)) = 3 /\ Append(w, z)[1] = w[1]
             /\ Append(w, z)[2] = w[2] /\ Append(w, z)[3] = z
    <2>1. 1 \in 1 .. Len(w) /\ 2 \in 1 .. Len(w) /\ Len(w) + 1 = 3
        BY <1>2
    <2>2. QED BY <2>1, AppendProperties
<1>3. u \in Seq(S) /\ Len(u) = 3 /\ u[1] = x /\ u[2] = y /\ u[3] = z
    BY <1>2, TwoElements, Zenon
<1> HIDE DEF u, v
<1>4. u = v
    BY <1>1, <1>3
<1>5. QED BY <1>1, <1>4 DEF u, v

\* What stands from i up to, but not at, j.
LEMMA Between ==
    ASSUME NEW S, NEW s, s \in Seq(S), NEW i, NEW j, i \in 1 .. Len(s) + 1, j \in i .. Len(s) + 1
    PROVE  /\ SubSeq(s, i, j - 1) \in Seq(S) /\ Len(SubSeq(s, i, j - 1)) = j - i
           /\ \A k \in 1 .. j - i : SubSeq(s, i, j - 1)[k] = s[i + k - 1]
<1>1. i \in Int /\ j - 1 \in Int /\ \A k \in i .. j - 1 : s[k] \in S
    OBVIOUS
<1> DEFINE n == j - 1
           x == SubSeq(s, i, n)
<1>2. x \in Seq(S) /\ Len(x) = (IF i <= n THEN n - i + 1 ELSE 0)
      /\ \A k \in 1 .. n - i + 1 : x[k] = s[i + k - 1]
    <2> HIDE DEF n
    <2>1. n \in Int /\ \A k \in i .. n : s[k] \in S
        BY <1>1 DEF n
    <2>2. QED BY <1>1, <2>1, SubSeqProperties
<1> HIDE DEF x
<1>3. n - i + 1 = j - i /\ (~(i <= n) => j - i = 0)
    OBVIOUS
<1>4. x \in Seq(S) /\ Len(x) = j - i /\ \A k \in 1 .. j - i : x[k] = s[i + k - 1]
    BY <1>2, <1>3
<1>5. QED BY <1>4 DEF x

\* A sequence cut in two.
LEMMA CutInTwo ==
    ASSUME NEW S, NEW s, s \in Seq(S), NEW i, NEW j, NEW k,
           i \in 1 .. Len(s) + 1, j \in i .. Len(s) + 1, k \in j .. Len(s) + 1
    PROVE  SubSeq(s, i, j - 1) \o SubSeq(s, j, k - 1) = SubSeq(s, i, k - 1)
<1> DEFINE a == SubSeq(s, i, j - 1)
           b == SubSeq(s, j, k - 1)
           w == SubSeq(s, i, k - 1)
<1>0. Len(s) \in Nat /\ i \in Nat /\ j \in Nat /\ k \in Nat
    OBVIOUS
<1>1. a \in Seq(S) /\ Len(a) = j - i /\ \A m \in 1 .. j - i : a[m] = s[i + m - 1]
    BY Between
<1>2. b \in Seq(S) /\ Len(b) = k - j /\ \A m \in 1 .. k - j : b[m] = s[j + m - 1]
    <2>1. j \in 1 .. Len(s) + 1
        BY <1>0
    <2>2. QED BY <2>1, Between
<1>3. w \in Seq(S) /\ Len(w) = k - i /\ \A m \in 1 .. k - i : w[m] = s[i + m - 1]
    <2>1. k \in i .. Len(s) + 1
        BY <1>0
    <2>2. QED BY <2>1, Between
<1> HIDE DEF a, b, w
<1>4. a \o b \in Seq(S) /\ Len(a \o b) = k - i
      /\ \A m \in 1 .. k - i : (a \o b)[m] = IF m <= j - i THEN a[m] ELSE b[m - (j - i)]
    <2>1. /\ a \o b \in Seq(S) /\ Len(a \o b) = Len(a) + Len(b)
          /\ \A m \in 1 .. Len(a) + Len(b) : (a \o b)[m] = IF m <= Len(a) THEN a[m] ELSE b[m - Len(a)]
        BY <1>1, <1>2, ConcatProperties
    <2>2. Len(a) + Len(b) = k - i /\ Len(a) = j - i
        BY <1>0, <1>1, <1>2
    <2> DEFINE ab == a \o b
    <2> HIDE DEF ab
    <2>3. QED BY <2>1, <2>2 DEF ab
<1>5. ASSUME NEW m \in 1 .. k - i PROVE (a \o b)[m] = w[m]
    <2>1. CASE m <= j - i
        <3>1. m \in 1 .. j - i
            BY <1>0, <2>1
        <3>2. QED BY <1>1, <1>3, <1>4, <2>1, <3>1
    <2>2. CASE ~(m <= j - i)
        <3>1. m - (j - i) \in 1 .. k - j /\ j + (m - (j - i)) - 1 = i + m - 1
            BY <1>0, <2>2
        <3>2. b[m - (j - i)] = s[j + (m - (j - i)) - 1]
            BY <1>2, <3>1
        <3>3. QED BY <1>3, <1>4, <2>2, <3>1, <3>2
    <2>3. QED BY <2>1, <2>2
<1>6. a \o b = w
    <2> DEFINE ab == a \o b
    <2>1. ab \in Seq(S) /\ Len(ab) = k - i /\ \A m \in 1 .. k - i : ab[m] = w[m]
        BY <1>4, <1>5
    <2> HIDE DEF ab
    <2>2. ab = w
        BY <1>3, <2>1
    <2>3. QED BY <2>2 DEF ab
<1>7. QED BY <1>6 DEF a, b, w
=============================================================================
