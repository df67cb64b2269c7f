-------------------------- MODULE HtmlParserProofs --------------------------
(***************************************************************************)
(* Proofs about HtmlParser: its types; that every symbol of the page is in *)
(* one piece, wherever the page is cut, and what is converted for each     *)
(* piece; and that the tags and scripts put out are those of the page      *)
(* looked at whole.                                                        *)
(***************************************************************************)
EXTENDS HtmlParser, SequenceLemmas, Integers

-----------------------------------------------------------------------------
(* The two scans.  Each is a recursion upwards, so there is a function that *)
(* satisfies it, and what TextStop and TagEnd are follows place by place.   *)

Open(b, p) == b[p] = "<" /\ b[p + 1] # " "

Passed(b, p) == IF b[p] = "hi" THEN p + 2 ELSE p + 1

IsTextScan(f, b, lo) ==
    f = [p \in lo .. Len(b) + 1 |->
            IF p >= Len(b) \/ (b[p] = "<" /\ b[p + 1] # " ") THEN p
            ELSE f[IF b[p] = "hi" THEN p + 2 ELSE p + 1]]

IsTagScan(f, b, lo) ==
    f = [p \in lo .. Len(b) + 2 |->
            IF p > Len(b) \/ b[p] = ">" THEN p
            ELSE f[IF b[p] = "hi" THEN p + 2 ELSE p + 1]]

TextScan(b, lo) == CHOOSE f : IsTextScan(f, b, lo)
TagScan(b, lo)  == CHOOSE f : IsTagScan(f, b, lo)

LEMMA ScansOfTheCode == /\ TextStop = TextScan(inbuf, pcur)[pcur]
                        /\ TagEnd = TagScan(inbuf, pcur)[pcur]
<1>1. TextStop = TextScan(inbuf, pcur)[pcur]
  BY DEF TextStop, TextScan, IsTextScan, TagStart, pend
<1>2. TagEnd = TagScan(inbuf, pcur)[pcur]
  BY DEF TagEnd, TagScan, IsTagScan, pend
<1> QED
  BY <1>1, <1>2

LEMMA TextScanStep ==
    ASSUME NEW b \in Seq(Symbols), NEW lo \in 1 .. Len(b) + 1
    PROVE  \A p \in lo .. Len(b) + 1 :
              TextScan(b, lo)[p] = IF p >= Len(b) \/ Open(b, p) THEN p
                                   ELSE TextScan(b, lo)[Passed(b, p)]
<1> DEFINE hi == Len(b) + 1
           halt == {p \in lo .. hi : p >= Len(b) \/ Open(b, p)}
           step == [p \in lo .. hi |-> Passed(b, p)]
<1>1. lo \in Int /\ hi \in Int
  OBVIOUS
<1>2. \A p \in lo .. hi : p \notin halt => step[p] \in p + 1 .. hi
  BY DEF Passed
<1>3. PICK f : IsScan(f, lo, hi, halt, step)
  <2> HIDE DEF halt, step, hi
  <2> QED
    BY <1>1, <1>2, ScanExists
<1>4. ASSUME NEW p \in lo .. hi
      PROVE  (IF p \in halt THEN p ELSE f[step[p]])
                = IF p >= Len(b) \/ (b[p] = "<" /\ b[p + 1] # " ") THEN p
                  ELSE f[IF b[p] = "hi" THEN p + 2 ELSE p + 1]
  BY DEF Open, Passed
<1>5. IsTextScan(f, b, lo)
  <2> HIDE DEF halt, step
  <2>1. f = [p \in lo .. hi |-> IF p \in halt THEN p ELSE f[step[p]]]
    BY <1>3 DEF IsScan
  <2> QED
    BY <1>4, <2>1 DEF IsTextScan
<1>6. IsTextScan(TextScan(b, lo), b, lo)
  BY <1>5 DEF TextScan
<1> QED
  BY <1>6 DEF IsTextScan, Open, Passed

LEMMA TagScanStep ==
    ASSUME NEW b \in Seq(Symbols), NEW lo \in 1 .. Len(b) + 1
    PROVE  \A p \in lo .. Len(b) + 2 :
              TagScan(b, lo)[p] = IF p > Len(b) \/ b[p] = ">" THEN p
                                  ELSE TagScan(b, lo)[Passed(b, p)]
<1> DEFINE hi == Len(b) + 2
           halt == {p \in lo .. hi : p > Len(b) \/ b[p] = ">"}
           step == [p \in lo .. hi |-> Passed(b, p)]
<1>1. lo \in Int /\ hi \in Int
  OBVIOUS
<1>2. \A p \in lo .. hi : p \notin halt => step[p] \in p + 1 .. hi
  BY DEF Passed
<1>3. PICK f : IsScan(f, lo, hi, halt, step)
  <2> HIDE DEF halt, step, hi
  <2> QED
    BY <1>1, <1>2, ScanExists
<1>4. ASSUME NEW p \in lo .. hi
      PROVE  (IF p \in halt THEN p ELSE f[step[p]])
                = IF p > Len(b) \/ b[p] = ">" THEN p
                  ELSE f[IF b[p] = "hi" THEN p + 2 ELSE p + 1]
  BY DEF Passed
<1>5. IsTagScan(f, b, lo)
  <2> HIDE DEF halt, step
  <2>1. f = [p \in lo .. hi |-> IF p \in halt THEN p ELSE f[step[p]]]
    BY <1>3 DEF IsScan
  <2> QED
    BY <1>4, <2>1 DEF IsTagScan
<1>6. IsTagScan(TagScan(b, lo), b, lo)
  BY <1>5 DEF TagScan
<1> QED
  BY <1>6 DEF IsTagScan, Passed

\* Text is at least one symbol, and the scan stops in the buffer or just behind.
LEMMA TextScanBounds ==
    ASSUME NEW b \in Seq(Symbols), NEW lo \in 1 .. Len(b) + 1
    PROVE  /\ \A p \in lo .. Len(b) + 1 : TextScan(b, lo)[p] \in p .. Len(b) + 1
           /\ lo < Len(b) /\ ~Open(b, lo) => TextScan(b, lo)[lo] # lo
<1> DEFINE f == TextScan(b, lo)
           hi == Len(b) + 1
           T == {p \in lo .. hi : f[p] \in p .. hi}
<1> HIDE DEF f
<1>1. \A p \in lo .. hi : f[p] = IF p >= Len(b) \/ Open(b, p) THEN p ELSE f[Passed(b, p)]
  BY TextScanStep DEF f
<1>2. \A p \in lo .. hi : p < Len(b) => Passed(b, p) \in p + 1 .. hi
  BY DEF Passed
<1>3. ASSUME NEW p \in lo .. hi, \A q \in p + 1 .. hi : q \in T
      PROVE  p \in T
  <2>1. CASE p >= Len(b) \/ Open(b, p)
    BY <1>1, <2>1
  <2>2. CASE ~(p >= Len(b) \/ Open(b, p))
    <3>1. Passed(b, p) \in p + 1 .. hi /\ f[p] = f[Passed(b, p)]
      BY <1>1, <1>2, <2>2
    <3>2. f[Passed(b, p)] \in Passed(b, p) .. hi
      BY <1>3, <3>1
    <3> QED
      BY <3>1, <3>2
  <2> QED
    BY <2>1, <2>2
<1>4. lo .. hi \subseteq T
  <2>1. lo \in Int /\ hi \in Int
    OBVIOUS
  <2> HIDE DEF T, hi
  <2> QED
    BY <1>3, <2>1, FromAbove
<1>5. ASSUME lo < Len(b), ~Open(b, lo)
      PROVE  f[lo] # lo
  <2>1. Passed(b, lo) \in lo + 1 .. hi /\ f[lo] = f[Passed(b, lo)]
    BY <1>1, <1>2, <1>5
  <2>2. f[Passed(b, lo)] \in Passed(b, lo) .. hi
    BY <1>4, <2>1
  <2> QED
    BY <2>1, <2>2
<1> QED
  BY <1>4, <1>5 DEF f

\* The scan for ">" stops at one, or behind the buffer.
LEMMA TagScanBounds ==
    ASSUME NEW b \in Seq(Symbols), NEW lo \in 1 .. Len(b) + 1
    PROVE  \A p \in lo .. Len(b) + 2 :
              /\ TagScan(b, lo)[p] \in p .. Len(b) + 2
              /\ TagScan(b, lo)[p] <= Len(b) => b[TagScan(b, lo)[p]] = ">"
<1> DEFINE f == TagScan(b, lo)
           hi == Len(b) + 2
           T == {p \in lo .. hi : f[p] \in p .. hi /\ (f[p] <= Len(b) => b[f[p]] = ">")}
<1> HIDE DEF f
<1>1. \A p \in lo .. hi : f[p] = IF p > Len(b) \/ b[p] = ">" THEN p ELSE f[Passed(b, p)]
  BY TagScanStep DEF f
<1>2. \A p \in lo .. hi : p <= Len(b) => Passed(b, p) \in p + 1 .. hi
  BY DEF Passed
<1>3. ASSUME NEW p \in lo .. hi, \A q \in p + 1 .. hi : q \in T
      PROVE  p \in T
  <2>1. CASE p > Len(b) \/ b[p] = ">"
    BY <1>1, <2>1
  <2>2. CASE ~(p > Len(b) \/ b[p] = ">")
    <3>1. Passed(b, p) \in p + 1 .. hi /\ f[p] = f[Passed(b, p)]
      BY <1>1, <1>2, <2>2
    <3>2. Passed(b, p) \in T
      BY <1>3, <3>1
    <3> QED
      BY <3>1, <3>2
  <2> QED
    BY <2>1, <2>2
<1>4. lo .. hi \subseteq T
  <2>1. lo \in Int /\ hi \in Int
    OBVIOUS
  <2> HIDE DEF T, hi
  <2> QED
    BY <1>3, <2>1, FromAbove
<1> QED
  BY <1>4 DEF f

-----------------------------------------------------------------------------
(* Nothing is lost *)

Kinds == {"text", "noname", "tag", "script"}

PieceSet == [kind : Kinds, at : Int, of : Seq(Symbols), by : Seq(Symbols)]

\* Everything passed in: what the pieces o stand for, the buffer b from c on,
\* and what is kept.
Whole(o, b, c, keep) == Stands(o) \o SubSeq(b, c, Len(b)) \o keep

LEMMA PieceStands ==
    ASSUME NEW o \in Seq(PieceSet)
    PROVE  /\ Stands(o) \in Seq(Symbols)
           /\ \A e \in PieceSet : /\ Append(o, e) \in Seq(PieceSet)
                                  /\ Stands(Append(o, e)) = Stands(o) \o e.of
<1>1. Standing(PieceSet, Symbols)
  BY DEF Standing, PieceSet
<1>2. ASSUME NEW e \in PieceSet
      PROVE  /\ Stands(o) \in Seq(Symbols)
             /\ Append(o, e) \in Seq(PieceSet)
             /\ Stands(Append(o, e)) = Stands(o) \o e.of
  BY <1>1, StandsAppend
<1>3. PieceSet # {}
  <2>1. <<>> \in Seq(Symbols) /\ 0 \in Int
    OBVIOUS
  <2>2. [kind |-> "text", at |-> 0, of |-> <<>>, by |-> <<>>] \in PieceSet
    BY <2>1 DEF PieceSet, Kinds
  <2> QED
    BY <2>2
<1> QED
  BY <1>2, <1>3

LEMMA OneLeft ==
    ASSUME NEW b \in Seq(Symbols), Len(b) > 0
    PROVE  /\ SubSeq(b, Len(b), Len(b)) = <<b[Len(b)]>>
           /\ SubSeq(b, Len(b) + 1, Len(b)) = <<>>
           /\ <<b[Len(b)]>> \in Seq(Symbols)
<1> DEFINE n == Len(b)
<1>1. n \in 1 .. Len(b) /\ n \in n .. Len(b) /\ n \in Int /\ n < n + 1 /\ b[n] \in Symbols
  OBVIOUS
<1>2. SubSeq(b, n, n) = <<b[n]>> \o SubSeq(b, n + 1, n)
  BY <1>1, SubSeqRecursiveFirst
<1>3. SubSeq(b, n + 1, n) = <<>>
  BY <1>1, SubSeqEmpty
<1>4. <<b[n]>> \o <<>> = <<b[n]>> /\ <<b[n]>> \in Seq(Symbols)
  BY <1>1, ConcatEmptySeq
<1> QED
  BY <1>2, <1>3, <1>4

LEMMA Regroup ==
    ASSUME NEW x \in Seq(Symbols), NEW y \in Seq(Symbols), NEW z \in Seq(Symbols)
    PROVE  (x \o y) \o z = x \o (y \o z)
  BY ConcatAssociative, SMTT(30)

LEMMA RestTypes ==
    ASSUME NEW b \in Seq(Symbols), NEW c \in 1 .. Len(b) + 1, NEW l \in 0 .. Len(b)
    PROVE  SubSeq(b, c, l) \in Seq(Symbols)
  BY SubSeqProperties

LEMMA Advance ==
    ASSUME NEW o \in Seq(PieceSet), NEW e \in PieceSet, NEW b \in Seq(Symbols),
           NEW c \in 1 .. Len(b), NEW last \in c .. Len(b), e.of = SubSeq(b, c, last)
    PROVE  Whole(Append(o, e), b, last + 1, <<>>) = Whole(o, b, c, <<>>)
<1>2. Stands(Append(o, e)) = Stands(o) \o e.of /\ Stands(o) \in Seq(Symbols)
  BY PieceStands
<1> DEFINE x == Stands(o)
           y == SubSeq(b, c, last)
           z == SubSeq(b, last + 1, Len(b))
<1>3. y \in Seq(Symbols) /\ z \in Seq(Symbols)
  BY RestTypes
<1>4. y \o z = SubSeq(b, c, Len(b))
  <2>1. c \in 1 .. Len(b) + 1 /\ last \in c - 1 .. Len(b) /\ Len(b) \in last .. Len(b)
    OBVIOUS
  <2> QED
    BY <2>1, ConcatAdjacentSubSeq
<1> HIDE DEF x, y, z
<1>5. (x \o y) \o z = x \o (y \o z)
  BY <1>2, <1>3, Regroup DEF x
<1> QED
  BY <1>2, <1>4, <1>5 DEF x, y, z, Whole

LEMMA AdvanceKeeping ==
    ASSUME NEW o \in Seq(PieceSet), NEW e \in PieceSet, NEW b \in Seq(Symbols),
           NEW c \in 1 .. Len(b) - 1, e.of = SubSeq(b, c, Len(b) - 1)
    PROVE  Whole(Append(o, e), b, Len(b) + 1, <<b[Len(b)]>>) = Whole(o, b, c, <<>>)
<1> DEFINE n == Len(b)
           x == Stands(Append(o, e))
<1>1. Whole(Append(o, e), b, (n - 1) + 1, <<>>) = Whole(o, b, c, <<>>)
  <2>1. n - 1 \in c .. Len(b) /\ c \in 1 .. Len(b)
    OBVIOUS
  <2> HIDE DEF n
  <2>2. e.of = SubSeq(b, c, n - 1)
    BY DEF n
  <2> QED
    BY <2>1, <2>2, Advance
<1>2. (n - 1) + 1 = n
  OBVIOUS
<1>3. SubSeq(b, n, n) = <<b[n]>> /\ SubSeq(b, n + 1, n) = <<>>
  BY OneLeft
<1>4. x \in Seq(Symbols)
  BY PieceStands
<1>5. <<b[n]>> \in Seq(Symbols)
  OBVIOUS
<1> HIDE DEF n, x
<1>6. x \o <<>> = x /\ (x \o <<b[n]>>) \o <<>> = x \o <<b[n]>>
  <2>1. x \o <<b[n]>> \in Seq(Symbols)
    BY <1>4, <1>5, ConcatProperties
  <2> QED
    BY <1>4, <2>1, ConcatEmptySeq
<1>7. Whole(Append(o, e), b, n, <<>>) = x \o <<b[n]>>
  BY <1>3, <1>6 DEF Whole, n, x
<1>8. Whole(Append(o, e), b, n + 1, <<b[n]>>) = x \o <<b[n]>>
  BY <1>3, <1>6 DEF Whole, n, x
<1> QED
  BY <1>1, <1>2, <1>7, <1>8 DEF n

LEMMA KeepRest ==
    ASSUME NEW o \in Seq(PieceSet), NEW b \in Seq(Symbols), NEW c \in 1 .. Len(b) + 1
    PROVE  Whole(o, <<>>, 1, SubSeq(b, c, Len(b))) = Whole(o, b, c, <<>>)
<1> DEFINE x == Stands(o)
           y == SubSeq(b, c, Len(b))
<1>1. x \in Seq(Symbols)
  BY PieceStands
<1>2. y \in Seq(Symbols)
  BY RestTypes
<1>3. SubSeq(<<>>, 1, Len(<<>>)) = <<>>
  OBVIOUS
<1> HIDE DEF x, y
<1>4. x \o <<>> = x
  BY <1>1, ConcatEmptySeq
<1>5. (x \o y) \o <<>> = x \o y
  <2>1. x \o y \in Seq(Symbols)
    BY <1>1, <1>2, ConcatProperties
  <2> QED
    BY <2>1, ConcatEmptySeq
<1> QED
  BY <1>3, <1>4, <1>5 DEF x, y, Whole

LEMMA Feed ==
    ASSUME NEW o \in Seq(PieceSet), NEW keep \in Seq(Symbols), NEW s \in Seq(Symbols)
    PROVE  Whole(o, keep \o s, 1, <<>>) = Whole(o, <<>>, 1, keep) \o s
<1> DEFINE x == Stands(o)
           b == keep \o s
<1>1. b \in Seq(Symbols)
  BY ConcatProperties
<1>2. SubSeq(b, 1, Len(b)) = b
  BY <1>1, SubSeqFull
<1> HIDE DEF b
<1>3. Whole(o, <<>>, 1, SubSeq(b, 1, Len(b))) = Whole(o, b, 1, <<>>)
  BY <1>1, KeepRest
<1>4. x \in Seq(Symbols)
  BY PieceStands
<1>5. SubSeq(<<>>, 1, Len(<<>>)) = <<>>
  OBVIOUS
<1> HIDE DEF x
<1>6. x \o <<>> = x /\ x \o (keep \o s) = (x \o keep) \o s
  BY <1>4, ConcatEmptySeq, ConcatAssociative
<1> QED
  BY <1>2, <1>3, <1>5, <1>6 DEF x, b, Whole

-----------------------------------------------------------------------------
(* The invariant *)

Types ==
    /\ doc \in Docs /\ given \in 0 .. Len(doc) /\ treatAsHtml \in BOOLEAN
    /\ pc \in {"idle", "loop", "crashed"} /\ inbuf \in Seq(Symbols)
    /\ pcur \in 1 .. pend + 1
    /\ bak \in Seq(Symbols) /\ text \in Seq(Symbols)
    /\ pc # "idle" /\ bak # <<>> => pcur = pend + 1
    /\ pc = "idle" => inbuf = <<>>
    /\ out \in Seq(PieceSet)

\* The buffer b is the part of the page d that ends at the place n of it.
EndsAt(b, d, n) == Len(b) <= n /\ \A i \in 1 .. Len(b) : b[i] = d[n - Len(b) + i]

\* The buffer and what is kept are what was passed in last.
Windows == EndsAt(inbuf, doc, given) /\ EndsAt(bak, doc, given)

Inv == Types /\ Windows /\ PiecesCover

LEMMA WholeKept == PiecesCover <=> Whole(out, inbuf, pcur, bak) = SubSeq(doc, 1, given)
  BY DEF PiecesCover, Whole, Stands, pend

LEMMA WholeKeptNext ==
    PiecesCover' <=> Whole(out', inbuf', pcur', bak') = SubSeq(doc', 1, given')
  BY DEF PiecesCover, Whole, Stands, pend

LEMMA DocTypes ==
    ASSUME Types
    PROVE  doc \in Seq(Symbols) /\ Len(doc) \in Nat
  BY DocAssumption DEF Types

LEMMA InitInv == Init => Inv
<1> SUFFICES ASSUME Init PROVE Inv
  OBVIOUS
<1>1. <<>> \in Seq(Symbols) /\ <<>> \in Seq(PieceSet) /\ Len(<<>>) = 0
  OBVIOUS
<1>2. doc \in Seq(Symbols) /\ Len(doc) \in Nat
  BY DocAssumption DEF Init
<1>3. Types
  BY <1>1, <1>2 DEF Init, Types, pend
<1>4. Windows
  BY <1>1 DEF Init, Windows, EndsAt
<1>5. PiecesCover
  <2>1. Stands(<<>>) = <<>>
    <3>1. [k \in DOMAIN <<>> |-> <<>>[k].of] = <<>>
      OBVIOUS
    <3> QED
      BY <3>1, FlattenEmpty DEF Stands
  <2>2. Whole(<<>>, <<>>, 1, <<>>) = <<>>
    <3>1. SubSeq(<<>>, 1, Len(<<>>)) = <<>>
      OBVIOUS
    <3>2. <<>> \o <<>> = <<>>
      OBVIOUS
    <3> QED
      BY <2>1, <3>1, <3>2 DEF Whole
  <2>3. SubSeq(doc, 1, 0) = <<>>
    BY SubSeqEmpty
  <2> QED
    BY <2>2, <2>3, WholeKept DEF Init
<1> QED
  BY <1>3, <1>4, <1>5 DEF Inv

LEMMA CallInv ==
    ASSUME Inv, NEW n \in Nat \ {0}, Call(n)
    PROVE  Inv'
<1> DEFINE s == SubSeq(doc, given + 1, given + n)
<1>1. doc \in Seq(Symbols) /\ Len(doc) \in Nat /\ given \in Nat /\ given + n <= Len(doc)
  BY DocTypes DEF Inv, Types, Call
<1>2. s \in Seq(Symbols) /\ Len(s) = n /\ \A i \in 1 .. n : s[i] = doc[given + i]
  <2>1. \A i \in given + 1 .. given + n : doc[i] \in Symbols
    BY <1>1
  <2> QED
    BY <1>1, <2>1, SubSeqProperties
<1>3. /\ pc = "idle" /\ inbuf = <<>> /\ pcur = 1 /\ bak \in Seq(Symbols) /\ doc' = doc
      /\ given' = given + n /\ inbuf' = bak \o s /\ bak' = <<>> /\ pcur' = 1 /\ out' = out
      /\ text' = <<>> /\ pc' = "loop" /\ treatAsHtml' = treatAsHtml
      /\ Len(bak) \in Nat
  BY DEF Inv, Types, Call, pend
<1> HIDE DEF s
<1>4. /\ inbuf' \in Seq(Symbols) /\ Len(inbuf') = Len(bak) + n
      /\ \A i \in 1 .. Len(bak) + n : inbuf'[i] = IF i <= Len(bak) THEN bak[i] ELSE s[i - Len(bak)]
  BY <1>2, <1>3, ConcatProperties
<1>5. <<>> \in Seq(Symbols) /\ Len(<<>>) = 0
  OBVIOUS
<1>6. Types'
  BY <1>1, <1>3, <1>4, <1>5 DEF Inv, Types, pend
<1>7. Windows'
  <2>1. EndsAt(bak, doc, given)
    BY DEF Inv, Windows
  <2>2. EndsAt(inbuf', doc, given + n)
    <3>1. ASSUME NEW i \in 1 .. Len(bak) + n
          PROVE  inbuf'[i] = doc[(given + n) - (Len(bak) + n) + i]
      <4>1. (given + n) - (Len(bak) + n) + i = given - Len(bak) + i
        BY <1>1, <1>3
      <4>2. CASE i <= Len(bak)
        BY <1>3, <1>4, <2>1, <4>1, <4>2 DEF EndsAt
      <4>3. CASE ~(i <= Len(bak))
        <5>1. i - Len(bak) \in 1 .. n /\ given + (i - Len(bak)) = given - Len(bak) + i
          BY <1>1, <1>3, <4>3
        <5> QED
          BY <1>2, <1>4, <4>1, <4>3, <5>1
      <4> QED
        BY <4>2, <4>3
    <3> QED
      BY <1>1, <1>3, <1>4, <2>1, <3>1 DEF EndsAt
  <2>3. EndsAt(<<>>, doc, given + n)
    BY <1>1, <1>5 DEF EndsAt
  <2> QED
    BY <1>3, <2>2, <2>3 DEF Windows
<1>8. PiecesCover'
  <2>1. out \in Seq(PieceSet)
    BY DEF Inv, Types
  <2>2. Whole(out, bak \o s, 1, <<>>) = Whole(out, <<>>, 1, bak) \o s
    BY <1>2, <1>3, <2>1, Feed
  <2>3. Whole(out, <<>>, 1, bak) = SubSeq(doc, 1, given)
    BY <1>3, WholeKept DEF Inv
  <2>4. SubSeq(doc, 1, given) \o SubSeq(doc, given + 1, given + n) = SubSeq(doc, 1, given + n)
    <3>1. 1 \in 1 .. Len(doc) + 1 /\ given \in 1 - 1 .. Len(doc) /\ given + n \in given .. Len(doc)
      BY <1>1
    <3> QED
      BY <1>1, <3>1, ConcatAdjacentSubSeq
  <2>5. Whole(out', inbuf', pcur', bak') = SubSeq(doc', 1, given')
    BY <1>3, <2>2, <2>3, <2>4 DEF s
  <2> QED
    BY <2>5, WholeKeptNext
<1> QED
  BY <1>6, <1>7, <1>8 DEF Inv

\* A return keeps what is left of the buffer.
LEMMA ReturnInv ==
    ASSUME Inv, pc = "loop", NEW keep \in Seq(Symbols), Return(keep), out' = out,
           EndsAt(keep, doc, given),
           Whole(out, <<>>, 1, keep) = Whole(out, inbuf, pcur, bak)
    PROVE  Inv'
<1>1. <<>> \in Seq(Symbols) /\ Len(<<>>) = 0
  OBVIOUS
<1>2. Types'
  BY <1>1 DEF Inv, Types, Return, pend
<1>3. Windows'
  <2>1. EndsAt(<<>>, doc, given)
    BY <1>1 DEF EndsAt, Inv, Types
  <2> QED
    BY <2>1 DEF Windows, Return
<1>4. PiecesCover'
  <2>1. Whole(out', inbuf', pcur', bak') = SubSeq(doc', 1, given')
    BY WholeKept DEF Inv, Return
  <2> QED
    BY <2>1, WholeKeptNext
<1> QED
  BY <1>2, <1>3, <1>4 DEF Inv

LEMMA EndOfBuffer ==
    ASSUME NEW b \in Seq(Symbols), NEW c \in 1 .. Len(b) + 1, NEW d, NEW n \in Nat,
           EndsAt(b, d, n)
    PROVE  EndsAt(SubSeq(b, c, Len(b)), d, n)
<1> DEFINE k == SubSeq(b, c, Len(b))
<1>1. Len(k) = Len(b) - c + 1 /\ \A i \in 1 .. Len(b) - c + 1 : k[i] = b[c + i - 1]
  <2>1. \A i \in c .. Len(b) : b[i] \in Symbols
    OBVIOUS
  <2>2. c \in Int /\ Len(b) \in Int
    OBVIOUS
  <2>3. /\ Len(k) = IF c <= Len(b) THEN Len(b) - c + 1 ELSE 0
        /\ \A i \in 1 .. Len(b) - c + 1 : k[i] = b[c + i - 1]
    BY <2>1, <2>2, SubSeqProperties
  <2> QED
    BY <2>3
<1> HIDE DEF k
<1>2. ASSUME NEW i \in 1 .. Len(b) - c + 1
      PROVE  k[i] = d[n - (Len(b) - c + 1) + i]
  <2>1. c + i - 1 \in 1 .. Len(b)
    OBVIOUS
  <2>2. n - (Len(b) - c + 1) + i = n - Len(b) + (c + i - 1)
    OBVIOUS
  <2>3. b[c + i - 1] = d[n - Len(b) + (c + i - 1)]
    BY <2>1 DEF EndsAt
  <2> QED
    BY <1>1, <2>2, <2>3
<1> QED
  BY <1>1, <1>2 DEF EndsAt, k

LEMMA LoopTypes ==
    ASSUME Inv, pc = "loop"
    PROVE  /\ inbuf \in Seq(Symbols) /\ Len(inbuf) \in Nat /\ pend = Len(inbuf)
           /\ pcur \in 1 .. Len(inbuf) + 1 /\ given \in Nat /\ out \in Seq(PieceSet)
           /\ pcur <= Len(inbuf) => bak = <<>>
           /\ EndsAt(inbuf, doc, given) /\ EndsAt(bak, doc, given) /\ bak \in Seq(Symbols)
  BY DocTypes DEF Inv, Types, Windows, pend

LEMMA DoneInv == Inv /\ Done => Inv'
<1> SUFFICES ASSUME Inv, Done PROVE Inv'
  OBVIOUS
<1>1. /\ pc = "loop" /\ pcur > Len(inbuf) /\ Return(bak) /\ out' = out
  BY DEF Done, pend
<1>2. SubSeq(inbuf, pcur, Len(inbuf)) = SubSeq(<<>>, 1, Len(<<>>))
  <2>1. SubSeq(inbuf, pcur, Len(inbuf)) = <<>>
    BY <1>1, LoopTypes, SubSeqEmpty
  <2> QED
    BY <2>1
<1>3. Whole(out, <<>>, 1, bak) = Whole(out, inbuf, pcur, bak)
  BY <1>2 DEF Whole
<1> QED
  BY <1>1, <1>3, LoopTypes, ReturnInv

\* To return keeping the buffer from the present place on.
LEMMA KeepInv ==
    ASSUME Inv, pc = "loop", pcur <= Len(inbuf), Return(SubSeq(inbuf, pcur, Len(inbuf))), out' = out
    PROVE  Inv'
<1> DEFINE keep == SubSeq(inbuf, pcur, Len(inbuf))
<1>1. keep \in Seq(Symbols)
  BY LoopTypes, RestTypes
<1>2. EndsAt(keep, doc, given)
  BY LoopTypes, EndOfBuffer
<1>3. Whole(out, <<>>, 1, keep) = Whole(out, inbuf, pcur, bak)
  BY LoopTypes, KeepRest
<1> QED
  BY <1>1, <1>2, <1>3, ReturnInv

LEMMA KeepLastInv == Inv /\ KeepLast => Inv'
<1> SUFFICES ASSUME Inv, KeepLast PROVE Inv'
  OBVIOUS
<1>1. pc = "loop" /\ pcur = Len(inbuf) /\ Return(<<inbuf[pcur]>>) /\ out' = out
  BY DEF KeepLast, pend
<1>2. SubSeq(inbuf, pcur, Len(inbuf)) = <<inbuf[pcur]>>
  BY <1>1, LoopTypes, OneLeft
<1> QED
  BY <1>1, <1>2, LoopTypes, KeepInv

LEMMA KeepTagInv == Inv /\ KeepTag => Inv'
<1> SUFFICES ASSUME Inv, KeepTag PROVE Inv'
  OBVIOUS
<1>1. pc = "loop" /\ pcur < Len(inbuf) /\ Return(SubSeq(inbuf, pcur, Len(inbuf))) /\ out' = out
  BY DEF KeepTag, InTag, pend
<1> QED
  BY <1>1, LoopTypes, KeepInv

\* A piece is put out and the place moved behind it.
LEMMA PutOutInv ==
    ASSUME Inv, pc = "loop", NEW kind \in {"text", "noname", "tag", "script"},
           NEW last \in pcur .. Len(inbuf), NEW by \in Seq(Symbols), PutOut(kind, last, by),
           text' \in Seq(Symbols),
           pcur' = last + 1, UNCHANGED <<doc, given, treatAsHtml, pc, inbuf, bak>>
    PROVE  Inv'
<1> DEFINE e == [kind |-> kind, at |-> given - pend + pcur,
                 of |-> SubSeq(inbuf, pcur, last), by |-> by]
<1>0. /\ inbuf \in Seq(Symbols) /\ Len(inbuf) \in Nat /\ pend = Len(inbuf)
      /\ pcur \in 1 .. Len(inbuf) /\ given \in Nat /\ out \in Seq(PieceSet) /\ bak = <<>>
      /\ last \in pcur .. Len(inbuf)
  BY LoopTypes
<1>1. e \in PieceSet
  <2>1. SubSeq(inbuf, pcur, last) \in Seq(Symbols)
    BY <1>0, RestTypes
  <2> QED
    BY <1>0, <2>1 DEF PieceSet, Kinds
<1>2. out' = Append(out, e) /\ Append(out, e) \in Seq(PieceSet)
  BY <1>0, <1>1, PieceStands DEF PutOut
<1>3. Types'
  BY <1>0, <1>2 DEF Inv, Types, pend
<1>4. Windows'
  BY DEF Inv, Windows
<1>5. PiecesCover'
  <2>1. e.of = SubSeq(inbuf, pcur, last)
    OBVIOUS
  <2> HIDE DEF e
  <2>2. Whole(Append(out, e), inbuf, last + 1, <<>>) = Whole(out, inbuf, pcur, <<>>)
    BY <1>0, <1>1, <2>1, Advance
  <2>3. Whole(out', inbuf', pcur', bak') = SubSeq(doc', 1, given')
    BY <1>0, <1>2, <2>2, WholeKept DEF Inv
  <2> QED
    BY <2>3, WholeKeptNext
<1> QED
  BY <1>3, <1>4, <1>5 DEF Inv

\* The text up to the last symbol is put out, and the last symbol is kept.
LEMMA PutOutKeepingInv ==
    ASSUME Inv, pc = "loop", pcur < Len(inbuf), TextUpTo(pend - 1),
           bak' = <<inbuf[pend]>>, pcur' = pend + 1
    PROVE  Inv'
<1> DEFINE l == SubSeq(inbuf, pcur, pend - 1)
           e == [kind |-> "text", at |-> given - pend + pcur, of |-> l, by |-> l]
<1>0. /\ inbuf \in Seq(Symbols) /\ Len(inbuf) \in Nat /\ pend = Len(inbuf)
      /\ pcur \in 1 .. Len(inbuf) - 1 /\ given \in Nat /\ out \in Seq(PieceSet) /\ bak = <<>>
      /\ EndsAt(inbuf, doc, given)
  BY LoopTypes
<1>1. l \in Seq(Symbols) /\ l = SubSeq(inbuf, pcur, Len(inbuf) - 1)
  BY <1>0, RestTypes
<1> HIDE DEF l
<1>2. e \in PieceSet /\ e.of = l
  BY <1>0, <1>1 DEF PieceSet, Kinds
<1>3. out' = Append(out, e) /\ Append(out, e) \in Seq(PieceSet) /\ text' = l
  BY <1>0, <1>2, PieceStands DEF TextUpTo, PutOut, l
<1> HIDE DEF e
<1>4. /\ doc' = doc /\ given' = given /\ treatAsHtml' = treatAsHtml /\ pc' = pc /\ inbuf' = inbuf
      /\ bak' = <<inbuf[Len(inbuf)]>> /\ pcur' = Len(inbuf) + 1
  BY <1>0 DEF TextUpTo
<1>5. bak' \in Seq(Symbols) /\ bak' = SubSeq(inbuf, Len(inbuf), Len(inbuf))
  BY <1>0, <1>4, OneLeft
<1>6. Types'
  BY <1>0, <1>1, <1>3, <1>4, <1>5 DEF Inv, Types, pend
<1>7. Windows'
  <2>1. EndsAt(SubSeq(inbuf, Len(inbuf), Len(inbuf)), doc, given)
    BY <1>0, EndOfBuffer
  <2> QED
    BY <1>0, <1>4, <1>5, <2>1 DEF Windows
<1>8. PiecesCover'
  <2>1. Whole(Append(out, e), inbuf, Len(inbuf) + 1, <<inbuf[Len(inbuf)]>>)
           = Whole(out, inbuf, pcur, <<>>)
    BY <1>0, <1>1, <1>2, AdvanceKeeping
  <2>2. Whole(out', inbuf', pcur', bak') = SubSeq(doc', 1, given')
    BY <1>0, <1>3, <1>4, <2>1, WholeKept DEF Inv
  <2> QED
    BY <2>2, WholeKeptNext
<1> QED
  BY <1>6, <1>7, <1>8 DEF Inv

\* Where a text ends, and a tag.
LEMMA InTextBounds ==
    ASSUME Inv, InText
    PROVE  /\ pc = "loop" /\ pend = Len(inbuf) /\ pcur < Len(inbuf)
           /\ TextStop \in pcur + 1 .. Len(inbuf) + 1
<1>1. pc = "loop" /\ pcur < pend /\ ~Open(inbuf, pcur)
  BY DEF InText, TagStart, Open
<1>2. inbuf \in Seq(Symbols) /\ pcur \in 1 .. Len(inbuf) + 1 /\ pend = Len(inbuf)
  BY <1>1, LoopTypes
<1> DEFINE stop == TextScan(inbuf, pcur)[pcur]
<1>3. stop \in pcur .. Len(inbuf) + 1 /\ stop # pcur
  BY <1>1, <1>2, TextScanBounds
<1> QED
  BY <1>1, <1>2, <1>3, ScansOfTheCode

LEMMA InTagBounds ==
    ASSUME Inv, InTag
    PROVE  /\ pc = "loop" /\ pend = Len(inbuf) /\ pcur < Len(inbuf)
           /\ TagEnd \in pcur + 1 .. Len(inbuf) + 2
           /\ TagEnd <= Len(inbuf) => inbuf[TagEnd] = ">"
<1>1. pc = "loop" /\ pcur < pend /\ inbuf[pcur] = "<"
  BY DEF InTag, TagStart
<1>2. inbuf \in Seq(Symbols) /\ pcur \in 1 .. Len(inbuf) + 1 /\ pend = Len(inbuf)
  BY <1>1, LoopTypes
<1> DEFINE stop == TagScan(inbuf, pcur)[pcur]
<1>3. stop \in pcur .. Len(inbuf) + 2 /\ (stop <= Len(inbuf) => inbuf[stop] = ">")
  <2>1. pcur \in pcur .. Len(inbuf) + 2
    BY <1>2
  <2> QED
    BY <1>2, <2>1, TagScanBounds
<1>4. stop # pcur
  BY <1>1, <1>2, <1>3
<1> QED
  BY <1>1, <1>2, <1>3, <1>4, ScansOfTheCode

LEMMA TextBeforeTagInv == Inv /\ TextBeforeTag => Inv'
<1> SUFFICES ASSUME Inv, TextBeforeTag PROVE Inv'
  OBVIOUS
<1> DEFINE last == TextStop - 1
           by == SubSeq(inbuf, pcur, last)
<1>1. InText /\ TextUpTo(last) /\ pcur' = last + 1 /\ bak' = bak
  <2>1. InText /\ TextUpTo(last) /\ pcur' = TextStop /\ bak' = bak
    BY DEF TextBeforeTag
  <2>2. TextStop \in Int
    BY <2>1, InTextBounds
  <2> QED
    BY <2>1, <2>2
<1>2. pc = "loop" /\ last \in pcur .. Len(inbuf)
  BY <1>1, InTextBounds, LoopTypes
<1>3. by \in Seq(Symbols)
  BY <1>2, LoopTypes, RestTypes
<1>4. /\ PutOut("text", last, by) /\ text' = by
      /\ UNCHANGED <<doc, given, treatAsHtml, pc, inbuf>>
  BY <1>1 DEF TextUpTo, PutOut
<1> HIDE DEF last, by
<1> QED
  BY <1>1, <1>2, <1>3, <1>4, PutOutInv

LEMMA TextAtEndInv == Inv /\ TextAtEnd => Inv'
<1> SUFFICES ASSUME Inv, TextAtEnd PROVE Inv'
  OBVIOUS
<1>1. InText /\ pcur' = pend + 1
  BY DEF TextAtEnd
<1>2. pc = "loop" /\ pcur < Len(inbuf) /\ pend = Len(inbuf)
  BY <1>1, InTextBounds
<1>3. CASE inbuf[pend] \in {"<", "hi"}
  BY <1>1, <1>2, <1>3, PutOutKeepingInv DEF TextAtEnd
<1>4. CASE inbuf[pend] \notin {"<", "hi"}
  <2> DEFINE by == SubSeq(inbuf, pcur, Len(inbuf))
  <2>1. by \in Seq(Symbols) /\ Len(inbuf) \in pcur .. Len(inbuf)
    BY <1>2, LoopTypes, RestTypes
  <2>2. /\ PutOut("text", Len(inbuf), by) /\ text' = by /\ pcur' = Len(inbuf) + 1
        /\ UNCHANGED <<doc, given, treatAsHtml, pc, inbuf, bak>>
    BY <1>1, <1>2, <1>4 DEF TextAtEnd, TextUpTo, PutOut
  <2> HIDE DEF by
  <2> QED
    BY <1>2, <2>1, <2>2, PutOutInv
<1> QED
  BY <1>3, <1>4

\* A piece that begins with a tag is put out up to `last'.
LEMMA TagPutOutInv ==
    ASSUME Inv, InTag, NEW kind \in {"noname", "tag", "script"},
           NEW last \in TagEnd .. Len(inbuf), NEW by \in Seq(Symbols), PutOut(kind, last, by),
           Goto(last + 1)
    PROVE  Inv'
<1>1. pc = "loop" /\ last \in pcur .. Len(inbuf)
  BY InTagBounds, LoopTypes
<1>2. text' \in Seq(Symbols)
  BY DEF Goto, Inv, Types
<1>3. pcur' = last + 1 /\ UNCHANGED <<doc, given, treatAsHtml, pc, inbuf, bak>>
  BY DEF Goto
<1>4. kind \in {"text", "noname", "tag", "script"}
  OBVIOUS
<1> QED
  BY <1>1, <1>2, <1>3, <1>4, PutOutInv

LEMMA TagWithoutNameInv == Inv /\ TagWithoutName => Inv'
<1> SUFFICES ASSUME Inv, TagWithoutName PROVE Inv'
  OBVIOUS
<1>1. InTag /\ TagEnd <= pend /\ PutOut("noname", TagEnd, text) /\ Goto(TagEnd + 1)
  BY DEF TagWithoutName
<1>2. TagEnd \in TagEnd .. Len(inbuf) /\ text \in Seq(Symbols)
  BY <1>1, InTagBounds, LoopTypes DEF Inv, Types
<1> QED
  BY <1>1, <1>2, TagPutOutInv

LEMMA TagWithoutTextInv == Inv /\ TagWithoutText => Inv'
<1> SUFFICES ASSUME Inv, TagWithoutText PROVE Inv'
  OBVIOUS
<1>1. /\ pc = "loop" /\ pc' = "crashed"
      /\ UNCHANGED <<doc, given, treatAsHtml, bak, inbuf, pcur, text, out>>
  BY DEF TagWithoutText, InTag
<1>2. Types'
  BY <1>1 DEF Inv, Types, pend
<1>3. Windows'
  BY <1>1 DEF Inv, Windows
<1>4. PiecesCover'
  BY <1>1, WholeKept, WholeKeptNext DEF Inv
<1> QED
  BY <1>2, <1>3, <1>4 DEF Inv

LEMMA TagInv == Inv /\ Tag => Inv'
<1> SUFFICES ASSUME Inv, Tag PROVE Inv'
  OBVIOUS
<1> DEFINE by == SubSeq(inbuf, pcur, TagEnd)
<1>1. InTag /\ TagEnd <= pend /\ PutOut("tag", TagEnd, by) /\ Goto(TagEnd + 1)
  BY DEF Tag
<1>2. TagEnd \in TagEnd .. Len(inbuf)
  BY <1>1, InTagBounds, LoopTypes
<1>3. by \in Seq(Symbols)
  BY <1>1, InTagBounds, LoopTypes, RestTypes
<1> HIDE DEF by
<1> QED
  BY <1>1, <1>2, <1>3, TagPutOutInv

LEMMA ScriptInv == Inv /\ Script => Inv'
<1> SUFFICES ASSUME Inv, Script PROVE Inv'
  OBVIOUS
<1> DEFINE last == Min(ScriptEnds)
           by == SubSeq(inbuf, pcur, last)
<1>1. /\ InTag /\ TagEnd <= pend /\ ScriptEnds # {}
      /\ PutOut("script", last, by) /\ Goto(last + 1)
  BY DEF Script
<1>2. TagEnd \in Nat /\ Len(inbuf) \in Nat /\ pend = Len(inbuf)
  BY <1>1, InTagBounds, LoopTypes
<1>3. last \in TagEnd .. Len(inbuf)
  <2>1. ScriptEnds \in SUBSET (TagEnd + 2 .. Len(inbuf) - 1)
    BY <1>2 DEF ScriptEnds
  <2>2. ScriptEnds \in SUBSET Nat
    BY <1>2, <2>1
  <2>3. last \in ScriptEnds
    BY <1>1, <2>2, LeastOfSome
  <2> HIDE DEF last
  <2>4. last \in TagEnd + 2 .. Len(inbuf) - 1
    BY <2>1, <2>3
  <2> QED
    BY <1>2, <2>4
<1>4. by \in Seq(Symbols)
  BY <1>1, <1>3, InTagBounds, LoopTypes, RestTypes
<1> HIDE DEF last, by
<1> QED
  BY <1>1, <1>3, <1>4, TagPutOutInv

LEMMA StutterInv == Inv /\ UNCHANGED vars => Inv'
<1> SUFFICES ASSUME Inv, UNCHANGED vars PROVE Inv'
  OBVIOUS
<1>1. Types'
  BY DEF Inv, Types, vars, pend
<1>2. Windows'
  BY DEF Inv, Windows, vars
<1>3. PiecesCover'
  BY WholeKept, WholeKeptNext DEF Inv, vars
<1> QED
  BY <1>1, <1>2, <1>3 DEF Inv

LEMMA StepInv == Inv /\ [Next]_vars => Inv'
<1> SUFFICES ASSUME Inv, [Next]_vars PROVE Inv'
  OBVIOUS
<1>1. ASSUME NEW n \in 1 .. Len(doc), Call(n) PROVE Inv'
  <2>1. n \in Nat \ {0}
    BY DocTypes DEF Inv
  <2> QED
    BY <1>1, <2>1, CallInv
<1>2. CASE ParseHtml_html
  BY <1>2, DoneInv, KeepLastInv, TextBeforeTagInv, TextAtEndInv, TagWithoutNameInv,
     TagWithoutTextInv, TagInv, ScriptInv, KeepTagInv DEF ParseHtml_html
<1>3. CASE UNCHANGED vars
  BY <1>3, StutterInv
<1> QED
  BY <1>1, <1>2, <1>3 DEF Next

LEMMA Invariant == Spec => []Inv
<1>1. Init => Inv
  BY InitInv
<1>2. Inv /\ [Next]_vars => Inv'
  BY StepInv
<1> QED
  BY <1>1, <1>2, PTL DEF Spec

\* Every variable keeps its type, no more is kept than was passed in, and nothing
\* is kept while there is still something to look at.
THEOREM Typed == Spec => []TypeOK
<1>1. Inv => TypeOK
  BY DEF Inv, Types, Windows, EndsAt, TypeOK
<1> QED
  BY <1>1, Invariant, PTL

-----------------------------------------------------------------------------
(* What is converted.  The text variables of the code are set by each text *)
(* piece and by nothing else, so in a call that has had text they are the  *)
(* last text piece put out.                                                *)

Conv ==
    /\ PiecesConverted
    /\ text # <<>> => \E j \in DOMAIN out : TextBefore(Len(out) + 1, j) /\ out[j].of = text

\* One more piece, converted as it stands or, without a name, by the text.
LEMMA PieceConv ==
    ASSUME Inv, Conv, NEW e \in PieceSet, out' = Append(out, e),
           \/ e.kind = "text" /\ e.by = e.of /\ text' = e.of
           \/ e.kind \in {"tag", "script"} /\ e.by = e.of /\ text' = text
           \/ e.kind = "noname" /\ e.by = text /\ text # <<>> /\ text' = text
    PROVE  Conv'
<1>0. PICK n \in Nat : n = Len(out)
  BY DEF Inv, Types
<1>1. /\ out \in Seq(PieceSet) /\ Len(out) = n /\ DOMAIN out = 1 .. n
      /\ DOMAIN out' = 1 .. n + 1 /\ Len(out') = n + 1 /\ out'[n + 1] = e
      /\ \A i \in 1 .. n : out'[i] = out[i]
  BY <1>0 DEF Inv, Types
<1>2. ASSUME NEW j \in 1 .. n, TextBefore(n + 1, j)
      PROVE  /\ out'[j].kind = "text" /\ out'[j].of = out[j].of
             /\ \A i \in j + 1 .. n : out'[i].kind # "text"
  BY <1>1, <1>2 DEF TextBefore
<1>3. PiecesConverted'
  <2> SUFFICES ASSUME NEW k \in 1 .. n + 1
               PROVE  IF out'[k].kind = "noname"
                      THEN \E j \in 1 .. n + 1 : /\ TextBefore(k, j)'
                                                 /\ out'[k].by = out'[j].of
                      ELSE out'[k].by = out'[k].of
    BY <1>1 DEF PiecesConverted
  <2>1. CASE k \in 1 .. n /\ out[k].kind = "noname"
    <3>1. PICK j \in 1 .. n : TextBefore(k, j) /\ out[k].by = out[j].of
      BY <1>1, <2>1 DEF Conv, PiecesConverted
    <3>2. TextBefore(k, j)'
      BY <1>1, <2>1, <3>1 DEF TextBefore
    <3> QED
      BY <1>1, <2>1, <3>1, <3>2
  <2>2. CASE k \in 1 .. n /\ out[k].kind # "noname"
    BY <1>1, <2>2 DEF Conv, PiecesConverted
  <2>3. CASE k = n + 1 /\ e.kind = "noname"
    <3>1. PICK j \in 1 .. n : TextBefore(n + 1, j) /\ out[j].of = text
      BY <1>1, <2>3 DEF Conv
    <3>2. TextBefore(k, j)'
      BY <1>1, <1>2, <2>3, <3>1 DEF TextBefore
    <3> QED
      BY <1>1, <2>3, <3>1, <3>2
  <2>4. CASE k = n + 1 /\ e.kind # "noname"
    BY <1>1, <2>4
  <2> QED
    BY <1>1, <2>1, <2>2, <2>3, <2>4
<1>4. (text # <<>> => \E j \in DOMAIN out : TextBefore(Len(out) + 1, j) /\ out[j].of = text)'
  <2> SUFFICES ASSUME text' # <<>>
               PROVE  \E j \in 1 .. n + 1 : TextBefore(n + 2, j)' /\ out'[j].of = text'
    BY <1>1 DEF TextBefore
  <2>1. CASE e.kind = "text"
    <3>1. TextBefore(n + 2, n + 1)' /\ out'[n + 1].of = text'
      BY <1>1, <2>1 DEF TextBefore
    <3> QED
      BY <1>1, <3>1
  <2>2. CASE e.kind # "text"
    <3>1. PICK j \in 1 .. n : TextBefore(n + 1, j) /\ out[j].of = text
      BY <1>1, <2>2 DEF Conv
    <3>2. TextBefore(n + 2, j)'
      BY <1>1, <1>2, <2>2, <3>1 DEF TextBefore
    <3> QED
      BY <1>1, <1>2, <2>2, <3>1, <3>2
  <2> QED
    BY <2>1, <2>2
<1> QED
  BY <1>3, <1>4 DEF Conv

LEMMA ConvSame == ASSUME Conv, UNCHANGED out, text' \in {text, <<>>} PROVE Conv'
  BY DEF Conv, PiecesConverted, TextBefore

\* The piece PutOut makes.
LEMMA PutOutPiece ==
    ASSUME Inv, pc = "loop", NEW kind \in Kinds, NEW last \in pcur .. Len(inbuf),
           NEW by \in Seq(Symbols), PutOut(kind, last, by)
    PROVE  \E e \in PieceSet : /\ out' = Append(out, e) /\ e.kind = kind /\ e.by = by
                              /\ e.of = SubSeq(inbuf, pcur, last)
<1> DEFINE e == [kind |-> kind, at |-> given - pend + pcur,
                 of |-> SubSeq(inbuf, pcur, last), by |-> by]
<1>1. /\ inbuf \in Seq(Symbols) /\ pend = Len(inbuf) /\ Len(inbuf) \in Nat
      /\ pcur \in 1 .. Len(inbuf) /\ given \in Nat
  BY LoopTypes
<1>2. SubSeq(inbuf, pcur, last) \in Seq(Symbols)
  BY <1>1, RestTypes
<1>3. e \in PieceSet
  BY <1>1, <1>2 DEF PieceSet
<1>4. out' = Append(out, e)
  BY DEF PutOut
<1> QED
  BY <1>3, <1>4

LEMMA TextConv ==
    ASSUME Inv, Conv, InText, NEW last \in pcur .. Len(inbuf), TextUpTo(last)
    PROVE  Conv'
<1> DEFINE by == SubSeq(inbuf, pcur, last)
<1>1. pc = "loop" /\ by \in Seq(Symbols) /\ PutOut("text", last, by) /\ text' = by
  <2>1. pc = "loop" /\ PutOut("text", last, by) /\ text' = by
    BY DEF TextUpTo, PutOut, InText
  <2> QED
    BY <2>1, LoopTypes, RestTypes
<1>2. "text" \in Kinds
  BY DEF Kinds
<1> HIDE DEF by
<1>3. PICK e \in PieceSet : /\ out' = Append(out, e) /\ e.kind = "text" /\ e.by = by
                           /\ e.of = SubSeq(inbuf, pcur, last)
  BY <1>1, <1>2, PutOutPiece
<1> QED
  BY <1>1, <1>3, PieceConv DEF by

\* A tag or script, or a tag without a name.
LEMMA TagConv ==
    ASSUME Inv, Conv, InTag, NEW kind \in {"noname", "tag", "script"},
           NEW last \in TagEnd .. Len(inbuf), NEW by \in Seq(Symbols), PutOut(kind, last, by),
           text' = text, IF kind = "noname" THEN by = text /\ text # <<>>
                                            ELSE by = SubSeq(inbuf, pcur, last)
    PROVE  Conv'
<1>1. pc = "loop" /\ last \in pcur .. Len(inbuf) /\ kind \in Kinds
  BY InTagBounds, LoopTypes DEF Kinds
<1>2. PICK e \in PieceSet : /\ out' = Append(out, e) /\ e.kind = kind /\ e.by = by
                           /\ e.of = SubSeq(inbuf, pcur, last)
  BY <1>1, PutOutPiece
<1> QED
  BY <1>2, PieceConv

LEMMA ScriptLast ==
    ASSUME Inv, InTag, ScriptEnds # {}
    PROVE  Min(ScriptEnds) \in TagEnd .. Len(inbuf)
<1>1. TagEnd \in Nat /\ Len(inbuf) \in Nat /\ pend = Len(inbuf)
  BY InTagBounds, LoopTypes
<1>2. ScriptEnds \in SUBSET (TagEnd + 2 .. Len(inbuf) - 1)
  BY <1>1 DEF ScriptEnds
<1>3. ScriptEnds \in SUBSET Nat
  BY <1>1, <1>2
<1>4. Min(ScriptEnds) \in ScriptEnds
  BY <1>3, LeastOfSome
<1>5. Min(ScriptEnds) \in TagEnd + 2 .. Len(inbuf) - 1
  BY <1>2, <1>4
<1> QED
  BY <1>1, <1>5

LEMMA StepConv == Inv /\ Conv /\ [Next]_vars => Conv'
<1> SUFFICES ASSUME Inv, Conv, [Next]_vars PROVE Conv'
  OBVIOUS
<1>1. CASE \E n \in 1 .. Len(doc) : Call(n)
  BY <1>1, ConvSame DEF Call
<1>2. CASE Done \/ KeepLast \/ KeepTag
  BY <1>2, ConvSame DEF Done, KeepLast, KeepTag, Return
<1>3. CASE TextBeforeTag
  <2>1. InText /\ TextUpTo(TextStop - 1)
    BY <1>3 DEF TextBeforeTag
  <2>2. TextStop - 1 \in pcur .. Len(inbuf)
    BY <2>1, InTextBounds, LoopTypes
  <2> QED
    BY <2>1, <2>2, TextConv
<1>4. CASE TextAtEnd
  <2>1. InText /\ (TextUpTo(pend - 1) \/ TextUpTo(pend))
    BY <1>4 DEF TextAtEnd
  <2>2. pend - 1 \in pcur .. Len(inbuf) /\ pend \in pcur .. Len(inbuf)
    BY <2>1, InTextBounds, LoopTypes
  <2> QED
    BY <2>1, <2>2, TextConv
<1>5. CASE TagWithoutName
  <2>1. /\ InTag /\ TagEnd <= pend /\ text # <<>> /\ text' = text
        /\ PutOut("noname", TagEnd, text)
    BY <1>5 DEF TagWithoutName, Goto
  <2>2. TagEnd \in TagEnd .. Len(inbuf) /\ text \in Seq(Symbols)
    BY <2>1, InTagBounds, LoopTypes DEF Inv, Types
  <2> QED
    BY <2>1, <2>2, TagConv
<1>6. CASE TagWithoutText
  BY <1>6, ConvSame DEF TagWithoutText
<1>7. CASE Tag
  <2> DEFINE by == SubSeq(inbuf, pcur, TagEnd)
  <2>1. InTag /\ TagEnd <= pend /\ text' = text /\ PutOut("tag", TagEnd, by)
    BY <1>7 DEF Tag, Goto
  <2>2. TagEnd \in TagEnd .. Len(inbuf) /\ by \in Seq(Symbols)
    BY <2>1, InTagBounds, LoopTypes, RestTypes
  <2> QED
    BY <2>1, <2>2, TagConv
<1>8. CASE Script
  <2> DEFINE last == Min(ScriptEnds)
             by == SubSeq(inbuf, pcur, last)
  <2>1. InTag /\ ScriptEnds # {} /\ text' = text /\ PutOut("script", last, by)
    BY <1>8 DEF Script, Goto
  <2>2. last \in TagEnd .. Len(inbuf)
    BY <2>1, ScriptLast
  <2>3. by \in Seq(Symbols)
    BY <2>1, <2>2, InTagBounds, LoopTypes, RestTypes
  <2> HIDE DEF last
  <2> QED
    BY <2>1, <2>2, <2>3, TagConv
<1>9. CASE UNCHANGED vars
  BY <1>9, ConvSame DEF vars
<1> QED
  BY <1>1, <1>2, <1>3, <1>4, <1>5, <1>6, <1>7, <1>8, <1>9 DEF Next, ParseHtml_html

\* Wherever the calls cut the page - in a tag, in a script, in a character,
\* behind a "<" - ParseHtml_html puts every symbol of it into one piece or keeps
\* it, and converts each piece as it stands; for a tag without a name it
\* converts the text before it once more, and never text of an earlier call.
THEOREM PageIsKept == Spec => []NothingLost
<1>1. Init => Conv
  BY DEF Init, Conv, PiecesConverted
<1>2. Inv /\ Conv => NothingLost
  BY DEF Inv, Conv, NothingLost
<1> QED
  BY <1>1, <1>2, StepConv, Invariant, PTL DEF Spec

-----------------------------------------------------------------------------
(* The page looked at whole.  Second and TagsFrom are recursions; what they *)
(* are follows place by place, as for the scans.                            *)

IsSecond(f, d) == f = [p \in 1 .. Len(d) |-> p > 1 /\ d[p - 1] = "hi" /\ ~f[p - 1]]

LEMMA SecondExists ==
    ASSUME NEW d \in Seq(Symbols)
    PROVE  \E f : IsSecond(f, d)
<1> DEFINE n == Len(d)
           halt == {m \in 1 .. n : m = n \/ d[n - m] # "hi"}
           base == [m \in 1 .. n |-> 0]
           next == [m \in 1 .. n |-> m + 1]
           G == [mv \in (1 .. n) \X {0, 1} |-> 1 - mv[2]]
<1>1. 1 \in Int /\ n \in Int
  OBVIOUS
<1>2. \A m \in 1 .. n : m \in halt => base[m] \in {0, 1}
  OBVIOUS
<1>3. \A m \in 1 .. n : m \notin halt => next[m] \in m + 1 .. n
  OBVIOUS
<1>4. \A m \in 1 .. n, v \in {0, 1} : G[<<m, v>>] \in {0, 1}
  OBVIOUS
<1>5. \A m \in 1 .. n, v \in {0, 1} : G[<<m, v>>] = 1 - v
  OBVIOUS
<1>6. \A m \in 1 .. n : base[m] = 0 /\ next[m] = m + 1
  OBVIOUS
<1> HIDE DEF halt, base, next, G, n
<1>7. PICK h \in [1 .. n -> {0, 1}] : Climbs(h, 1, n, halt, base, next, G)
  BY <1>1, <1>2, <1>3, <1>4, ClimbExists
<1>8. ASSUME NEW m \in 1 .. n
      PROVE  h[m] = 1 <=> m \notin halt /\ h[m + 1] = 0
  <2>1. h[m] = IF m \in halt THEN 0 ELSE G[<<m, h[m + 1]>>]
    BY <1>6, <1>7 DEF Climbs
  <2>2. m \notin halt => h[m + 1] \in {0, 1}
    <3>1. m \notin halt => m # n
      BY DEF halt
    <3>2. m \notin halt => m + 1 \in 1 .. n
      BY <1>1, <3>1
    <3> QED
      BY <1>7, <3>2
  <2>3. m \notin halt => h[m] = 1 - h[m + 1]
    BY <2>1, <2>2, <1>5
  <2> QED
    BY <2>1, <2>2, <2>3
<1> DEFINE f == [p \in 1 .. n |-> h[n + 1 - p] = 1]
<1>9. ASSUME NEW p \in 1 .. n
      PROVE  f[p] <=> p > 1 /\ d[p - 1] = "hi" /\ ~f[p - 1]
  <2> DEFINE m == n + 1 - p
  <2>1. m \in 1 .. n /\ n - m = p - 1 /\ (m = n <=> p = 1) /\ n \in Nat
    BY DEF n
  <2>2. f[p] <=> h[m] = 1
    BY <2>1
  <2>3. p > 1 => (f[p - 1] <=> h[m + 1] = 1)
    <3>1. p > 1 => p - 1 \in 1 .. n /\ n + 1 - (p - 1) = m + 1
      BY <2>1
    <3> QED
      BY <3>1
  <2>4. p > 1 => h[m + 1] \in {0, 1}
    <3>1. p > 1 => m + 1 \in 1 .. n
      BY <2>1
    <3> QED
      BY <1>7, <3>1
  <2>5. m \notin halt <=> p > 1 /\ d[p - 1] = "hi"
    BY <2>1 DEF halt
  <2>6. h[m] = 1 <=> m \notin halt /\ h[m + 1] = 0
    BY <1>8, <2>1
  <2> HIDE DEF f, m
  <2> QED
    BY <2>2, <2>3, <2>4, <2>5, <2>6
<1>10. f = [p \in 1 .. n |-> p > 1 /\ d[p - 1] = "hi" /\ ~f[p - 1]]
  <2> DEFINE g == [p \in 1 .. n |-> p > 1 /\ d[p - 1] = "hi" /\ ~f[p - 1]]
  <2>1. ASSUME NEW p \in 1 .. n PROVE f[p] = g[p]
    <3>1. g[p] = (p > 1 /\ d[p - 1] = "hi" /\ ~f[p - 1])
      OBVIOUS
    <3>2. f[p] \in BOOLEAN /\ g[p] \in BOOLEAN
      OBVIOUS
    <3> HIDE DEF f, g
    <3> QED
      BY <1>9, <3>1, <3>2
  <2>2. f = [p \in 1 .. n |-> f[p]] /\ g = [p \in 1 .. n |-> g[p]]
    OBVIOUS
  <2> HIDE DEF f, g
  <2>3. f = g
    BY <2>1, <2>2
  <2> QED
    BY <2>3 DEF g
<1> HIDE DEF f
<1> QED
  BY <1>10 DEF IsSecond, n

\* A second byte is what follows a byte with the top bit set that is not one.
LEMMA SecondStep ==
    ASSUME NEW d \in Seq(Symbols)
    PROVE  /\ Second(d) \subseteq 1 .. Len(d) /\ 1 \notin Second(d)
           /\ \A p \in 1 .. Len(d) - 1 : p + 1 \in Second(d) <=> d[p] = "hi" /\ p \notin Second(d)
<1> DEFINE f == CHOOSE f : IsSecond(f, d)
<1>1. IsSecond(f, d)
  BY SecondExists
<1>2. Second(d) = {p \in 1 .. Len(d) : f[p]}
  BY DEF Second, IsSecond
<1> HIDE DEF f
<1>3. \A p \in 1 .. Len(d) : f[p] <=> p > 1 /\ d[p - 1] = "hi" /\ ~f[p - 1]
  BY <1>1 DEF IsSecond
<1>4. 1 \notin Second(d)
  <2>1. 1 \in 1 .. Len(d) => ~f[1]
    BY <1>3
  <2> QED
    BY <1>2, <2>1
<1>5. ASSUME NEW p \in 1 .. Len(d) - 1
      PROVE  p + 1 \in Second(d) <=> d[p] = "hi" /\ p \notin Second(d)
  <2>1. p + 1 \in 1 .. Len(d) /\ p \in 1 .. Len(d) /\ p + 1 > 1 /\ (p + 1) - 1 = p
    OBVIOUS
  <2>2. f[p + 1] <=> d[p] = "hi" /\ ~f[p]
    BY <1>3, <2>1
  <2> QED
    BY <1>2, <2>1, <2>2
<1> QED
  BY <1>2, <1>4, <1>5

LEMMA Characters ==
    ASSUME NEW d \in Seq(Symbols), NEW p \in 1 .. Len(d), p \notin Second(d)
    PROVE  /\ d[p] # "hi" => p + 1 \notin Second(d)
           /\ d[p] = "hi" => p + 2 \notin Second(d) /\ (p < Len(d) => p + 1 \in Second(d))
<1>1. p + 1 \in Second(d) => p \in 1 .. Len(d) - 1
  BY SecondStep
<1>2. p + 2 \in Second(d) => p \in 1 .. Len(d) - 1 /\ p + 1 \in 1 .. Len(d) - 1
  BY SecondStep
<1>3. p < Len(d) => (p + 1 \in Second(d) <=> d[p] = "hi")
  BY SecondStep
<1>4. p + 1 < Len(d) => ((p + 1) + 1 \in Second(d) <=> d[p + 1] = "hi" /\ p + 1 \notin Second(d))
  <2>1. p + 1 < Len(d) => p + 1 \in 1 .. Len(d) - 1
    OBVIOUS
  <2> QED
    BY <2>1, SecondStep
<1>5. (p + 1) + 1 = p + 2
  OBVIOUS
<1> QED
  BY <1>1, <1>2, <1>3, <1>4, <1>5

\* The end of a tag or script is behind its beginning; it is the page's end if
\* there is none on it.
LEMMA LastBounds ==
    ASSUME NEW d \in Seq(Symbols), NEW html, NEW p \in 1 .. Len(d)
    PROVE  /\ Ends(d, p) \subseteq p + 1 .. Len(d)
           /\ LastOf(d, html, p) \in p + 1 .. Len(d) + 1
<1> DEFINE T == {Len(d) + 1} \cup IF Ends(d, p) # {} /\ BeginsScript(d, html, p)
                                   THEN Closes(d, p) ELSE Ends(d, p)
<1>1. Ends(d, p) \subseteq p + 1 .. Len(d)
  BY DEF Ends
<1>2. Ends(d, p) # {} => Closes(d, p) \subseteq p + 1 .. Len(d)
  <2>1. Ends(d, p) \in SUBSET Nat
    BY <1>1
  <2>2. ASSUME Ends(d, p) # {}
        PROVE  Min(Ends(d, p)) \in p + 1 .. Len(d)
    <3>1. Min(Ends(d, p)) \in Ends(d, p)
      BY <2>1, <2>2, LeastOfSome
    <3> QED
      BY <1>1, <3>1
  <2>3. ASSUME NEW e, Ends(d, p) # {}, e \in Closes(d, p)
        PROVE  e \in p + 1 .. Len(d)
    <3> DEFINE m == Min(Ends(d, p))
    <3>1. m \in p + 1 .. Len(d)
      BY <2>2, <2>3
    <3>2. e \in m + 3 .. Len(d)
      BY <2>3 DEF Closes
    <3> HIDE DEF m
    <3> QED
      BY <3>1, <3>2
  <2> QED
    BY <2>3
<1>3. T \subseteq p + 1 .. Len(d) + 1 /\ T # {}
  <2>1. p + 1 .. Len(d) \subseteq p + 1 .. Len(d) + 1 /\ Len(d) + 1 \in p + 1 .. Len(d) + 1
    OBVIOUS
  <2> QED
    BY <1>1, <1>2, <2>1
<1>4. Min(T) \in T
  <2>1. T \in SUBSET Nat
    BY <1>3
  <2> HIDE DEF T
  <2> QED
    BY <1>3, <2>1, LeastOfSome
<1>5. LastOf(d, html, p) = Min(T)
  BY DEF LastOf
<1> HIDE DEF T
<1> QED
  BY <1>1, <1>3, <1>4, <1>5

IsTagsFrom(f, d, html) ==
    f = [p \in 1 .. Len(d) + 2 |->
            IF p > Len(d) THEN {}
            ELSE IF Opens(d, p)
                 THEN {<<p, LastOf(d, html, p)>>} \cup f[LastOf(d, html, p) + 1]
                 ELSE f[p + 1]]

LEMMA TagsFromExists ==
    ASSUME NEW d \in Seq(Symbols), NEW html
    PROVE  \E f : IsTagsFrom(f, d, html)
<1> DEFINE hi == Len(d) + 2
           V == SUBSET (Int \X Int)
           After(p) == IF Opens(d, p) THEN LastOf(d, html, p) + 1 ELSE p + 1
           Here(p) == IF Opens(d, p) THEN {<<p, LastOf(d, html, p)>>} ELSE {}
           halt == {p \in 1 .. hi : p > Len(d)}
           base == [p \in 1 .. hi |-> {}]
           next == [p \in 1 .. hi |-> After(p)]
           G == [pv \in (1 .. hi) \X V |-> IF pv[1] \in halt THEN {} ELSE Here(pv[1]) \cup pv[2]]
<1>1. 1 \in Int /\ hi \in Int
  OBVIOUS
<1>2. \A p \in 1 .. hi : p \notin halt => p \in 1 .. Len(d)
  OBVIOUS
<1>3. \A p \in 1 .. Len(d) : After(p) \in p + 1 .. hi
  <2>1. ASSUME NEW p \in 1 .. Len(d) PROVE After(p) \in p + 1 .. hi
    <3>1. LastOf(d, html, p) \in p + 1 .. Len(d) + 1
      BY LastBounds
    <3> QED
      BY <3>1
  <2> QED
    BY <2>1
<1>4. \A p \in 1 .. Len(d) : Here(p) \in V
  <2>1. ASSUME NEW p \in 1 .. Len(d) PROVE Here(p) \in V
    <3>1. LastOf(d, html, p) \in p + 1 .. Len(d) + 1
      BY LastBounds
    <3>2. <<p, LastOf(d, html, p)>> \in Int \X Int
      BY <3>1
    <3> QED
      BY <3>2
  <2> QED
    BY <2>1
<1>5. \A p \in 1 .. hi : base[p] = {} /\ next[p] = After(p)
  OBVIOUS
<1>6. \A p \in 1 .. hi, v \in V : G[<<p, v>>] = IF p \in halt THEN {} ELSE Here(p) \cup v
  OBVIOUS
<1>7. {} \in V /\ \A v, w \in V : v \cup w \in V
  OBVIOUS
<1> HIDE DEF After, Here, base, next, G, V
<1>8. PICK f \in [1 .. hi -> V] : Climbs(f, 1, hi, halt, base, next, G)
  <2>1. \A p \in 1 .. hi : p \in halt => base[p] \in V
    BY <1>5, <1>7
  <2>2. \A p \in 1 .. hi : p \notin halt => next[p] \in p + 1 .. hi
    BY <1>2, <1>3, <1>5
  <2>3. ASSUME NEW p \in 1 .. hi, NEW v \in V PROVE G[<<p, v>>] \in V
    <3>1. G[<<p, v>>] = IF p \in halt THEN {} ELSE Here(p) \cup v
      BY <1>6
    <3>2. p \notin halt => Here(p) \in V
      BY <1>2, <1>4
    <3> HIDE DEF halt, hi
    <3> QED
      BY <1>7, <3>1, <3>2
  <2> HIDE DEF hi, halt
  <2> QED
    BY <1>1, <2>1, <2>2, <2>3, ClimbExists
<1>9. ASSUME NEW p \in 1 .. hi
      PROVE  f[p] = IF p > Len(d) THEN {}
                    ELSE IF Opens(d, p)
                         THEN {<<p, LastOf(d, html, p)>>} \cup f[LastOf(d, html, p) + 1]
                         ELSE f[p + 1]
  <2>1. f[p] = IF p \in halt THEN base[p] ELSE G[<<p, f[next[p]]>>]
    BY <1>8 DEF Climbs
  <2>2. p \in halt <=> p > Len(d)
    OBVIOUS
  <2>3. p \notin halt => f[After(p)] \in V
    <3>1. p \notin halt => After(p) \in 1 .. hi
      BY <1>2, <1>3
    <3> QED
      BY <1>8, <3>1
  <2>4. f[p] = IF p \in halt THEN {} ELSE Here(p) \cup f[After(p)]
    <3> HIDE DEF halt, hi
    <3> QED
      BY <1>5, <1>6, <2>1, <2>3
  <2> QED
    BY <2>2, <2>4 DEF Here, After
<1>10. f = [p \in 1 .. hi |-> f[p]]
  BY <1>8
<1>11. IsTagsFrom(f, d, html)
  BY <1>9, <1>10 DEF IsTagsFrom
<1> QED
  BY <1>11

LEMMA TagsFromStep ==
    ASSUME NEW d \in Seq(Symbols), NEW html
    PROVE  \A p \in 1 .. Len(d) + 2 :
              TagsFrom(d, html)[p] =
                 IF p > Len(d) THEN {}
                 ELSE IF Opens(d, p)
                      THEN {<<p, LastOf(d, html, p)>>} \cup TagsFrom(d, html)[LastOf(d, html, p) + 1]
                      ELSE TagsFrom(d, html)[p + 1]
<1> DEFINE f == CHOOSE f : IsTagsFrom(f, d, html)
<1>1. IsTagsFrom(f, d, html)
  BY TagsFromExists
<1>2. TagsFrom(d, html) = f
  BY DEF TagsFrom, IsTagsFrom
<1> HIDE DEF f
<1> QED
  BY <1>1, <1>2 DEF IsTagsFrom

\* The tags from a place on end behind it.
LEMMA TagsBehind ==
    ASSUME NEW d \in Seq(Symbols), NEW html
    PROVE  \A p \in 1 .. Len(d) + 2 : \A t \in TagsFrom(d, html)[p] : t[2] \in Nat /\ t[2] >= p
<1> DEFINE F == TagsFrom(d, html)
           hi == Len(d) + 2
           T == {p \in 1 .. hi : \A t \in F[p] : t[2] \in Nat /\ t[2] >= p}
<1>0. \A p \in 1 .. hi :
         F[p] = IF p > Len(d) THEN {}
                ELSE IF Opens(d, p) THEN {<<p, LastOf(d, html, p)>>} \cup F[LastOf(d, html, p) + 1]
                ELSE F[p + 1]
  BY TagsFromStep
<1> HIDE DEF F
<1>1. ASSUME NEW p \in 1 .. hi, \A q \in p + 1 .. hi : q \in T
      PROVE  p \in T
  <2>1. CASE p > Len(d)
    <3>1. F[p] = {}
      BY <1>0, <2>1
    <3> QED
      BY <3>1
  <2>2. CASE p <= Len(d) /\ Opens(d, p)
    <3> DEFINE l == LastOf(d, html, p)
    <3>1. l \in p + 1 .. Len(d) + 1 /\ l + 1 \in p + 1 .. hi
      BY <2>2, LastBounds
    <3>2. F[p] = {<<p, l>>} \cup F[l + 1]
      <4>1. ~(p > Len(d)) /\ Opens(d, p)
        BY <2>2
      <4> HIDE DEF T, hi
      <4> QED
        BY <1>0, <4>1
    <3> HIDE DEF l
    <3>3. l + 1 \in T
      BY <1>1, <3>1
    <3>4. \A t \in F[l + 1] : t[2] \in Nat /\ t[2] >= l + 1
      BY <3>3
    <3>5. ASSUME NEW t \in F[p] PROVE t[2] \in Nat /\ t[2] >= p
      <4>1. CASE t = <<p, l>>
        BY <3>1, <4>1
      <4>2. CASE t \in F[l + 1]
        BY <3>1, <3>4, <4>2
      <4> QED
        BY <3>2, <4>1, <4>2
    <3> QED
      BY <3>5
  <2>3. CASE p <= Len(d) /\ ~Opens(d, p)
    <3>1. F[p] = F[p + 1]
      <4>1. ~(p > Len(d)) /\ ~Opens(d, p)
        BY <2>3
      <4> HIDE DEF T, hi
      <4> QED
        BY <1>0, <4>1
    <3>2. p + 1 \in T
      BY <1>1, <2>3
    <3>3. \A t \in F[p + 1] : t[2] \in Nat /\ t[2] >= p + 1
      BY <3>2
    <3>4. \A t \in F[p] : t[2] \in Nat /\ t[2] >= p
      BY <3>1, <3>3
    <3> QED
      BY <3>4
  <2> QED
    BY <2>1, <2>2, <2>3
<1>2. 1 .. hi \subseteq T
  <2>1. 1 \in Int /\ hi \in Int
    OBVIOUS
  <2> HIDE DEF T, hi
  <2> QED
    BY <1>1, <2>1, FromAbove
<1> QED
  BY <1>2 DEF F

\* Where no tag begins there is none to be found.
LEMMA NoTagBetween ==
    ASSUME NEW d \in Seq(Symbols), NEW html, NEW a \in 1 .. Len(d) + 1, NEW b \in a .. Len(d) + 1,
           \A q \in a .. b - 1 : ~Opens(d, q)
    PROVE  TagsFrom(d, html)[a] = TagsFrom(d, html)[b]
<1> DEFINE F == TagsFrom(d, html)
           T == {p \in a .. b : F[p] = F[b]}
<1> HIDE DEF F
<1>1. ASSUME NEW p \in a .. b, \A q \in p + 1 .. b : q \in T
      PROVE  p \in T
  <2>1. CASE p = b
    BY <2>1
  <2>2. CASE p # b
    <3>1. p \in a .. b - 1 /\ p + 1 \in p + 1 .. b /\ p \in 1 .. Len(d) + 2 /\ ~(p > Len(d))
      BY <2>2
    <3>2. F[p] = F[p + 1]
      BY <3>1, TagsFromStep DEF F
    <3>3. F[p + 1] = F[b]
      BY <1>1, <3>1
    <3> QED
      BY <3>2, <3>3
  <2> QED
    BY <2>1, <2>2
<1>2. a .. b \subseteq T
  <2>1. a \in Int /\ b \in Int
    OBVIOUS
  <2> HIDE DEF T
  <2> QED
    BY <1>1, <2>1, FromAbove
<1> QED
  BY <1>2 DEF F

-----------------------------------------------------------------------------
(* The scans on the page: b is the part of the page d that ends at its n-th *)
(* symbol, so what is at p in b is at n - Len(b) + p on the page.           *)

OnPage(b, d, n) == b \in Seq(Symbols) /\ d \in Seq(Symbols) /\ n \in 0 .. Len(d) /\ EndsAt(b, d, n)

\* The scan of a text passes over characters, and over no tag.
LEMMA TextScanPasses ==
    ASSUME NEW b, NEW d, NEW n, OnPage(b, d, n), NEW lo \in 1 .. Len(b) + 1
    PROVE  \A p \in lo .. Len(b) + 1 :
              n - Len(b) + p \notin Second(d) =>
                 /\ n - Len(b) + TextScan(b, lo)[p] \notin Second(d)
                 /\ \A q \in p .. TextScan(b, lo)[p] - 1 : ~Opens(d, n - Len(b) + q)
<1> DEFINE f == TextScan(b, lo)
           g == n - Len(b)
           hi == Len(b) + 1
           T == {p \in lo .. hi : g + p \notin Second(d) =>
                    g + f[p] \notin Second(d) /\ \A q \in p .. f[p] - 1 : ~Opens(d, g + q)}
<1> HIDE DEF f, g
<1>0. /\ b \in Seq(Symbols) /\ d \in Seq(Symbols) /\ Len(b) \in Nat /\ Len(d) \in Nat
      /\ g \in Nat /\ g + Len(b) <= Len(d) /\ \A i \in 1 .. Len(b) : b[i] = d[g + i]
  BY DEF OnPage, EndsAt, g
<1>1. \A p \in lo .. hi : f[p] = IF p >= Len(b) \/ Open(b, p) THEN p ELSE f[Passed(b, p)]
  BY <1>0, TextScanStep DEF f
<1>2. \A p \in lo .. hi : f[p] \in p .. hi
  BY <1>0, TextScanBounds DEF f
<1>3. ASSUME NEW p \in lo .. hi, \A q \in p + 1 .. hi : q \in T
      PROVE  p \in T
  <2>1. CASE p >= Len(b) \/ Open(b, p)
    BY <1>0, <1>1, <2>1
  <2>2. CASE ~(p >= Len(b) \/ Open(b, p))
    <3>1. /\ p \in 1 .. Len(b) - 1 /\ f[p] = f[Passed(b, p)]
          /\ b[p] = d[g + p] /\ b[p + 1] = d[g + (p + 1)] /\ g + p \in 1 .. Len(d) - 1
      BY <1>0, <1>1, <2>2
    <3>2. ~Opens(d, g + p)
      <4>1. g + (p + 1) = (g + p) + 1
        BY <1>0
      <4> QED
        BY <2>2, <3>1, <4>1 DEF Open, Opens
    <3>3. SUFFICES ASSUME g + p \notin Second(d)
                   PROVE  /\ g + f[p] \notin Second(d)
                          /\ \A q \in p .. f[p] - 1 : ~Opens(d, g + q)
      OBVIOUS
    <3>4. CASE b[p] = "hi"
      <4>1. Passed(b, p) = p + 2 /\ p + 2 \in p + 1 .. hi
        BY <3>1, <3>4 DEF Passed
      <4>2. (g + p) + 1 \in Second(d) /\ (g + p) + 2 \notin Second(d)
        <5> DEFINE k == g + p
        <5>1. k \in 1 .. Len(d) /\ k < Len(d) /\ d[k] = "hi" /\ k \notin Second(d)
          BY <1>0, <3>1, <3>3, <3>4
        <5> HIDE DEF k, T
        <5>2. k + 1 \in Second(d) /\ k + 2 \notin Second(d)
          BY <1>0, <5>1, Characters
        <5> QED
          BY <5>2 DEF k
      <4>3. g + (p + 1) = (g + p) + 1 /\ g + (p + 2) = (g + p) + 2
        BY <1>0
      <4>4. ~Opens(d, g + (p + 1))
        BY <4>2, <4>3 DEF Opens
      <4>5. p + 2 \in T
        BY <1>3, <4>1
      <4>6. /\ g + f[p + 2] \notin Second(d)
            /\ \A q \in p + 2 .. f[p + 2] - 1 : ~Opens(d, g + q)
        BY <4>2, <4>3, <4>5
      <4>7. ASSUME NEW q \in p .. f[p] - 1 PROVE ~Opens(d, g + q)
        <5>1. q = p \/ q = p + 1 \/ q \in p + 2 .. f[p + 2] - 1
          BY <3>1, <4>1
        <5> QED
          BY <3>2, <4>4, <4>6, <5>1
      <4> QED
        BY <3>1, <4>1, <4>6, <4>7
    <3>5. CASE b[p] # "hi"
      <4>1. Passed(b, p) = p + 1 /\ p + 1 \in p + 1 .. hi
        BY <3>1, <3>5 DEF Passed
      <4>2. (g + p) + 1 \notin Second(d)
        BY <1>0, <3>1, <3>3, <3>5, Characters
      <4>3. g + (p + 1) = (g + p) + 1
        BY <1>0
      <4>4. p + 1 \in T
        BY <1>3, <4>1
      <4>5. /\ g + f[p + 1] \notin Second(d)
            /\ \A q \in p + 1 .. f[p + 1] - 1 : ~Opens(d, g + q)
        BY <4>2, <4>3, <4>4
      <4>6. ASSUME NEW q \in p .. f[p] - 1 PROVE ~Opens(d, g + q)
        <5>1. q = p \/ q \in p + 1 .. f[p + 1] - 1
          BY <3>1, <4>1
        <5> QED
          BY <3>2, <4>5, <5>1
      <4> QED
        BY <3>1, <4>1, <4>5, <4>6
    <3> QED
      BY <3>4, <3>5
  <2> QED
    BY <2>1, <2>2
<1>4. lo .. hi \subseteq T
  <2>1. lo \in Int /\ hi \in Int
    BY <1>0
  <2> HIDE DEF T, hi
  <2> QED
    BY <1>3, <2>1, FromAbove
<1> QED
  BY <1>4 DEF f, g

\* The scan for ">" misses none, as in a page of two-byte characters no second
\* byte is one.
LEMMA TagScanPasses ==
    ASSUME NEW b, NEW d, NEW n, OnPage(b, d, n), TwoByte(d), NEW lo \in 1 .. Len(b) + 1
    PROVE  \A p \in lo .. Len(b) + 2 :
              n - Len(b) + p \notin Second(d) =>
                 \A q \in p .. TagScan(b, lo)[p] - 1 : q <= Len(b) => b[q] # ">"
<1> DEFINE f == TagScan(b, lo)
           g == n - Len(b)
           hi == Len(b) + 2
           T == {p \in lo .. hi : g + p \notin Second(d) =>
                    \A q \in p .. f[p] - 1 : q <= Len(b) => b[q] # ">"}
<1> HIDE DEF f, g
<1>0. /\ b \in Seq(Symbols) /\ d \in Seq(Symbols) /\ Len(b) \in Nat /\ Len(d) \in Nat
      /\ g \in Nat /\ g + Len(b) <= Len(d) /\ \A i \in 1 .. Len(b) : b[i] = d[g + i]
  BY DEF OnPage, EndsAt, g
<1>1. \A p \in lo .. hi : f[p] = IF p > Len(b) \/ b[p] = ">" THEN p ELSE f[Passed(b, p)]
  BY <1>0, TagScanStep DEF f
<1>2. \A p \in lo .. hi : f[p] \in p .. hi
  BY <1>0, TagScanBounds DEF f
<1>3. ASSUME NEW p \in lo .. hi, \A q \in p + 1 .. hi : q \in T
      PROVE  p \in T
  <2>1. CASE p > Len(b) \/ b[p] = ">"
    BY <1>0, <1>1, <2>1
  <2>2. CASE ~(p > Len(b) \/ b[p] = ">")
    <3> DEFINE k == g + p
    <3>1. p \in 1 .. Len(b) /\ f[p] = f[Passed(b, p)] /\ b[p] = d[k] /\ k \in 1 .. Len(d)
      BY <1>0, <1>1, <2>2
    <3>2. SUFFICES ASSUME k \notin Second(d)
                   PROVE  \A q \in p .. f[p] - 1 : q <= Len(b) => b[q] # ">"
      OBVIOUS
    <3>3. CASE b[p] = "hi"
      <4>1. Passed(b, p) = p + 2 /\ p + 2 \in p + 1 .. hi
        BY <3>1, <3>3 DEF Passed
      <4>2. k + 2 \notin Second(d) /\ (k < Len(d) => k + 1 \in Second(d))
        <5>1. d[k] = "hi"
          BY <3>1, <3>3
        <5> HIDE DEF k, T
        <5> QED
          BY <1>0, <3>1, <3>2, <5>1, Characters
      <4>3. g + (p + 2) = k + 2 /\ g + (p + 1) = k + 1
        BY <1>0
      <4>4. p + 1 <= Len(b) => b[p + 1] # ">"
        <5>1. p + 1 <= Len(b) => b[p + 1] = d[k + 1] /\ k < Len(d)
          BY <1>0, <4>3
        <5>2. k + 1 \in Second(d) => d[k + 1] \in {"hi", "a"}
          BY DEF TwoByte
        <5> HIDE DEF k, T
        <5> QED
          BY <4>2, <5>1, <5>2
      <4>5. p + 2 \in T
        BY <1>3, <4>1
      <4>6. \A q \in p + 2 .. f[p + 2] - 1 : q <= Len(b) => b[q] # ">"
        BY <4>2, <4>3, <4>5
      <4>7. ASSUME NEW q \in p .. f[p] - 1, q <= Len(b) PROVE b[q] # ">"
        <5>1. q = p \/ q = p + 1 \/ q \in p + 2 .. f[p + 2] - 1
          BY <3>1, <4>1
        <5> QED
          BY <2>2, <4>4, <4>6, <4>7, <5>1
      <4> QED
        BY <4>7
    <3>4. CASE b[p] # "hi"
      <4>1. Passed(b, p) = p + 1 /\ p + 1 \in p + 1 .. hi
        BY <3>1, <3>4 DEF Passed
      <4>2. k + 1 \notin Second(d)
        <5>1. d[k] # "hi"
          BY <3>1, <3>4
        <5> HIDE DEF k, T
        <5> QED
          BY <1>0, <3>1, <3>2, <5>1, Characters
      <4>3. g + (p + 1) = k + 1
        BY <1>0
      <4>4. p + 1 \in T
        BY <1>3, <4>1
      <4>5. \A q \in p + 1 .. f[p + 1] - 1 : q <= Len(b) => b[q] # ">"
        BY <4>2, <4>3, <4>4
      <4>6. ASSUME NEW q \in p .. f[p] - 1, q <= Len(b) PROVE b[q] # ">"
        <5>1. q = p \/ q \in p + 1 .. f[p + 1] - 1
          BY <3>1, <4>1
        <5> QED
          BY <2>2, <4>5, <4>6, <5>1
      <4> QED
        BY <4>6
    <3> QED
      BY <3>3, <3>4
  <2> QED
    BY <2>1, <2>2
<1>4. lo .. hi \subseteq T
  <2>1. lo \in Int /\ hi \in Int
    BY <1>0
  <2> HIDE DEF T, hi
  <2> QED
    BY <1>3, <2>1, FromAbove
<1> QED
  BY <1>4 DEF f, g

\* What the scan finds is the end of the tag on the page; where it finds none
\* there is none up to the end of the buffer.
EndFound(b, d, n, lo, stop) ==
    /\ stop <= Len(b) => /\ Ends(d, n - Len(b) + lo) # {}
                         /\ Min(Ends(d, n - Len(b) + lo)) = n - Len(b) + stop
    /\ stop > Len(b) => \A q \in Ends(d, n - Len(b) + lo) : q > n

LEMMA EndOnPage ==
    ASSUME NEW b, NEW d, NEW n, OnPage(b, d, n), TwoByte(d), NEW lo \in 1 .. Len(b),
           n - Len(b) + lo \notin Second(d), b[lo] = "<"
    PROVE  EndFound(b, d, n, lo, TagScan(b, lo)[lo])
<1> DEFINE g == n - Len(b)
           E == Ends(d, g + lo)
           stop == TagScan(b, lo)[lo]
<1>0. /\ b \in Seq(Symbols) /\ d \in Seq(Symbols) /\ Len(b) \in Nat /\ Len(d) \in Nat /\ n \in Nat
      /\ g \in Nat /\ g + Len(b) = n /\ n <= Len(d) /\ \A i \in 1 .. Len(b) : b[i] = d[g + i]
  BY DEF OnPage, EndsAt
<1>1. stop \in lo .. Len(b) + 2 /\ (stop <= Len(b) => b[stop] = ">")
  <2>1. lo \in lo .. Len(b) + 2 /\ lo \in 1 .. Len(b) + 1
    BY <1>0
  <2> QED
    BY <1>0, <2>1, TagScanBounds
<1> HIDE DEF stop
<1>2. \A q \in lo .. stop - 1 : q <= Len(b) => b[q] # ">"
  <2>1. lo \in lo .. Len(b) + 2 /\ lo \in 1 .. Len(b) + 1
    BY <1>0
  <2> QED
    BY <2>1, TagScanPasses DEF stop
<1>3. stop # lo
  BY <1>1, <1>0
<1>4. ASSUME NEW q \in E
      PROVE  q > n \/ q >= g + stop
  <2>1. q \in g + lo + 1 .. Len(d) /\ d[q] = ">"
    BY DEF Ends
  <2>2. q <= n => q - g \in lo .. Len(b) /\ g + (q - g) = q
    BY <1>0, <2>1
  <2>3. q <= n => b[q - g] = ">"
    BY <1>0, <2>1, <2>2
  <2>4. q <= n => ~(q - g \in lo .. stop - 1)
    BY <1>2, <2>2, <2>3
  <2> QED
    BY <1>0, <1>1, <2>1, <2>2, <2>4
<1>5. ASSUME stop <= Len(b)
      PROVE  g + stop \in E
  <2>1. d[g + stop] = ">" /\ g + stop \in g + lo + 1 .. Len(d)
    BY <1>0, <1>1, <1>3, <1>5
  <2>2. g + stop \notin Second(d)
    <3>1. g + stop \in Second(d) => d[g + stop] \in {"hi", "a"}
      BY DEF TwoByte
    <3> QED
      BY <2>1, <3>1
  <2> QED
    BY <2>1, <2>2 DEF Ends
<1>6. ASSUME stop <= Len(b)
      PROVE  E # {} /\ Min(E) = g + stop
  <2>1. g + stop \in E /\ g + stop <= n /\ g + stop \in Nat
    BY <1>0, <1>1, <1>5, <1>6
  <2>2. E \in SUBSET Nat
    BY <1>0 DEF Ends
  <2>3. Min(E) \in E /\ \A k \in E : Min(E) <= k
    BY <2>1, <2>2, LeastOfSome
  <2>4. Min(E) \in Nat /\ Min(E) <= g + stop
    BY <2>1, <2>2, <2>3
  <2>5. Min(E) > n \/ Min(E) >= g + stop
    BY <1>4, <2>3
  <2> HIDE DEF E, g
  <2> QED
    BY <1>0, <2>1, <2>4, <2>5
<1>7. ASSUME stop > Len(b)
      PROVE  \A q \in E : q > n
  <2>1. ASSUME NEW q \in E PROVE q > n
    <3>1. q \in Nat
      BY <1>0 DEF Ends
    <3> QED
      BY <1>0, <1>1, <1>4, <1>7, <3>1
  <2> QED
    BY <2>1
<1> QED
  BY <1>6, <1>7 DEF EndFound, stop

\* A name begins with the first symbol looked at.
LEMMA TokenHead ==
    ASSUME NEW s \in Seq(Symbols), GetToken(s) # <<>>
    PROVE  s # <<>> /\ Head(GetToken(s)) = s[1]
<1> DEFINE blanks == {i \in DOMAIN s : s[i] = " "}
           name == IF blanks = {} THEN s ELSE SubSeq(s, 1, Min(blanks) - 1)
<1>1. GetToken(s) = name /\ name # <<>>
  BY DEF GetToken
<1>2. CASE blanks = {}
  <2>1. name = s
    BY <1>2
  <2> HIDE DEF name, blanks
  <2> QED
    BY <1>1, <2>1
<1>3. CASE blanks # {}
  <2> DEFINE m == Min(blanks)
  <2>1. m \in 1 .. Len(s)
    <3>1. blanks \in SUBSET (1 .. Len(s)) /\ blanks \in SUBSET Nat
      <4>1. DOMAIN s = 1 .. Len(s) /\ 1 .. Len(s) \subseteq Nat
        OBVIOUS
      <4> QED
        BY <4>1
    <3>2. m \in blanks
      BY <1>3, <3>1, LeastOfSome
    <3> QED
      BY <3>1, <3>2
  <2>2. name = SubSeq(s, 1, m - 1)
    BY <1>3
  <2> HIDE DEF name, blanks, m
  <2>3. m - 1 >= 1
    <3>1. m - 1 < 1 => SubSeq(s, 1, m - 1) = <<>>
      BY <2>1, SubSeqEmpty
    <3> QED
      BY <1>1, <2>1, <2>2, <3>1
  <2>4. 1 \in 1 .. Len(s) /\ m - 1 \in 1 .. Len(s)
    BY <2>1, <2>3
  <2>5. Head(SubSeq(s, 1, m - 1)) = s[1]
    BY <2>4, HeadTailOfSubSeq
  <2>6. s # <<>>
    BY <2>4
  <2> QED
    BY <1>1, <2>2, <2>5, <2>6
<1> QED
  BY <1>2, <1>3

\* Each part of the buffer is a part of the page.
PartsAgree(b, d, n) ==
    \A i \in 1 .. Len(b) + 1, j \in 0 .. Len(b) :
        SubSeq(b, i, j) = SubSeq(d, n - Len(b) + i, n - Len(b) + j)

LEMMA PartOnPage ==
    ASSUME NEW b, NEW d, NEW n, OnPage(b, d, n)
    PROVE  PartsAgree(b, d, n)
<1> SUFFICES ASSUME NEW i \in 1 .. Len(b) + 1, NEW j \in 0 .. Len(b)
             PROVE  SubSeq(b, i, j) = SubSeq(d, n - Len(b) + i, n - Len(b) + j)
  BY DEF PartsAgree
<1> DEFINE g == n - Len(b)
           u == SubSeq(b, i, j)
           v == SubSeq(d, g + i, g + j)
<1>0. /\ b \in Seq(Symbols) /\ d \in Seq(Symbols) /\ Len(b) \in Nat /\ Len(d) \in Nat /\ n \in Nat
      /\ g \in Nat /\ g + Len(b) = n /\ n <= Len(d) /\ \A k \in 1 .. Len(b) : b[k] = d[g + k]
  BY DEF OnPage, EndsAt
<1>1. /\ u \in Seq(Symbols) /\ Len(u) = IF i <= j THEN j - i + 1 ELSE 0
      /\ \A k \in 1 .. j - i + 1 : u[k] = b[i + k - 1]
  <2>1. \A k \in i .. j : b[k] \in Symbols
    BY <1>0
  <2>2. i \in Int /\ j \in Int
    BY <1>0
  <2> QED
    BY <2>1, <2>2, SubSeqProperties
<1>2. /\ v \in Seq(Symbols) /\ Len(v) = IF i <= j THEN j - i + 1 ELSE 0
      /\ \A k \in 1 .. j - i + 1 : v[k] = d[g + i + k - 1]
  <2>1. \A k \in g + i .. g + j : d[k] \in Symbols
    BY <1>0
  <2>2. /\ Len(v) = IF g + i <= g + j THEN (g + j) - (g + i) + 1 ELSE 0
        /\ v \in Seq(Symbols)
        /\ \A k \in 1 .. (g + j) - (g + i) + 1 : v[k] = d[(g + i) + k - 1]
    <3>1. g + i \in Int /\ g + j \in Int
      BY <1>0
    <3> HIDE DEF g
    <3> QED
      BY <2>1, <3>1, SubSeqProperties
  <2>3. (g + j) - (g + i) + 1 = j - i + 1 /\ (g + i <= g + j <=> i <= j)
    BY <1>0
  <2> HIDE DEF g, v
  <2> QED
    BY <2>2, <2>3
<1> HIDE DEF u, v
<1>3. \A k \in 1 .. j - i + 1 : u[k] = v[k]
  <2>1. ASSUME NEW k \in 1 .. j - i + 1 PROVE u[k] = v[k]
    <3>1. i + k - 1 \in 1 .. Len(b) /\ g + (i + k - 1) = g + i + k - 1
      BY <1>0
    <3>2. b[i + k - 1] = d[g + (i + k - 1)]
      BY <1>0, <3>1
    <3> QED
      BY <1>1, <1>2, <3>1, <3>2
  <2> QED
    BY <2>1
<1>4. Len(u) = Len(v) /\ \A k \in 1 .. Len(u) : u[k] = v[k]
  BY <1>1, <1>2, <1>3
<1>5. u = v
  BY <1>1, <1>2, <1>4, SeqEqual
<1> QED
  BY <1>5 DEF u, v

\* Where the next </script> ends, on the page: b is a buffer and e the end of the
\* tag in it.
EndsOfScript(b, e) == {k \in e + 2 .. Len(b) - 1 : SubSeq(b, k - 2, k) = <<"<", "/script", ">">>}

LEMMA ScriptEndsOnPage ==
    ASSUME NEW b, NEW d, NEW n, OnPage(b, d, n), NEW e \in 1 .. Len(b), b[e] = ">",
           NEW p, Min(Ends(d, p)) = n - Len(b) + e
    PROVE  /\ \A k \in EndsOfScript(b, e) : n - Len(b) + k \in Closes(d, p) /\ n - Len(b) + k < n
           /\ \A c \in Closes(d, p) : c < n => c - (n - Len(b)) \in EndsOfScript(b, e)
<1> DEFINE g == n - Len(b)
           C == Closes(d, p)
<1>0. /\ b \in Seq(Symbols) /\ d \in Seq(Symbols) /\ Len(b) \in Nat /\ Len(d) \in Nat /\ n \in Nat
      /\ g \in Nat /\ g + Len(b) = n /\ n <= Len(d) /\ \A k \in 1 .. Len(b) : b[k] = d[g + k]
  BY DEF OnPage, EndsAt
<1>1. C = {c \in (g + e) + 3 .. Len(d) : SubSeq(d, c - 2, c) = <<"<", "/script", ">">>}
  BY DEF Closes
<1> HIDE DEF C
<1>2. ASSUME NEW k \in e + 2 .. Len(b) - 1
      PROVE  SubSeq(b, k - 2, k) = SubSeq(d, (g + k) - 2, g + k)
  <2>1. k - 2 \in 1 .. Len(b) + 1 /\ k \in 0 .. Len(b) /\ g + (k - 2) = (g + k) - 2
    BY <1>0
  <2>2. SubSeq(b, k - 2, k) = SubSeq(d, g + (k - 2), g + k)
    <3> DEFINE i == k - 2
    <3>1. i \in 1 .. Len(b) + 1 /\ k \in 0 .. Len(b)
      BY <2>1
    <3> HIDE DEF i
    <3>2. PartsAgree(b, d, n)
      BY PartOnPage
    <3>3. SubSeq(b, i, k) = SubSeq(d, n - Len(b) + i, n - Len(b) + k)
      BY <3>1, <3>2 DEF PartsAgree
    <3> QED
      BY <3>3 DEF i
  <2> HIDE DEF g
  <2> QED
    BY <2>1, <2>2
<1>3. ASSUME NEW k \in EndsOfScript(b, e)
      PROVE  g + k \in C /\ g + k < n
  <2>1. k \in e + 2 .. Len(b) - 1 /\ SubSeq(b, k - 2, k) = <<"<", "/script", ">">>
    BY DEF EndsOfScript
  <2>2. k # e + 2
    <3>1. SUFFICES ASSUME k = e + 2 PROVE FALSE
      OBVIOUS
    <3>2. k - 2 = e /\ e \in 1 .. Len(b) /\ k \in e .. Len(b)
      BY <1>0, <2>1, <3>1
    <3>3. Head(SubSeq(b, e, k)) = b[e]
      BY <1>0, <3>2, HeadTailOfSubSeq
    <3>4. SubSeq(b, e, k) = <<"<", "/script", ">">>
      BY <2>1, <3>2
    <3>5. Head(<<"<", "/script", ">">>) = "<"
      OBVIOUS
    <3> QED
      BY <3>3, <3>4, <3>5
  <2>3. g + k \in (g + e) + 3 .. Len(d) /\ g + k < n
    BY <1>0, <2>1, <2>2
  <2>4. SubSeq(d, (g + k) - 2, g + k) = <<"<", "/script", ">">>
    BY <1>2, <2>1
  <2> HIDE DEF g
  <2> QED
    BY <1>1, <2>3, <2>4
<1>4. ASSUME NEW c \in C, c < n
      PROVE  c - g \in EndsOfScript(b, e)
  <2>1. c \in (g + e) + 3 .. Len(d) /\ SubSeq(d, c - 2, c) = <<"<", "/script", ">">>
    BY <1>1
  <2>2. c - g \in e + 2 .. Len(b) - 1 /\ g + (c - g) = c
    BY <1>0, <1>4, <2>1
  <2>3. SubSeq(b, (c - g) - 2, c - g) = SubSeq(d, c - 2, c)
    <3> DEFINE k == c - g
    <3>1. k \in e + 2 .. Len(b) - 1 /\ g + k = c
      BY <2>2
    <3> HIDE DEF k, g
    <3>2. SubSeq(b, k - 2, k) = SubSeq(d, c - 2, c)
      BY <1>2, <3>1
    <3> QED
      BY <3>2 DEF k
  <2> HIDE DEF g
  <2> QED
    BY <2>1, <2>2, <2>3 DEF EndsOfScript
<1> QED
  BY <1>3, <1>4 DEF C

LEMMA BufferOnPage ==
    ASSUME Inv, pc = "loop"
    PROVE  OnPage(inbuf, doc, given)
  BY LoopTypes, DocTypes DEF OnPage, Inv, Types

\* What the code takes for a script begins one on the page.
LEMMA ScriptOnPage ==
    ASSUME Inv, InTag, TagEnd <= Len(inbuf),
           NEW p, p = given - Len(inbuf) + pcur,
           Min(Ends(doc, p)) = given - Len(inbuf) + TagEnd
    PROVE  IsScript <=> BeginsScript(doc, treatAsHtml, p)
<1> DEFINE g == given - Len(inbuf)
           stop == TagEnd
           s == SubSeq(inbuf, pcur + 1, stop - 1)
           u == SubSeq(doc, p + 1, Min(Ends(doc, p)) - 1)
<1>1. /\ pc = "loop" /\ pcur < Len(inbuf) /\ stop \in pcur + 1 .. Len(inbuf)
  BY InTagBounds
<1> HIDE DEF stop
<1>2. OnPage(inbuf, doc, given)
  BY <1>1, BufferOnPage
<1>3. /\ inbuf \in Seq(Symbols) /\ Len(inbuf) \in Nat /\ given \in Nat /\ pcur \in 1 .. Len(inbuf)
      /\ g \in Nat /\ \A k \in 1 .. Len(inbuf) : inbuf[k] = doc[g + k]
  BY <1>1, <1>2, LoopTypes DEF OnPage, EndsAt
<1>4. s = u /\ s \in Seq(Symbols)
  <2>1. pcur + 1 \in 1 .. Len(inbuf) + 1 /\ stop - 1 \in 0 .. Len(inbuf)
    BY <1>1, <1>3
  <2>2. s = SubSeq(doc, g + (pcur + 1), g + (stop - 1))
    <3> DEFINE i == pcur + 1
               j == stop - 1
    <3>1. i \in 1 .. Len(inbuf) + 1 /\ j \in 0 .. Len(inbuf)
      BY <2>1
    <3> HIDE DEF i, j
    <3>2. PartsAgree(inbuf, doc, given)
      BY <1>2, PartOnPage
    <3>3. SubSeq(inbuf, i, j) = SubSeq(doc, given - Len(inbuf) + i, given - Len(inbuf) + j)
      BY <3>1, <3>2 DEF PartsAgree
    <3> QED
      BY <3>3 DEF i, j
  <2>3. g + (pcur + 1) = p + 1 /\ g + (stop - 1) = Min(Ends(doc, p)) - 1
    BY <1>1, <1>3 DEF stop
  <2>4. s \in Seq(Symbols)
    BY <1>3, <2>1, RestTypes
  <2> HIDE DEF g
  <2> QED
    BY <2>2, <2>3, <2>4
<1>5. GetToken(s) # <<>> => Head(GetToken(s)) = doc[p + 1]
  <2>1. SUFFICES ASSUME GetToken(s) # <<>> PROVE Head(GetToken(s)) = doc[p + 1]
    OBVIOUS
  <2> HIDE DEF s
  <2>2. s # <<>> /\ Head(GetToken(s)) = s[1]
    BY <1>4, <2>1, TokenHead
  <2>3. stop - 1 >= pcur + 1
    <3>1. stop - 1 < pcur + 1 => SubSeq(inbuf, pcur + 1, stop - 1) = <<>>
      BY <1>1, <1>3, SubSeqEmpty
    <3> QED
      BY <1>1, <1>3, <2>2, <3>1 DEF s
  <2>4. Head(SubSeq(inbuf, pcur + 1, stop - 1)) = inbuf[pcur + 1]
    <3>1. pcur + 1 \in 1 .. Len(inbuf) /\ stop - 1 \in pcur + 1 .. Len(inbuf)
      BY <1>1, <1>3, <2>3
    <3> QED
      BY <1>3, <3>1, HeadTailOfSubSeq
  <2>5. Head(s) = s[1]
    BY <1>4, <2>2
  <2>6. inbuf[pcur + 1] = doc[g + (pcur + 1)] /\ g + (pcur + 1) = p + 1
    BY <1>1, <1>3
  <2> HIDE DEF g
  <2> QED
    BY <2>2, <2>4, <2>5, <2>6 DEF s
<1>6. Token = GetToken(s)
  BY DEF Token, stop
<1>7. BeginsScript(doc, treatAsHtml, p)
        <=> ~treatAsHtml /\ doc[p + 1] = "script" /\ GetToken(u) # <<>>
  BY DEF BeginsScript
<1>8. IsScript <=> Token # <<>> /\ Head(Token) = "script" /\ ~treatAsHtml
  BY DEF IsScript
<1> HIDE DEF s, u, g
<1> QED
  BY <1>4, <1>5, <1>6, <1>7, <1>8

\* Where the piece ends that begins with a tag, in the buffer and on the page.
LEMMA TagOnPage ==
    ASSUME Inv, TwoByte(doc), InTag,
           NEW p, p = given - Len(inbuf) + pcur, p \notin Second(doc)
    PROVE  /\ p \in 1 .. Len(doc) /\ Opens(doc, p)
           /\ TagEnd <= Len(inbuf) /\ ~IsScript =>
                 LastOf(doc, treatAsHtml, p) = given - Len(inbuf) + TagEnd
           /\ TagEnd <= Len(inbuf) /\ IsScript /\ ScriptEnds # {} =>
                 LastOf(doc, treatAsHtml, p) = given - Len(inbuf) + Min(ScriptEnds)
           /\ (TagEnd <= Len(inbuf) => IsScript /\ ScriptEnds = {}) =>
                 LastOf(doc, treatAsHtml, p) >= given
<1> DEFINE g == given - Len(inbuf)
           E == Ends(doc, p)
           C == Closes(doc, p)
           end == Len(doc) + 1
           T == {end} \cup IF E # {} /\ BeginsScript(doc, treatAsHtml, p) THEN C ELSE E
<1> HIDE DEF E, C, end, T
<1>1. pc = "loop" /\ pcur < Len(inbuf) /\ inbuf[pcur] = "<" /\ inbuf[pcur + 1] # " "
  BY InTagBounds DEF InTag, TagStart
<1>2. OnPage(inbuf, doc, given)
  BY <1>1, BufferOnPage
<1>3. /\ inbuf \in Seq(Symbols) /\ doc \in Seq(Symbols) /\ Len(inbuf) \in Nat /\ Len(doc) \in Nat
      /\ given \in Nat /\ pcur \in 1 .. Len(inbuf) - 1 /\ g \in Nat /\ g + Len(inbuf) = given
      /\ given <= Len(doc) /\ \A k \in 1 .. Len(inbuf) : inbuf[k] = doc[g + k]
  <2>1. /\ inbuf \in Seq(Symbols) /\ Len(inbuf) \in Nat /\ pcur \in 1 .. Len(inbuf) + 1
    BY <1>1, LoopTypes
  <2>2. /\ doc \in Seq(Symbols) /\ Len(doc) \in Nat /\ given \in 0 .. Len(doc)
        /\ Len(inbuf) <= given
        /\ \A k \in 1 .. Len(inbuf) : inbuf[k] = doc[given - Len(inbuf) + k]
    <3>1. doc \in Seq(Symbols) /\ given \in 0 .. Len(doc) /\ EndsAt(inbuf, doc, given)
      BY <1>2 DEF OnPage
    <3> QED
      BY <3>1 DEF EndsAt
  <2>3. pcur \in 1 .. Len(inbuf) - 1 /\ g \in Nat /\ g + Len(inbuf) = given
    <3>1. given \in Nat /\ Len(inbuf) <= given
      BY <2>2
    <3>2. pcur \in 1 .. Len(inbuf) - 1
      <4> DEFINE n == Len(inbuf)
      <4>1. pcur < n /\ n \in Nat /\ pcur \in 1 .. n + 1
        BY <1>1, <2>1
      <4> HIDE DEF n
      <4>2. pcur \in 1 .. n - 1
        BY <4>1
      <4> QED
        BY <4>2 DEF n
    <3>3. g \in Nat /\ g + Len(inbuf) = given
      BY <2>1, <3>1
    <3> QED
      BY <3>2, <3>3
  <2>4. doc \in Seq(Symbols) /\ Len(doc) \in Nat /\ given \in Nat /\ given <= Len(doc)
    BY <2>2
  <2>5. \A k \in 1 .. Len(inbuf) : inbuf[k] = doc[g + k]
    BY <2>2
  <2> HIDE DEF g
  <2> QED
    BY <2>1, <2>3, <2>4, <2>5
<1>4. p \in 1 .. Len(doc) /\ p < Len(doc) /\ p = g + pcur
  BY <1>3
<1>5. Opens(doc, p)
  <2>1. doc[p] = inbuf[pcur] /\ doc[p + 1] = inbuf[pcur + 1]
    <3>1. p + 1 = g + (pcur + 1) /\ pcur + 1 \in 1 .. Len(inbuf) /\ pcur \in 1 .. Len(inbuf)
      BY <1>3, <1>4
    <3> HIDE DEF g
    <3>2. inbuf[pcur] = doc[g + pcur] /\ inbuf[pcur + 1] = doc[g + (pcur + 1)]
      BY <1>3, <3>1
    <3> QED
      BY <1>4, <3>1, <3>2
  <2> QED
    BY <1>1, <1>4, <2>1 DEF Opens
<1>6. /\ TagEnd \in pcur + 1 .. Len(inbuf) + 2
      /\ TagEnd <= Len(inbuf) => E # {} /\ Min(E) = g + TagEnd /\ inbuf[TagEnd] = ">"
      /\ TagEnd > Len(inbuf) => \A q \in E : q > given
  <2>1. pcur \in 1 .. Len(inbuf) /\ given - Len(inbuf) + pcur \notin Second(doc)
    BY <1>3
  <2>2. TagEnd = TagScan(inbuf, pcur)[pcur]
    BY ScansOfTheCode
  <2>3. /\ TagEnd <= Len(inbuf) => /\ Ends(doc, given - Len(inbuf) + pcur) # {}
                                    /\ Min(Ends(doc, given - Len(inbuf) + pcur))
                                          = given - Len(inbuf) + TagEnd
        /\ TagEnd > Len(inbuf) => \A q \in Ends(doc, given - Len(inbuf) + pcur) : q > given
    <3>1. EndFound(inbuf, doc, given, pcur, TagScan(inbuf, pcur)[pcur])
      BY <1>1, <1>2, <2>1, EndOnPage
    <3> QED
      BY <2>2, <3>1 DEF EndFound
  <2>4. /\ TagEnd \in pcur + 1 .. Len(inbuf) + 2
        /\ TagEnd <= Len(inbuf) => inbuf[TagEnd] = ">"
    BY InTagBounds
  <2>5. E = Ends(doc, given - Len(inbuf) + pcur) /\ g = given - Len(inbuf)
    BY DEF E
  <2> QED
    BY <2>3, <2>4, <2>5
<1>7. E \in SUBSET Nat /\ (E # {} => C \in SUBSET Nat) /\ end \in Nat
  <2>1. E \in SUBSET Nat
    BY <1>3, <1>4 DEF E, Ends
  <2>2. ASSUME NEW c \in C, E # {} PROVE c \in Nat
    <3> DEFINE m == Min(E)
    <3>1. m \in Nat
      BY <2>1, <2>2, LeastOfSome
    <3>2. c \in m + 3 .. Len(doc)
      BY DEF C, E, Closes
    <3> HIDE DEF m
    <3> QED
      BY <1>3, <3>1, <3>2
  <2> QED
    BY <1>3, <2>1, <2>2 DEF end
<1>8. LastOf(doc, treatAsHtml, p) = Min(T)
  BY DEF LastOf, T, E, C, end
<1>9. TagEnd <= Len(inbuf) => (IsScript <=> BeginsScript(doc, treatAsHtml, p))
  BY <1>6, ScriptOnPage DEF E
<1>10. ASSUME TagEnd <= Len(inbuf)
       PROVE  /\ \A k \in ScriptEnds : g + k \in C /\ g + k < given
              /\ \A c \in C : c < given => c - g \in ScriptEnds
  <2>1. ScriptEnds = EndsOfScript(inbuf, TagEnd)
    BY DEF ScriptEnds, EndsOfScript, pend
  <2>2. TagEnd \in 1 .. Len(inbuf) /\ Min(Ends(doc, p)) = given - Len(inbuf) + TagEnd
        /\ inbuf[TagEnd] = ">"
    BY <1>3, <1>6, <1>10 DEF E
  <2> QED
    BY <1>2, <2>1, <2>2, ScriptEndsOnPage DEF C
<1> HIDE DEF g
<1>11. ASSUME TagEnd <= Len(inbuf), ~IsScript
       PROVE  LastOf(doc, treatAsHtml, p) = g + TagEnd
  <2>1. T = {end} \cup E
    BY <1>9, <1>11 DEF T
  <2>2. g + TagEnd \in E /\ \A k \in E : g + TagEnd <= k
    BY <1>6, <1>7, <1>11, LeastOfSome
  <2>3. g + TagEnd <= end /\ g + TagEnd \in Nat
    BY <1>3, <1>6, <1>11 DEF end
  <2>4. Min(T) = g + TagEnd
    BY <1>7, <2>1, <2>2, <2>3, LeastIs
  <2> QED
    BY <1>8, <2>4
<1>12. ASSUME TagEnd <= Len(inbuf), IsScript, ScriptEnds # {}
       PROVE  LastOf(doc, treatAsHtml, p) = g + Min(ScriptEnds)
  <2> DEFINE m == Min(ScriptEnds)
  <2>1. T = {end} \cup C /\ C \in SUBSET Nat
    BY <1>6, <1>7, <1>9, <1>12 DEF T
  <2>2. ScriptEnds \in SUBSET Nat
    BY <1>3, <1>6 DEF ScriptEnds, pend
  <2>3. m \in ScriptEnds /\ \A k \in ScriptEnds : m <= k
    BY <1>12, <2>2, LeastOfSome
  <2> HIDE DEF m
  <2>4. g + m \in C /\ g + m < given /\ m \in Nat
    BY <1>10, <1>12, <2>2, <2>3
  <2>5. ASSUME NEW k \in C PROVE g + m <= k
    <3>1. k \in Nat
      BY <2>1
    <3>2. CASE k < given
      <4>1. k - g \in ScriptEnds
        BY <1>10, <1>12, <3>2
      <4>2. m <= k - g
        BY <2>3, <4>1
      <4> QED
        BY <1>3, <2>4, <3>1, <4>2
    <3>3. CASE ~(k < given)
      BY <1>3, <2>4, <3>1, <3>3
    <3> QED
      BY <3>2, <3>3
  <2>6. g + m <= end /\ g + m \in Nat
    BY <1>3, <2>4 DEF end
  <2>7. Min(T) = g + m
    BY <2>1, <2>4, <2>5, <2>6, <1>7, LeastIs
  <2> QED
    BY <1>8, <2>7 DEF m
<1>13. ASSUME TagEnd <= Len(inbuf) => IsScript /\ ScriptEnds = {}
       PROVE  LastOf(doc, treatAsHtml, p) >= given
  <2>1. end >= given
    BY <1>3 DEF end
  <2>2. CASE TagEnd <= Len(inbuf)
    <3>1. T = {end} \cup C /\ C \in SUBSET Nat
      BY <1>6, <1>7, <1>9, <1>13, <2>2 DEF T
    <3>2. \A c \in C : c >= given
      <4>1. ASSUME NEW c \in C PROVE c >= given
        BY <1>3, <1>10, <1>13, <2>2, <3>1
      <4> QED
        BY <4>1
    <3>3. T \in SUBSET Nat /\ T # {} /\ \A t \in T : t >= given
      BY <1>7, <2>1, <3>1, <3>2
    <3>4. Min(T) >= given
      BY <3>3, LeastOfSome
    <3> QED
      BY <1>8, <3>4
  <2>3. CASE ~(TagEnd <= Len(inbuf))
    <3>1. \A q \in E : q > given
      BY <1>3, <1>6, <2>3
    <3>2. E # {} => \A c \in C : c >= given
      <4>1. ASSUME NEW c \in C, E # {} PROVE c >= given
        <5>1. Min(E) \in E
          BY <1>7, <4>1, LeastOfSome
        <5> DEFINE m == Min(E)
        <5>2. m \in Nat /\ m > given
          BY <1>7, <3>1, <5>1
        <5>3. c \in m + 3 .. Len(doc)
          BY DEF C, E, Closes
        <5> HIDE DEF m
        <5> QED
          BY <1>3, <5>2, <5>3
      <4> QED
        BY <4>1
    <3>3. T \in SUBSET Nat /\ T # {}
      BY <1>7 DEF T
    <3>4. \A t \in T : t >= given
      BY <1>3, <1>7, <2>1, <3>1, <3>2 DEF T
    <3>5. Min(T) >= given
      BY <3>3, <3>4, LeastOfSome
    <3> QED
      BY <1>8, <3>5
  <2> QED
    BY <2>2, <2>3
<1> QED
  BY <1>4, <1>5, <1>11, <1>12, <1>13 DEF g

-----------------------------------------------------------------------------
(* The tags put out and those still to be found *)

TagsOf(o) == {<<o[k].at, o[k].at + Len(o[k].of) - 1>> : k \in {j \in DOMAIN o : o[j].kind # "text"}}

LEMMA TagsOfAppend ==
    ASSUME NEW o \in Seq(PieceSet), NEW e \in PieceSet
    PROVE  TagsOf(Append(o, e)) = IF e.kind = "text" THEN TagsOf(o)
                                  ELSE TagsOf(o) \cup {<<e.at, e.at + Len(e.of) - 1>>}
<1> DEFINE t == Append(o, e)
           n == Len(o)
           Pair(q) == <<q.at, q.at + Len(q.of) - 1>>
<1>1. /\ n \in Nat /\ DOMAIN o = 1 .. n /\ DOMAIN t = 1 .. n + 1
      /\ t[n + 1] = e /\ \A i \in 1 .. n : t[i] = o[i]
  OBVIOUS
<1>2. \A u : TagsOf(u) = {Pair(u[k]) : k \in {j \in DOMAIN u : u[j].kind # "text"}}
  BY DEF TagsOf
<1> HIDE DEF t, Pair, n
<1>3. TagsOf(t) = {Pair(t[k]) : k \in {j \in 1 .. n + 1 : t[j].kind # "text"}}
  BY <1>1, <1>2
<1>4. TagsOf(o) = {Pair(o[k]) : k \in {j \in 1 .. n : o[j].kind # "text"}}
  BY <1>1, <1>2
<1>5. ASSUME NEW x \in TagsOf(t)
      PROVE  x \in TagsOf(o) \/ (e.kind # "text" /\ x = Pair(e))
  <2>1. PICK k \in 1 .. n + 1 : t[k].kind # "text" /\ x = Pair(t[k])
    BY <1>3
  <2>2. k \in 1 .. n \/ k = n + 1
    BY <1>1
  <2> QED
    BY <1>1, <1>4, <2>1, <2>2
<1>6. ASSUME NEW x \in TagsOf(o)
      PROVE  x \in TagsOf(t)
  <2>1. PICK k \in 1 .. n : o[k].kind # "text" /\ x = Pair(o[k])
    BY <1>4
  <2>2. k \in 1 .. n + 1
    BY <1>1
  <2> QED
    BY <1>1, <1>3, <2>1, <2>2
<1>7. e.kind # "text" => Pair(e) \in TagsOf(t)
  <2>1. n + 1 \in 1 .. n + 1
    BY <1>1
  <2> QED
    BY <1>1, <1>3, <2>1
<1>8. TagsOf(t) = IF e.kind = "text" THEN TagsOf(o) ELSE TagsOf(o) \cup {Pair(e)}
  BY <1>5, <1>6, <1>7
<1> QED
  BY <1>8 DEF t, Pair

\* The tags of the page d are those put out in o and those from p on; no tag put
\* out ends behind the n-th symbol.
Found(d, html, o, p, n) ==
    /\ p \notin Second(d)
    /\ TagsFrom(d, html)[1] = TagsOf(o) \cup TagsFrom(d, html)[p]
    /\ \A t \in TagsOf(o) : t[2] <= n

\* No tag from p on ends before the n-th symbol.
Behind(d, html, p, n) == \A t \in TagsFrom(d, html)[p] : t[2] >= n

LEMMA PassText ==
    ASSUME NEW d \in Seq(Symbols), NEW html, NEW o \in Seq(PieceSet), NEW e \in PieceSet,
           e.kind = "text", NEW n, NEW p \in 1 .. Len(d) + 1, NEW q \in p .. Len(d) + 1,
           q \notin Second(d), \A r \in p .. q - 1 : ~Opens(d, r), Found(d, html, o, p, n)
    PROVE  Found(d, html, Append(o, e), q, n)
<1>1. TagsOf(Append(o, e)) = TagsOf(o)
  BY TagsOfAppend
<1>2. TagsFrom(d, html)[p] = TagsFrom(d, html)[q]
  BY NoTagBetween
<1> QED
  BY <1>1, <1>2 DEF Found

\* A tag or script that ends on the page ends in ">".
LEMMA LastIsEnd ==
    ASSUME NEW d \in Seq(Symbols), NEW html, NEW p \in 1 .. Len(d), LastOf(d, html, p) <= Len(d)
    PROVE  d[LastOf(d, html, p)] = ">"
<1> DEFINE E == Ends(d, p)
           C == Closes(d, p)
           end == Len(d) + 1
           T == {end} \cup IF E # {} /\ BeginsScript(d, html, p) THEN C ELSE E
           l == LastOf(d, html, p)
<1> HIDE DEF E, C, end, T, l
<1>0. l \in p + 1 .. Len(d) + 1 /\ Len(d) \in Nat /\ l <= Len(d)
  BY LastBounds DEF l
<1>1. E \in SUBSET Nat
  BY DEF E, Ends
<1>2. ASSUME E # {}
      PROVE  C \in SUBSET Nat /\ \A c \in C : d[c] = ">"
  <2> DEFINE m == Min(E)
  <2>1. m \in E
    BY <1>1, <1>2, LeastOfSome
  <2>2. m \in p + 1 .. Len(d)
    BY <2>1 DEF E, Ends
  <2>3. ASSUME NEW c \in C PROVE c \in Nat /\ d[c] = ">"
    <3>1. c \in m + 3 .. Len(d) /\ SubSeq(d, c - 2, c) = <<"<", "/script", ">">>
      BY <2>3 DEF C, E, Closes
    <3> HIDE DEF m
    <3>2. c \in 4 .. Len(d)
      BY <2>2, <3>1
    <3> DEFINE i == c - 2
    <3>3. i \in Int /\ c \in Int /\ c - i + 1 = 3 /\ \A k \in i .. c : d[k] \in Symbols
      BY <3>2
    <3>4. i + 3 - 1 = c
      BY <3>2
    <3> HIDE DEF i
    <3>5. \A k \in 1 .. c - i + 1 : SubSeq(d, i, c)[k] = d[i + k - 1]
      BY <3>3, SubSeqProperties
    <3>6. 3 \in 1 .. c - i + 1
      BY <3>3
    <3>7. SubSeq(d, i, c)[3] = d[c]
      BY <3>4, <3>5, <3>6
    <3>8. <<"<", "/script", ">">>[3] = ">"
      OBVIOUS
    <3>9. SubSeq(d, i, c)[3] = ">"
      BY <3>1, <3>8 DEF i
    <3> HIDE DEF C
    <3> QED
      BY <3>2, <3>7, <3>9
  <2> QED
    BY <2>3
<1>3. l = Min(T)
  BY DEF l, LastOf, T, E, C, end
<1>4. T \in SUBSET Nat /\ T # {}
  <2>1. end \in Nat
    BY <1>0 DEF end
  <2>2. E # {} => C \in SUBSET Nat
    BY <1>2
  <2> QED
    BY <1>1, <2>1, <2>2 DEF T
<1>5. l \in T /\ l # end
  BY <1>0, <1>3, <1>4, LeastOfSome DEF end
<1>6. l \in E => d[l] = ">"
  BY DEF E, Ends
<1>7. d[l] = ">"
  BY <1>2, <1>5, <1>6 DEF T
<1> QED
  BY <1>7 DEF l

LEMMA PassTag ==
    ASSUME NEW d \in Seq(Symbols), NEW html, NEW o \in Seq(PieceSet), NEW e \in PieceSet,
           e.kind # "text", NEW n \in 0 .. Len(d), NEW p \in 1 .. Len(d), Opens(d, p),
           NEW l, l = LastOf(d, html, p), l <= n,
           e.at = p, Len(e.of) = l - p + 1, Found(d, html, o, p, n)
    PROVE  Found(d, html, Append(o, e), l + 1, n)
<1>1. TagsOf(Append(o, e)) = TagsOf(o) \cup {<<e.at, e.at + Len(e.of) - 1>>}
  BY TagsOfAppend
<1>2. l \in p + 1 .. Len(d) /\ Len(d) \in Nat
  <2>1. l \in p + 1 .. Len(d) + 1
    BY LastBounds
  <2> QED
    BY <2>1
<1>3. e.at + Len(e.of) - 1 = l
  BY <1>2
<1>4. TagsFrom(d, html)[p] = {<<p, l>>} \cup TagsFrom(d, html)[l + 1]
  <2>1. p \in 1 .. Len(d) + 2 /\ ~(p > Len(d))
    BY <1>2
  <2> QED
    BY <2>1, TagsFromStep
<1>5. l + 1 \notin Second(d)
  <2>1. d[l] = ">"
    BY <1>2, LastIsEnd
  <2>2. l + 1 \in Second(d) => l \in 1 .. Len(d) - 1
    BY <1>2, SecondStep
  <2>3. l + 1 \in Second(d) => d[l] = "hi"
    BY <2>2, SecondStep
  <2> QED
    BY <2>1, <2>3
<1>6. \A t \in TagsOf(Append(o, e)) : t[2] <= n
  BY <1>1, <1>3 DEF Found
<1>7. TagsFrom(d, html)[1] = TagsOf(Append(o, e)) \cup TagsFrom(d, html)[l + 1]
  BY <1>1, <1>3, <1>4 DEF Found
<1> QED
  BY <1>5, <1>6, <1>7 DEF Found

\* On the page, the first symbol that no piece stands for.
Place == given + pcur - Len(inbuf) - Len(bak)

Tagged ==
    /\ Found(doc, treatAsHtml, out, Place, given)
    /\ pc = "loop" => Len(bak) <= 1
    /\ pc = "idle" => Behind(doc, treatAsHtml, Place, given)

LEMMA InitTagged == Init => Tagged
<1> SUFFICES ASSUME Init PROVE Tagged
  OBVIOUS
<1>1. doc \in Seq(Symbols) /\ Len(doc) \in Nat
  BY DocAssumption DEF Init
<1>2. Len(<<>>) = 0 /\ Place = 1 /\ given = 0
  BY DEF Init, Place
<1>3. TagsOf(<<>>) = {}
  BY DEF TagsOf
<1>4. 1 \notin Second(doc)
  BY <1>1, SecondStep
<1>5. Found(doc, treatAsHtml, out, Place, given)
  BY <1>2, <1>3, <1>4 DEF Init, Found
<1>6. Behind(doc, treatAsHtml, Place, given)
  <2>1. 1 \in 1 .. Len(doc) + 2
    BY <1>1
  <2>2. \A t \in TagsFrom(doc, treatAsHtml)[1] : t[2] \in Nat /\ t[2] >= 1
    BY <1>1, <2>1, TagsBehind
  <2>3. \A t \in TagsFrom(doc, treatAsHtml)[1] : t[2] >= 0
    BY <2>2
  <2> QED
    BY <1>2, <2>3 DEF Behind
<1> QED
  BY <1>5, <1>6 DEF Tagged, Init

LEMMA CallTagged ==
    ASSUME Inv, Tagged, NEW n \in Nat \ {0}, Call(n)
    PROVE  Tagged'
<1> DEFINE s == SubSeq(doc, given + 1, given + n)
<1>1. doc \in Seq(Symbols) /\ Len(doc) \in Nat /\ given \in Nat /\ given + n <= Len(doc)
  BY DocTypes DEF Inv, Types, Call
<1>2. s \in Seq(Symbols) /\ Len(s) = n
  <2>1. \A i \in given + 1 .. given + n : doc[i] \in Symbols
    BY <1>1
  <2> QED
    BY <1>1, <2>1, SubSeqProperties
<1>3. /\ inbuf = <<>> /\ pcur = 1 /\ bak \in Seq(Symbols) /\ doc' = doc
      /\ given' = given + n /\ inbuf' = bak \o s /\ bak' = <<>> /\ pcur' = 1 /\ out' = out
      /\ pc' = "loop" /\ treatAsHtml' = treatAsHtml /\ Len(bak) \in Nat
  BY DEF Inv, Types, Call, pend
<1> HIDE DEF s
<1>4. Len(inbuf') = Len(bak) + n
  BY <1>2, <1>3, ConcatProperties
<1>5. Place' = Place
  <2>1. Place' = (given + n) + 1 - (Len(bak) + n) - 0
    BY <1>3, <1>4 DEF Place
  <2>2. Place = given + 1 - 0 - Len(bak)
    BY <1>3 DEF Place
  <2> QED
    BY <1>1, <1>3, <2>1, <2>2
<1>6. Found(doc, treatAsHtml, out, Place, given + n)
  <2>1. \A t \in TagsOf(out) : t[2] <= given + n
    <3>1. ASSUME NEW t \in TagsOf(out) PROVE t[2] <= given + n
      <4>1. t[2] <= given
        BY DEF Tagged, Found
      <4>2. t[2] \in Int
        <5>1. PICK k \in DOMAIN out : t = <<out[k].at, out[k].at + Len(out[k].of) - 1>>
          BY DEF TagsOf
        <5>2. out[k] \in PieceSet
          BY DEF Inv, Types
        <5>3. out[k].at \in Int /\ out[k].of \in Seq(Symbols)
          BY <5>2 DEF PieceSet
        <5>4. Len(out[k].of) \in Nat
          BY <5>3
        <5> QED
          BY <5>1, <5>3, <5>4
      <4> QED
        BY <1>1, <4>1, <4>2
    <3> QED
      BY <3>1
  <2> QED
    BY <2>1 DEF Tagged, Found
<1> QED
  BY <1>3, <1>5, <1>6 DEF Tagged

\* Where the code is on the page.
LEMMA PlaceOnPage ==
    ASSUME Inv
    PROVE  /\ doc \in Seq(Symbols) /\ Len(doc) \in Nat /\ given \in 0 .. Len(doc)
           /\ Place \in 1 .. Len(doc) + 1
<1>1. /\ doc \in Seq(Symbols) /\ Len(doc) \in Nat /\ given \in 0 .. Len(doc)
      /\ inbuf \in Seq(Symbols) /\ bak \in Seq(Symbols) /\ pcur \in 1 .. Len(inbuf) + 1
      /\ pc # "idle" /\ bak # <<>> => pcur = Len(inbuf) + 1
      /\ pc = "idle" => inbuf = <<>>
  BY DocTypes DEF Inv, Types, pend
<1>2. Len(inbuf) <= given /\ Len(bak) <= given
  BY DEF Inv, Windows, EndsAt
<1>3. /\ Len(inbuf) \in Nat /\ Len(bak) \in Nat /\ (bak # <<>> \/ Len(bak) = 0)
      /\ (inbuf = <<>> => Len(inbuf) = 0)
  BY <1>1
<1>4. pcur = Len(inbuf) + 1 \/ Len(bak) = 0
  BY <1>1, <1>3
<1> DEFINE i == Len(inbuf)
           k == Len(bak)
           n == Len(doc)
<1>5. /\ i \in Nat /\ k \in Nat /\ n \in Nat /\ given \in 0 .. n /\ i <= given /\ k <= given
      /\ pcur \in 1 .. i + 1 /\ (pcur = i + 1 \/ k = 0)
  BY <1>1, <1>2, <1>3, <1>4
<1>6. Place = given + pcur - i - k
  BY DEF Place
<1> HIDE DEF i, k, n
<1>7. Place \in 1 .. n + 1
  BY <1>5, <1>6
<1> QED
  BY <1>1, <1>7 DEF n

\* A return leaves the place where it is.
LEMMA ReturnTagged ==
    ASSUME Inv, Tagged, pc = "loop", NEW keep \in Seq(Symbols), Return(keep), out' = out,
           given - Len(keep) + 1 = Place, Behind(doc, treatAsHtml, Place, given)
    PROVE  Tagged'
<1>1. Place' = Place
  <2>1. Place' = given + 1 - 0 - Len(keep)
    BY DEF Return, Place
  <2>2. given \in Nat /\ Len(keep) \in Nat
    BY PlaceOnPage
  <2> QED
    BY <2>1, <2>2
<1> QED
  BY <1>1 DEF Return, Tagged

\* Near the end of what was passed in no tag can end before it.
LEMMA NearTheEnd ==
    ASSUME Inv, Place >= given
    PROVE  Behind(doc, treatAsHtml, Place, given)
<1>1. doc \in Seq(Symbols) /\ Len(doc) \in Nat /\ given \in Nat /\ Place \in 1 .. Len(doc) + 2
  BY PlaceOnPage
<1>2. \A t \in TagsFrom(doc, treatAsHtml)[Place] : t[2] \in Nat /\ t[2] >= Place
  BY <1>1, TagsBehind
<1>3. ASSUME NEW t \in TagsFrom(doc, treatAsHtml)[Place] PROVE t[2] >= given
  BY <1>1, <1>2
<1> QED
  BY <1>3 DEF Behind

LEMMA DoneTagged == Inv /\ Tagged /\ Done => Tagged'
<1> SUFFICES ASSUME Inv, Tagged, Done PROVE Tagged'
  OBVIOUS
<1>1. /\ pc = "loop" /\ pcur > Len(inbuf) /\ Return(bak) /\ out' = out
  BY DEF Done, pend
<1>2. /\ inbuf \in Seq(Symbols) /\ Len(inbuf) \in Nat /\ pcur = Len(inbuf) + 1 /\ given \in Nat
      /\ bak \in Seq(Symbols) /\ Len(bak) \in Nat
  BY <1>1, LoopTypes
<1>3. given - Len(bak) + 1 = Place
  BY <1>2 DEF Place
<1>4. Behind(doc, treatAsHtml, Place, given)
  <2>1. Len(bak) <= 1
    BY <1>1 DEF Tagged
  <2>2. Place >= given
    BY <1>2, <1>3, <2>1
  <2> QED
    BY <2>2, NearTheEnd
<1> QED
  BY <1>1, <1>2, <1>3, <1>4, ReturnTagged

LEMMA KeepLastTagged == Inv /\ Tagged /\ KeepLast => Tagged'
<1> SUFFICES ASSUME Inv, Tagged, KeepLast PROVE Tagged'
  OBVIOUS
<1>1. /\ pc = "loop" /\ pcur = Len(inbuf) /\ Return(<<inbuf[pcur]>>) /\ out' = out
  BY DEF KeepLast, pend
<1>2. /\ inbuf \in Seq(Symbols) /\ Len(inbuf) \in Nat /\ pcur \in 1 .. Len(inbuf) /\ given \in Nat
      /\ bak = <<>>
  BY <1>1, LoopTypes
<1>3. <<inbuf[pcur]>> \in Seq(Symbols) /\ Len(<<inbuf[pcur]>>) = 1 /\ Len(bak) = 0
  BY <1>2
<1>4. Place = given
  BY <1>1, <1>2, <1>3 DEF Place
<1>5. given - Len(<<inbuf[pcur]>>) + 1 = Place /\ Place >= given
  BY <1>2, <1>3, <1>4
<1> QED
  BY <1>1, <1>3, <1>5, NearTheEnd, ReturnTagged

\* While there is something to look at, the place in the buffer is the place on
\* the page, and nothing is kept.
LEMMA PlaceInLoop ==
    ASSUME Inv, pc = "loop", pcur < Len(inbuf)
    PROVE  /\ inbuf \in Seq(Symbols) /\ Len(inbuf) \in Nat /\ pcur \in 1 .. Len(inbuf)
           /\ given \in Nat /\ Len(inbuf) <= given /\ bak = <<>> /\ pend = Len(inbuf)
           /\ Place = given - Len(inbuf) + pcur /\ out \in Seq(PieceSet)
           /\ OnPage(inbuf, doc, given)
<1>1. /\ inbuf \in Seq(Symbols) /\ Len(inbuf) \in Nat /\ pcur \in 1 .. Len(inbuf)
      /\ given \in Nat /\ bak = <<>> /\ pend = Len(inbuf) /\ out \in Seq(PieceSet)
  BY LoopTypes
<1>2. OnPage(inbuf, doc, given)
  BY BufferOnPage
<1>3. Len(inbuf) <= given
  BY <1>2 DEF OnPage, EndsAt
<1>4. Len(bak) = 0
  BY <1>1
<1>5. Place = given - Len(inbuf) + pcur
  BY <1>1, <1>4 DEF Place
<1> QED
  BY <1>1, <1>2, <1>3, <1>5

LEMMA KeepTagTagged == Inv /\ Tagged /\ TwoByte(doc) /\ KeepTag => Tagged'
<1> SUFFICES ASSUME Inv, Tagged, TwoByte(doc), KeepTag PROVE Tagged'
  OBVIOUS
<1> DEFINE keep == SubSeq(inbuf, pcur, Len(inbuf))
           l == LastOf(doc, treatAsHtml, Place)
           F == TagsFrom(doc, treatAsHtml)
<1>1. InTag /\ pend = Len(inbuf) /\ pc = "loop" /\ pcur < Len(inbuf)
  BY InTagBounds DEF KeepTag
<1>2. /\ Return(keep) /\ out' = out /\ (TagEnd <= Len(inbuf) => IsScript /\ ScriptEnds = {})
  BY <1>1 DEF KeepTag
<1>3. /\ inbuf \in Seq(Symbols) /\ Len(inbuf) \in Nat /\ pcur \in 1 .. Len(inbuf) /\ given \in Nat
      /\ Place = given - Len(inbuf) + pcur
  BY <1>1, PlaceInLoop
<1>4. keep \in Seq(Symbols) /\ Len(keep) = Len(inbuf) - pcur + 1
  <2>1. \A i \in pcur .. Len(inbuf) : inbuf[i] \in Symbols
    BY <1>3
  <2>2. Len(keep) = IF pcur <= Len(inbuf) THEN Len(inbuf) - pcur + 1 ELSE 0
    BY <1>3, <2>1, SubSeqProperties
  <2>3. keep \in Seq(Symbols)
    BY <1>3, <2>1, SubSeqProperties
  <2> QED
    BY <1>1, <1>3, <2>2, <2>3
<1> HIDE DEF keep
<1>5. Place \notin Second(doc)
  BY DEF Tagged, Found
<1>6. Place \in 1 .. Len(doc) /\ Opens(doc, Place) /\ l >= given
  BY <1>1, <1>2, <1>3, <1>5, TagOnPage
<1>7. doc \in Seq(Symbols) /\ Len(doc) \in Nat
  BY PlaceOnPage
<1>8. l \in Place + 1 .. Len(doc) + 1
  BY <1>6, <1>7, LastBounds
<1>9. F[Place] = {<<Place, l>>} \cup F[l + 1]
  <2>1. Place \in 1 .. Len(doc) + 2 /\ ~(Place > Len(doc))
    BY <1>6, <1>7
  <2> QED
    BY <1>6, <1>7, <2>1, TagsFromStep
<1>10. \A t \in F[l + 1] : t[2] \in Nat /\ t[2] >= l + 1
  <2>1. l + 1 \in 1 .. Len(doc) + 2
    BY <1>6, <1>7, <1>8
  <2> QED
    BY <1>7, <2>1, TagsBehind
<1>11. Behind(doc, treatAsHtml, Place, given)
  <2> HIDE DEF l, F
  <2>1. ASSUME NEW t \in F[Place] PROVE t[2] >= given
    <3>1. CASE t = <<Place, l>>
      BY <1>6, <3>1
    <3>2. CASE t \in F[l + 1]
      <4>1. l \in Nat /\ t[2] \in Nat /\ t[2] >= l + 1
        BY <1>6, <1>8, <1>10, <3>2
      <4> QED
        BY <1>3, <1>6, <4>1
    <3> QED
      BY <1>9, <3>1, <3>2
  <2> QED
    BY <2>1 DEF Behind, F
<1>12. given - Len(keep) + 1 = Place
  BY <1>3, <1>4
<1> QED
  BY <1>1, <1>2, <1>4, <1>11, <1>12, ReturnTagged

\* The text scan on the page.
LEMMA TextOnPage ==
    ASSUME Inv, Tagged, InText
    PROVE  /\ TextStop \in pcur + 1 .. Len(inbuf) + 1
           /\ given - Len(inbuf) + TextStop \in Place .. Len(doc) + 1
           /\ given - Len(inbuf) + TextStop \notin Second(doc)
           /\ \A r \in Place .. given - Len(inbuf) + TextStop - 1 : ~Opens(doc, r)
<1> DEFINE g == given - Len(inbuf)
           stop == TextScan(inbuf, pcur)[pcur]
<1>1. pc = "loop" /\ pcur < Len(inbuf) /\ TextStop \in pcur + 1 .. Len(inbuf) + 1 /\ TextStop = stop
  BY InTextBounds, ScansOfTheCode
<1>2. /\ inbuf \in Seq(Symbols) /\ Len(inbuf) \in Nat /\ pcur \in 1 .. Len(inbuf) /\ given \in Nat
      /\ Len(inbuf) <= given /\ Place = g + pcur /\ OnPage(inbuf, doc, given)
  BY <1>1, PlaceInLoop
<1>3. given \in 0 .. Len(doc) /\ Len(doc) \in Nat /\ Place \notin Second(doc)
  BY PlaceOnPage DEF Tagged, Found
<1>4. pcur \in pcur .. Len(inbuf) + 1 /\ pcur \in 1 .. Len(inbuf) + 1
  BY <1>2
<1>5. given - Len(inbuf) + pcur \notin Second(doc)
  BY <1>2, <1>3
<1>6. /\ g + stop \notin Second(doc)
      /\ \A q \in pcur .. stop - 1 : ~Opens(doc, g + q)
  BY <1>2, <1>4, <1>5, TextScanPasses
<1> HIDE DEF stop
<1>7. g \in Nat /\ g + Len(inbuf) = given
  BY <1>2
<1>8. g + stop \in Place .. Len(doc) + 1
  BY <1>1, <1>2, <1>3, <1>7
<1> HIDE DEF g
<1>9. ASSUME NEW r \in Place .. g + stop - 1 PROVE ~Opens(doc, r)
  <2> DEFINE q == r - g
  <2>1. q \in pcur .. stop - 1 /\ g + q = r
    BY <1>1, <1>2, <1>7
  <2> HIDE DEF q
  <2> QED
    BY <1>6, <2>1
<1> QED
  BY <1>1, <1>6, <1>8, <1>9 DEF g

\* The piece put out.
PieceOf(b, c, n, kind, last, by) ==
    [kind |-> kind, at |-> n - Len(b) + c, of |-> SubSeq(b, c, last), by |-> by]

LEMMA PieceTypes ==
    ASSUME NEW b \in Seq(Symbols), NEW c \in 1 .. Len(b), NEW last \in c - 1 .. Len(b),
           NEW n \in Nat, NEW kind \in Kinds, NEW by \in Seq(Symbols)
    PROVE  /\ PieceOf(b, c, n, kind, last, by) \in PieceSet
           /\ PieceOf(b, c, n, kind, last, by).kind = kind
           /\ PieceOf(b, c, n, kind, last, by).at = n - Len(b) + c
           /\ Len(PieceOf(b, c, n, kind, last, by).of) = last - c + 1
<1> DEFINE s == SubSeq(b, c, last)
           at == n - Len(b) + c
           e == [kind |-> kind, at |-> at, of |-> s, by |-> by]
<1>1. s \in Seq(Symbols) /\ Len(s) = last - c + 1
  <2>1. \A i \in c .. last : b[i] \in Symbols
    OBVIOUS
  <2>2. s \in Seq(Symbols) /\ Len(s) = IF c <= last THEN last - c + 1 ELSE 0
    BY <2>1, SubSeqProperties
  <2> QED
    BY <2>2
<1>2. at \in Int
  OBVIOUS
<1>3. PieceOf(b, c, n, kind, last, by) = e
  BY DEF PieceOf
<1> HIDE DEF s, at
<1>4. e \in PieceSet /\ e.kind = kind /\ e.at = at /\ e.of = s
  BY <1>1, <1>2 DEF PieceSet
<1> HIDE DEF e
<1> QED
  BY <1>1, <1>3, <1>4 DEF at

LEMMA TextBeforeTagTagged == Inv /\ Tagged /\ TextBeforeTag => Tagged'
<1> SUFFICES ASSUME Inv, Tagged, TextBeforeTag PROVE Tagged'
  OBVIOUS
<1> DEFINE last == TextStop - 1
           by == SubSeq(inbuf, pcur, last)
           e == PieceOf(inbuf, pcur, given, "text", last, by)
<1> DEFINE q == given - Len(inbuf) + TextStop
<1>0. q = given - Len(inbuf) + TextStop
  OBVIOUS
<1>1. InText /\ pc = "loop" /\ pcur < Len(inbuf) /\ TextStop \in pcur + 1 .. Len(inbuf) + 1
  BY InTextBounds DEF TextBeforeTag
<1>2. /\ inbuf \in Seq(Symbols) /\ Len(inbuf) \in Nat /\ pcur \in 1 .. Len(inbuf) /\ given \in Nat
      /\ bak = <<>> /\ pend = Len(inbuf) /\ out \in Seq(PieceSet)
  BY <1>1, PlaceInLoop
<1>3. last \in pcur - 1 .. Len(inbuf) /\ by \in Seq(Symbols)
  BY <1>1, <1>2, RestTypes
<1>4. /\ out' = Append(out, e) /\ pcur' = TextStop /\ bak' = bak
      /\ UNCHANGED <<doc, given, treatAsHtml, pc, inbuf>>
  BY <1>2 DEF TextBeforeTag, TextUpTo, PutOut, PieceOf
<1>5. e \in PieceSet /\ e.kind = "text"
  <2>1. inbuf \in Seq(Symbols) /\ pcur \in 1 .. Len(inbuf) /\ given \in Nat
    BY <1>2
  <2>2. last \in pcur - 1 .. Len(inbuf) /\ by \in Seq(Symbols)
    BY <1>3
  <2>3. "text" \in Kinds
    BY DEF Kinds
  <2> HIDE DEF last, by
  <2> QED
    BY <2>1, <2>2, <2>3, PieceTypes
<1> HIDE DEF e
<1>6. Place' = q
  <2>1. Len(bak) = 0
    BY <1>2
  <2>2. Place' = given + TextStop - Len(inbuf) - 0
    BY <1>4, <2>1 DEF Place
  <2> QED
    BY <1>0, <1>1, <1>2, <2>2
<1>7. /\ q \in Place .. Len(doc) + 1 /\ q \notin Second(doc)
      /\ \A r \in Place .. q - 1 : ~Opens(doc, r)
  <2>1. InText
    BY <1>1
  <2>2. /\ given - Len(inbuf) + TextStop \in Place .. Len(doc) + 1
        /\ given - Len(inbuf) + TextStop \notin Second(doc)
        /\ \A r \in Place .. given - Len(inbuf) + TextStop - 1 : ~Opens(doc, r)
    BY <2>1, TextOnPage
  <2> HIDE DEF last, by, q
  <2>3. \A r \in Place .. q - 1 : ~Opens(doc, r)
    <3>1. q - 1 = given - Len(inbuf) + TextStop - 1
      BY <1>0, <1>1, <1>2
    <3> QED
      BY <2>2, <3>1
  <2>4. q \in Place .. Len(doc) + 1
    BY <1>0, <2>2
  <2>5. q \notin Second(doc)
    BY <1>0, <2>2
  <2> QED
    BY <2>3, <2>4, <2>5
<1> HIDE DEF q
<1>8. doc \in Seq(Symbols) /\ Place \in 1 .. Len(doc) + 1
      /\ Found(doc, treatAsHtml, out, Place, given)
  BY PlaceOnPage DEF Tagged
<1>9. Found(doc, treatAsHtml, Append(out, e), q, given)
  BY <1>2, <1>5, <1>7, <1>8, PassText
<1> QED
  BY <1>1, <1>4, <1>6, <1>9 DEF Tagged

LEMMA TextAtEndTagged == Inv /\ Tagged /\ TextAtEnd => Tagged'
<1> SUFFICES ASSUME Inv, Tagged, TextAtEnd PROVE Tagged'
  OBVIOUS
<1>1. /\ InText /\ pc = "loop" /\ pcur < Len(inbuf)
      /\ TextStop = Len(inbuf) /\ pend = Len(inbuf) /\ pcur' = Len(inbuf) + 1
  BY InTextBounds DEF TextAtEnd
<1>2. /\ inbuf \in Seq(Symbols) /\ Len(inbuf) \in Nat /\ pcur \in 1 .. Len(inbuf) /\ given \in Nat
      /\ bak = <<>> /\ out \in Seq(PieceSet) /\ OnPage(inbuf, doc, given)
  BY <1>1, PlaceInLoop
<1>3. given - Len(inbuf) + TextStop = given
  BY <1>1, <1>2
<1>4. /\ given \in Place .. Len(doc) + 1 /\ given \notin Second(doc)
      /\ \A r \in Place .. given - 1 : ~Opens(doc, r)
  BY <1>1, <1>3, TextOnPage
<1>5. /\ doc \in Seq(Symbols) /\ Len(doc) \in Nat /\ Place \in 1 .. Len(doc) + 1
      /\ given \in 0 .. Len(doc) /\ Found(doc, treatAsHtml, out, Place, given)
  BY PlaceOnPage DEF Tagged
<1>6. CASE inbuf[pend] \in {"<", "hi"}
  <2> DEFINE by == SubSeq(inbuf, pcur, Len(inbuf) - 1)
             last == Len(inbuf) - 1
             e == PieceOf(inbuf, pcur, given, "text", last, by)
  <2>1. by \in Seq(Symbols) /\ Len(inbuf) - 1 \in pcur - 1 .. Len(inbuf)
    BY <1>1, <1>2, RestTypes
  <2>2. /\ out' = Append(out, e) /\ bak' = <<inbuf[Len(inbuf)]>>
        /\ UNCHANGED <<doc, given, treatAsHtml, pc, inbuf>>
    BY <1>1, <1>6 DEF TextAtEnd, TextUpTo, PutOut, PieceOf
  <2>3. e \in PieceSet /\ e.kind = "text"
    <3>1. last \in pcur - 1 .. Len(inbuf)
      BY <2>1
    <3> HIDE DEF by, last
    <3> QED
      BY <1>2, <2>1, <3>1, PieceTypes DEF Kinds
  <2> HIDE DEF e
  <2>4. Len(bak') = 1
    BY <2>2
  <2>5. Place' = given
    <3>1. Place' = given + (Len(inbuf) + 1) - Len(inbuf) - 1
      BY <1>1, <2>2, <2>4 DEF Place
    <3> QED
      BY <1>2, <3>1
  <2>6. Found(doc, treatAsHtml, Append(out, e), given, given)
    BY <1>2, <1>4, <1>5, <2>3, PassText
  <2> QED
    BY <1>1, <2>2, <2>4, <2>5, <2>6 DEF Tagged
<1>7. CASE inbuf[pend] \notin {"<", "hi"}
  <2> DEFINE by == SubSeq(inbuf, pcur, Len(inbuf))
             last == Len(inbuf)
             e == PieceOf(inbuf, pcur, given, "text", last, by)
  <2>1. by \in Seq(Symbols) /\ Len(inbuf) \in pcur - 1 .. Len(inbuf)
    BY <1>1, <1>2, RestTypes
  <2>2. /\ out' = Append(out, e) /\ bak' = bak
        /\ UNCHANGED <<doc, given, treatAsHtml, pc, inbuf>>
    BY <1>1, <1>7 DEF TextAtEnd, TextUpTo, PutOut, PieceOf
  <2>3. e \in PieceSet /\ e.kind = "text"
    <3>1. last \in pcur - 1 .. Len(inbuf)
      BY <2>1
    <3> HIDE DEF by, last
    <3> QED
      BY <1>2, <2>1, <3>1, PieceTypes DEF Kinds
  <2> HIDE DEF e
  <2>4. Len(bak') = 0
    BY <1>2, <2>2
  <2>5. Place' = given + 1
    <3>1. Place' = given + (Len(inbuf) + 1) - Len(inbuf) - 0
      BY <1>1, <2>2, <2>4 DEF Place
    <3> QED
      BY <1>2, <3>1
  <2>6. doc[given] = inbuf[pend] /\ given \in 1 .. Len(doc)
    <3>1. /\ Len(inbuf) <= given
          /\ \A i \in 1 .. Len(inbuf) : inbuf[i] = doc[given - Len(inbuf) + i]
      BY <1>2 DEF OnPage, EndsAt
    <3>2. Len(inbuf) \in 1 .. Len(inbuf) /\ given - Len(inbuf) + Len(inbuf) = given
      BY <1>2
    <3>3. inbuf[Len(inbuf)] = doc[given]
      BY <3>1, <3>2
    <3> QED
      BY <1>1, <1>2, <1>5, <3>1, <3>3
  <2>7. given + 1 \notin Second(doc) /\ ~Opens(doc, given)
    BY <1>4, <1>5, <1>7, <2>6, Characters DEF Opens
  <2>8. given + 1 \in Place .. Len(doc) + 1 /\ \A r \in Place .. (given + 1) - 1 : ~Opens(doc, r)
    <3>1. ASSUME NEW r \in Place .. (given + 1) - 1 PROVE ~Opens(doc, r)
      <4>1. r = given \/ r \in Place .. given - 1
        BY <1>2, <1>5
      <4> QED
        BY <1>4, <2>7, <4>1
    <3>2. given + 1 \in Place .. Len(doc) + 1
      BY <1>4, <1>5
    <3> QED
      BY <3>1, <3>2
  <2> DEFINE q == given + 1
  <2>9. Found(doc, treatAsHtml, Append(out, e), q, given)
    <3>1. q \in Place .. Len(doc) + 1 /\ q \notin Second(doc) /\ \A r \in Place .. q - 1 : ~Opens(doc, r)
      BY <2>7, <2>8
    <3> HIDE DEF q
    <3> QED
      BY <1>2, <1>5, <2>3, <3>1, PassText
  <2> QED
    BY <1>1, <2>2, <2>4, <2>5, <2>9 DEF Tagged
<1> QED
  BY <1>6, <1>7
\* A piece that begins with a tag is put out up to where the tag or script ends
\* on the page.
LEMMA TagPutOutTagged ==
    ASSUME Inv, Tagged, TwoByte(doc), InTag, NEW kind \in Kinds, kind # "text",
           NEW last \in TagEnd .. Len(inbuf), NEW by \in Seq(Symbols), PutOut(kind, last, by),
           Goto(last + 1), LastOf(doc, treatAsHtml, Place) = given - Len(inbuf) + last
    PROVE  Tagged'
<1> DEFINE e == PieceOf(inbuf, pcur, given, kind, last, by)
           l == LastOf(doc, treatAsHtml, Place)
<1>1. pc = "loop" /\ pcur < Len(inbuf) /\ pend = Len(inbuf) /\ TagEnd \in pcur + 1 .. Len(inbuf) + 2
  BY InTagBounds
<1>2. /\ inbuf \in Seq(Symbols) /\ Len(inbuf) \in Nat /\ pcur \in 1 .. Len(inbuf) /\ given \in Nat
      /\ bak = <<>> /\ Place = given - Len(inbuf) + pcur /\ out \in Seq(PieceSet)
  BY <1>1, PlaceInLoop
<1>3. /\ out' = Append(out, e) /\ pcur' = last + 1
      /\ UNCHANGED <<doc, given, treatAsHtml, pc, inbuf, bak>>
  BY <1>1 DEF PutOut, Goto, PieceOf
<1>4. last \in Int /\ last <= Len(inbuf) /\ last \in pcur - 1 .. Len(inbuf)
  BY <1>1, <1>2
<1>5. /\ e \in PieceSet /\ e.kind = kind /\ e.at = Place /\ Len(e.of) = last - pcur + 1
  <2> HIDE DEF l
  <2>1. kind \in Kinds /\ by \in Seq(Symbols) /\ last \in pcur - 1 .. Len(inbuf)
    BY <1>4
  <2>2. e \in PieceSet
    BY <1>2, <2>1, PieceTypes
  <2>3. e.kind = kind
    BY <1>2, <2>1, PieceTypes
  <2>4. e.at = given - Len(inbuf) + pcur
    BY <1>2, <2>1, PieceTypes
  <2>5. Len(e.of) = last - pcur + 1
    BY <1>2, <2>1, PieceTypes
  <2> QED
    BY <1>2, <2>2, <2>3, <2>4, <2>5
<1> HIDE DEF e
<1>6. /\ doc \in Seq(Symbols) /\ Len(doc) \in Nat /\ given \in 0 .. Len(doc)
      /\ Found(doc, treatAsHtml, out, Place, given) /\ Place \notin Second(doc)
  BY PlaceOnPage DEF Tagged, Found
<1>7. Place \in 1 .. Len(doc) /\ Opens(doc, Place)
  BY <1>2, <1>6, TagOnPage
<1>8. l <= given /\ Len(e.of) = l - Place + 1
  <2> HIDE DEF l
  <2>1. l = given - Len(inbuf) + last
    BY DEF l
  <2> QED
    BY <1>2, <1>4, <1>5, <2>1
<1>9. Found(doc, treatAsHtml, Append(out, e), l + 1, given)
  <2>1. e.kind # "text"
    BY <1>5
  <2>2. l = LastOf(doc, treatAsHtml, Place)
    OBVIOUS
  <2> HIDE DEF l
  <2> QED
    BY <1>2, <1>5, <1>6, <1>7, <1>8, <2>1, <2>2, PassTag
<1>10. Place' = l + 1
  <2>1. Len(bak) = 0
    BY <1>2
  <2>2. Place' = given + (last + 1) - Len(inbuf) - 0
    BY <1>3, <2>1 DEF Place
  <2>3. l = given - Len(inbuf) + last
    OBVIOUS
  <2> HIDE DEF l
  <2> QED
    BY <1>2, <1>4, <2>2, <2>3
<1> HIDE DEF l
<1>11. Found(doc, treatAsHtml, out, Place, given)'
  BY <1>3, <1>9, <1>10
<1> QED
  BY <1>1, <1>2, <1>3, <1>11 DEF Tagged

\* Where the tag at the place ends, if it is no script.
LEMMA TagAtPlace ==
    ASSUME Inv, Tagged, TwoByte(doc), InTag, TagEnd <= Len(inbuf), ~IsScript
    PROVE  LastOf(doc, treatAsHtml, Place) = given - Len(inbuf) + TagEnd
<1>1. pc = "loop" /\ pcur < Len(inbuf)
  BY InTagBounds
<1>2. Place = given - Len(inbuf) + pcur /\ Place \notin Second(doc)
  BY <1>1, PlaceInLoop DEF Tagged, Found
<1> QED
  BY <1>2, TagOnPage

LEMMA TagWithoutNameTagged == Inv /\ Tagged /\ TwoByte(doc) /\ TagWithoutName => Tagged'
<1> SUFFICES ASSUME Inv, Tagged, TwoByte(doc), TagWithoutName PROVE Tagged'
  OBVIOUS
<1>1. InTag /\ TagEnd <= pend /\ PutOut("noname", TagEnd, text) /\ Goto(TagEnd + 1) /\ ~IsScript
  BY DEF TagWithoutName, IsScript
<1>2. TagEnd <= Len(inbuf) /\ TagEnd \in TagEnd .. Len(inbuf) /\ text \in Seq(Symbols)
  BY <1>1, InTagBounds, LoopTypes DEF Inv, Types
<1>3. LastOf(doc, treatAsHtml, Place) = given - Len(inbuf) + TagEnd
  BY <1>1, <1>2, TagAtPlace
<1> QED
  BY <1>1, <1>2, <1>3, TagPutOutTagged DEF Kinds

LEMMA TagWithoutTextTagged == Tagged /\ TagWithoutText => Tagged'
  BY DEF TagWithoutText, InTag, Tagged, Place

LEMMA TagTagged == Inv /\ Tagged /\ TwoByte(doc) /\ Tag => Tagged'
<1> SUFFICES ASSUME Inv, Tagged, TwoByte(doc), Tag PROVE Tagged'
  OBVIOUS
<1> DEFINE by == SubSeq(inbuf, pcur, TagEnd)
<1>1. InTag /\ TagEnd <= pend /\ PutOut("tag", TagEnd, by) /\ Goto(TagEnd + 1) /\ ~IsScript
  BY DEF Tag
<1>2. TagEnd <= Len(inbuf) /\ TagEnd \in TagEnd .. Len(inbuf)
  BY <1>1, InTagBounds, LoopTypes
<1>3. by \in Seq(Symbols)
  BY <1>1, InTagBounds, LoopTypes, RestTypes
<1>4. LastOf(doc, treatAsHtml, Place) = given - Len(inbuf) + TagEnd
  BY <1>1, <1>2, TagAtPlace
<1> HIDE DEF by
<1> QED
  BY <1>1, <1>2, <1>3, <1>4, TagPutOutTagged DEF Kinds

LEMMA ScriptTagged == Inv /\ Tagged /\ TwoByte(doc) /\ Script => Tagged'
<1> SUFFICES ASSUME Inv, Tagged, TwoByte(doc), Script PROVE Tagged'
  OBVIOUS
<1> DEFINE last == Min(ScriptEnds)
           by == SubSeq(inbuf, pcur, last)
<1>1. /\ InTag /\ TagEnd <= pend /\ IsScript /\ ScriptEnds # {}
      /\ PutOut("script", last, by) /\ Goto(last + 1)
  BY DEF Script
<1>2. /\ TagEnd \in Nat /\ Len(inbuf) \in Nat /\ pend = Len(inbuf) /\ TagEnd <= Len(inbuf)
      /\ pc = "loop" /\ pcur < Len(inbuf)
  BY <1>1, InTagBounds, LoopTypes
<1>3. last \in TagEnd .. Len(inbuf)
  <2>1. ScriptEnds \in SUBSET (TagEnd + 2 .. Len(inbuf) - 1)
    BY <1>2 DEF ScriptEnds
  <2>2. ScriptEnds \in SUBSET Nat
    BY <1>2, <2>1
  <2>3. last \in ScriptEnds
    BY <1>1, <2>2, LeastOfSome
  <2> HIDE DEF last
  <2>4. last \in TagEnd + 2 .. Len(inbuf) - 1
    BY <2>1, <2>3
  <2> QED
    BY <1>2, <2>4
<1>4. by \in Seq(Symbols)
  BY <1>1, <1>3, InTagBounds, LoopTypes, RestTypes
<1>5. Place = given - Len(inbuf) + pcur /\ Place \notin Second(doc)
  BY <1>2, PlaceInLoop DEF Tagged, Found
<1>6. LastOf(doc, treatAsHtml, Place) = given - Len(inbuf) + last
  BY <1>1, <1>2, <1>5, TagOnPage
<1> HIDE DEF last, by
<1> QED
  BY <1>1, <1>3, <1>4, <1>6, TagPutOutTagged DEF Kinds

LEMMA StutterTagged == Tagged /\ UNCHANGED vars => Tagged'
  BY DEF vars, Tagged, Place

LEMMA StepTagged == Inv /\ Tagged /\ TwoByte(doc) /\ [Next]_vars => Tagged'
<1> SUFFICES ASSUME Inv, Tagged, TwoByte(doc), [Next]_vars PROVE Tagged'
  OBVIOUS
<1>1. ASSUME NEW n \in 1 .. Len(doc), Call(n) PROVE Tagged'
  BY <1>1, CallTagged
<1>2. CASE ParseHtml_html
  BY <1>2, DoneTagged, KeepLastTagged, TextBeforeTagTagged, TextAtEndTagged,
     TagWithoutNameTagged, TagWithoutTextTagged, TagTagged, ScriptTagged, KeepTagTagged DEF ParseHtml_html
<1>3. CASE UNCHANGED vars
  BY <1>3, StutterTagged
<1> QED
  BY <1>1, <1>2, <1>3 DEF Next

LEMMA TaggedFinds == Inv /\ Tagged => TagsFound
<1> SUFFICES ASSUME Inv, Tagged PROVE TagsFound
  OBVIOUS
<1> DEFINE F == TagsFrom(doc, treatAsHtml)
           T == TagsOf(out)
<1>1. given \in 0 .. Len(doc) /\ Len(doc) \in Nat /\ doc \in Seq(Symbols) /\ Place \in 1 .. Len(doc) + 2
  BY PlaceOnPage
<1>2. /\ F[1] = T \cup F[Place] /\ \A t \in T : t[2] <= given
      /\ pc = "idle" => \A t \in F[Place] : t[2] >= given
  BY DEF Tagged, Found, Behind
<1>3. TagsPutOut = T /\ TagsOfPage = {t \in F[1] : t[2] <= Len(doc)}
  BY DEF TagsPutOut, TagsOf, TagsOfPage
<1>4. \A t \in F[1] : t[2] \in Nat
  <2>1. 1 \in 1 .. Len(doc) + 2
    BY <1>1
  <2> QED
    BY <1>1, <2>1, TagsBehind
<1> HIDE DEF F, T
<1>5. ASSUME NEW t \in T PROVE t \in TagsOfPage
  BY <1>1, <1>2, <1>3, <1>4
<1>6. ASSUME pc = "idle", NEW t \in TagsOfPage, t[2] < given PROVE t \in T
  <2>1. t \in F[1] /\ t[2] \in Nat
    BY <1>3, <1>4
  <2>2. t \notin F[Place]
    BY <1>1, <1>2, <1>6, <2>1
  <2> QED
    BY <1>2, <2>1, <2>2
<1> QED
  BY <1>3, <1>5, <1>6 DEF TagsFound

\* For pages of two-byte characters: however a page is cut into calls, the tags
\* and scripts handed to ProcessTag and ProcessScript are those of the page
\* looked at whole, and when a call returns only what reaches the last symbol
\* passed in is still held back.
THEOREM TagsAreFound == ASSUME \A d \in Docs : TwoByte(d) PROVE Spec => []TagsFound
<1>1. Init => Tagged
  BY InitTagged
<1>2. Inv => TwoByte(doc)
  BY DEF Inv, Types
<1>3. Inv /\ Tagged /\ [Next]_vars => Tagged'
  BY <1>2, StepTagged
<1>4. Inv /\ Tagged => TagsFound
  BY TaggedFinds
<1> QED
  BY <1>1, <1>3, <1>4, Invariant, PTL DEF Spec
=============================================================================
