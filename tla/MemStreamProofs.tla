--------------------------- MODULE MemStreamProofs ---------------------------
(***************************************************************************)
(* For every page size, every number of pages the pool can provide and     *)
(* every size of the buffers: the counters and positions of a memstream    *)
(* keep their ranges, stay in step with each other, the ring stays within  *)
(* a page of the most it was asked to hold, its links stay one ring        *)
(* through all pages, and what is in the pages is a queue of bytes: the    *)
(* stream implements ByteQueue.                                            *)
(***************************************************************************)
EXTENDS MemStream, SequenceLemmas, SequenceTheorems, TLAPS

\* What the loops keep true besides the three properties.
LoopInv ==
    /\ DataSize = 0 /\ ~Emptied => offset = 0 /\ left = MYPAGESIZE
    /\ pc \in {"grow", "store"} => nsize <= Len(pdata)
    /\ pc = "grow" => peak >= DataSize + nsize
    /\ pc = "store" => nsize <= free

Inv == TypeOK /\ LoopInv /\ CursorsInStep /\ MemoryBound

-----------------------------------------------------------------------------
(* Lemmas about arithmetic, functions and sequences *)

\* Stepping by one page does not change a position within the page.
LEMMA StepByPage ==
    ASSUME NEW P \in Nat \ {0}, NEW a \in Nat, a % P = 0
    PROVE  /\ (a + P) % P = 0
           /\ a >= P => (a - P) % P = 0
           /\ P % P = 0
<1>1. a = P * (a \div P) /\ a \div P \in Int
  BY SMT
<1>2. a + P = P * (a \div P + 1)
  BY <1>1, SMT
<1>3. a - P = P * (a \div P - 1)
  BY <1>1, SMT
<1>4. \A k \in Int : (P * k) % P = 0
  BY SMT
<1> QED
  BY <1>1, <1>2, <1>3, <1>4, SMT

\* Appending one element to a function over 1 .. n.
LEMMA AppendPage ==
    ASSUME NEW S, NEW n \in Nat, NEW f \in [1 .. n -> S], NEW x \in S
    PROVE  /\ Append(f, x) \in [1 .. n + 1 -> S]
           /\ \A i \in 1 .. n : Append(f, x)[i] = f[i]
           /\ Append(f, x)[n + 1] = x
<1>1. f \in Seq(S)
  BY SeqDef
<1>2. Len(f) = n
  BY <1>1, LenProperties
<1>3. Append(f, x) \in Seq(S) /\ Len(Append(f, x)) = n + 1
  BY <1>1, <1>2, AppendProperties
<1>4. Append(f, x) \in [1 .. n + 1 -> S]
  BY <1>3, LenProperties
<1> QED
  BY <1>1, <1>2, <1>4, AppendProperties

-----------------------------------------------------------------------------
(* Lemmas about the states and operators of a memstream *)

\* The sizes are numbers, and a stream that holds a byte, or room for one,
\* has a page at each position.
LEMMA PagesThere ==
    ASSUME TypeOK
    PROVE  /\ total \in Nat /\ free \in Nat /\ DataSize \in 0 .. total
           /\ total > 0 => npages >= 1 /\ head \in Page /\ tail \in Page
<1>1. total \in Nat /\ (total > 0 => npages >= 1)
  BY PageSizeAssumption, BoundAssumption DEF TypeOK, RingOK, SizeOK
<1>2. free \in Nat /\ DataSize \in 0 .. total
  BY <1>1 DEF TypeOK, SizeOK, DataSize
<1>3. npages >= 1 => head \in Page /\ tail \in Page
  BY DEF TypeOK, RingOK, CursorOK, Place
<1> QED
  BY <1>1, <1>2, <1>3

\* What is read from the head page is a sequence of its bytes, it does not
\* reach past the page's end, and reading makes progress.
LEMMA HeadBytesType ==
    ASSUME TypeOK, DataSize > 0
    PROVE  /\ InHead \in 1 .. MYPAGESIZE - offset /\ InHead <= DataSize
           /\ \A n \in 0 .. InHead : HeadBytes(n) \in Seq(Byte \cup {Junk})
<1>1. InHead \in 1 .. MYPAGESIZE - offset /\ InHead <= DataSize
  <2>1. DataSize \in Nat /\ offset \in 0 .. MYPAGESIZE - 1
    BY PagesThere DEF TypeOK, CursorOK, Index
  <2> QED
    BY <2>1, PageSizeAssumption DEF InHead, Min2
<1>2. head \in Page
  BY PagesThere
<1>3. ASSUME NEW n \in 0 .. InHead
      PROVE  HeadBytes(n) \in Seq(Byte \cup {Junk})
  <2>1. \A k \in 1 .. n : offset + k - 1 \in Index
    BY <1>1, PageSizeAssumption DEF TypeOK, CursorOK, Index
  <2>2. \A k \in 1 .. n : mem[head][offset + k - 1] \in Byte \cup {Junk}
    BY <1>2, <2>1 DEF TypeOK, RingOK
  <2>3. HeadBytes(n) \in [1 .. n -> Byte \cup {Junk}]
    BY <2>2 DEF HeadBytes
  <2> QED
    BY <2>3, SeqDef, <1>1
<1> QED
  BY <1>1, <1>3

\* Storing bytes of the caller's buffer keeps the pages full of bytes.
LEMMA StoreType ==
    ASSUME TypeOK, NEW n \in Nat, n <= nsize, nsize <= Len(pdata),
           tail \in Page, Store(n)
    PROVE  mem' \in [Page -> [Index -> Byte \cup {Junk}]]
<1>1. \A j \in 1 .. Len(pdata) : pdata[j] \in Byte
  BY ElementOfSeq DEF TypeOK, CallOK
<1>2. Len(pdata) \in Nat
  BY LenProperties DEF TypeOK, CallOK
<1>3. \A k \in 1 .. n : pdata[Stored + k] \in Byte
  BY <1>1, <1>2 DEF Stored, TypeOK, CallOK
<1> DEFINE new == [i \in Index |->
                    LET k == i - (MYPAGESIZE - left) + 1
                    IN  IF k \in 1 .. n THEN pdata[Stored + k] ELSE mem[tail][i]]
<1>4. new \in [Index -> Byte \cup {Junk}]
  BY <1>3 DEF TypeOK, RingOK
<1>5. mem' = [mem EXCEPT ![tail] = new]
  BY DEF Store
<1> HIDE DEF new
<1> QED
  BY <1>4, <1>5 DEF TypeOK, RingOK

\* The parts of the type invariant a step leaves alone.
LEMMA TypeParts ==
    ASSUME TypeOK
    PROVE  /\ UNCHANGED ring => RingOK'
           /\ npages' = npages =>
                 /\ UNCHANGED cursor => CursorOK'
                 /\ UNCHANGED total /\ free' \in 0 .. total => SizeOK'
           /\ \A op, n, bytes :
                 UNCHANGED <<marked, peak>> /\ Return(op, n, bytes) => CallOK'
<1>1. UNCHANGED ring => RingOK'
  BY DEF TypeOK, RingOK, ring, Page, Index
<1>2. npages' = npages /\ UNCHANGED cursor => CursorOK'
  BY DEF TypeOK, CursorOK, cursor, Place, Page, Index
<1>3. npages' = npages /\ UNCHANGED total /\ free' \in 0 .. total => SizeOK'
  BY DEF TypeOK, SizeOK
<1>4. <<>> \in Seq(Byte) /\ <<>> \in Seq(Byte \cup {Junk})
  BY EmptySeq
<1>5. ASSUME NEW op, NEW n, NEW bytes, UNCHANGED <<marked, peak>>, Return(op, n, bytes)
      PROVE  CallOK'
  BY <1>4, <1>5 DEF TypeOK, CallOK, Return
<1> QED
  BY <1>1, <1>2, <1>3, <1>5

-----------------------------------------------------------------------------
(* The invariant holds initially and every step keeps it *)

LEMMA InvInit == Init => Inv
<1> SUFFICES ASSUME Init PROVE Inv
  OBVIOUS
<1> USE PageSizeAssumption, BoundAssumption
<1>1. CallOK
  BY EmptySeq DEF Init, CallOK
<1>2. RingOK
  BY DEF Init, RingOK, Page
<1>3. CursorOK /\ SizeOK
  BY DEF Init, CursorOK, Place, Index, SizeOK
<1>4. LoopInv /\ MemoryBound
  BY DEF Init, LoopInv, DataSize, MemoryBound
<1>5. CursorsInStep
  BY StepByPage DEF Init, CursorsInStep, DataSize
<1> QED
  BY <1>1, <1>2, <1>3, <1>4, <1>5 DEF Inv, TypeOK

\* The disjuncts of Next, one by one.
LEMMA NextCases ==
    ASSUME [Next]_vars, NEW P,
           \A n \in 0 .. MaxWrite : \A m \in 0 .. n : CallWrite(n, m) => P,
           \A n \in 0 .. MaxRead : CallRead(n) => P,
           Foreach => P, Clear => P,
           GrowFirst => P, GrowAfterTail => P, GrowFails => P, GrowDone => P,
           StoreLast => P, StorePage => P, StoreDone => P,
           LoadLast => P, LoadPage => P, LoadDone => P,
           UNCHANGED vars => P
    PROVE  P
BY DEF Next, Loop

LEMMA TypePreserved == Inv /\ [Next]_vars => TypeOK'
<1> SUFFICES ASSUME Inv, [Next]_vars PROVE RingOK' /\ CursorOK' /\ SizeOK' /\ CallOK'
  BY DEF TypeOK
<1> USE PageSizeAssumption
<1>0. TypeOK /\ LoopInv
  BY DEF Inv
<1>n. /\ total \in Nat /\ free \in 0 .. total /\ DataSize \in 0 .. total
      /\ Len(pdata) \in Nat /\ nsize \in Nat /\ peak \in Nat
      /\ offset \in 0 .. MYPAGESIZE - 1 /\ left \in 1 .. MYPAGESIZE
      /\ npages \in Nat
  BY <1>0, PagesThere, LenProperties, BoundAssumption
     DEF TypeOK, RingOK, SizeOK, CallOK, CursorOK, Index
<1>1. ASSUME NEW n \in 0 .. MaxWrite, NEW m \in 0 .. n, CallWrite(n, m)
      PROVE  RingOK' /\ CursorOK' /\ SizeOK' /\ CallOK'
  <2>1. pdata' \in [1 .. n -> Byte]
    BY <1>1 DEF CallWrite, Byte
  <2>2. pdata' \in Seq(Byte)
    BY <2>1, SeqDef
  <2>3. peak' \in Nat
    BY <1>n, <1>1 DEF CallWrite, Max2
  <2>4. CallOK'
    BY <1>0, <1>1, <2>2, <2>3 DEF CallWrite, TypeOK, CallOK
  <2> QED
    BY <1>0, <1>n, <1>1, <2>4, TypeParts DEF CallWrite, ring, size
<1>2. ASSUME NEW n \in 0 .. MaxRead, CallRead(n)
      PROVE  RingOK' /\ CursorOK' /\ SizeOK' /\ CallOK'
  <2>1. CallOK'
    BY <1>0, <1>2 DEF CallRead, TypeOK, CallOK
  <2> QED
    BY <1>0, <1>n, <1>2, <2>1, TypeParts DEF CallRead, ring, size
<1>f. FreshPage \in [Index -> Byte \cup {Junk}]
  BY DEF FreshPage
<1>3. ASSUME GrowFirst PROVE RingOK' /\ CursorOK' /\ SizeOK' /\ CallOK'
  <2>1. npages \in Nat /\ npages' = npages + 1 /\ npages + 1 <= MaxPages
    BY <1>0, <1>3, BoundAssumption DEF GrowFirst, TypeOK, RingOK, NewPage, Palloc
  <2>2. npages = 0
    BY <1>0, <1>3 DEF GrowFirst, TypeOK, RingOK, CursorOK, Place, Page
  <2>3. mem' \in [1 .. npages + 1 -> [Index -> Byte \cup {Junk}]]
    BY <1>0, <1>3, <1>f, <2>1, AppendPage DEF GrowFirst, TypeOK, RingOK, Page
  <2>4. next \in [1 .. npages -> 1 .. npages + 1]
    BY <1>0, <2>1 DEF TypeOK, RingOK, Page
  <2>5. next' \in [1 .. npages + 1 -> 1 .. npages + 1]
    <3>1. npages + 1 \in 1 .. npages + 1
      BY <2>1
    <3>2. Append(next, npages + 1) \in [1 .. npages + 1 -> 1 .. npages + 1]
      BY <2>1, <2>4, <3>1, AppendPage
    <3> QED
      BY <1>3, <3>2 DEF GrowFirst, NewPage
  <2>6. RingOK'
    BY <2>1, <2>3, <2>5 DEF RingOK, Page, Index
  <2>7. CursorOK' /\ SizeOK'
    BY <1>0, <1>3, <1>n, <2>1, <2>2
       DEF GrowFirst, TypeOK, CursorOK, SizeOK, NewPage, Place, Page, Index
  <2>8. CallOK'
    BY <1>0, <1>3 DEF GrowFirst, TypeOK, CallOK, call
  <2> QED
    BY <2>6, <2>7, <2>8
<1>4. ASSUME GrowAfterTail PROVE RingOK' /\ CursorOK' /\ SizeOK' /\ CallOK'
  <2>1. npages \in Nat /\ npages' = npages + 1 /\ npages + 1 <= MaxPages
    BY <1>0, <1>4, BoundAssumption DEF GrowAfterTail, TypeOK, RingOK, NewPage, Palloc
  <2>2. npages >= 1 /\ head \in Page /\ tail \in Page
    BY <1>0, <1>4, <2>1 DEF GrowAfterTail, TypeOK, CursorOK, Place, Page
  <2>3. next \in [1 .. npages -> 1 .. npages + 1] /\ next[tail] \in 1 .. npages + 1
    BY <1>0, <2>1, <2>2 DEF TypeOK, RingOK, Page
  <2>4. Append(next, next[tail]) \in [1 .. npages + 1 -> 1 .. npages + 1]
    BY <2>1, <2>3, AppendPage
  <2>5. next' \in [1 .. npages + 1 -> 1 .. npages + 1]
    <3>1. npages + 1 \in 1 .. npages + 1
      BY <2>1
    <3>2. next' = [Append(next, next[tail]) EXCEPT ![tail] = npages + 1]
      BY <1>4 DEF GrowAfterTail, NewPage
    <3> QED
      BY <2>4, <3>1, <3>2
  <2>6. ASSUME NEW page \in [Index -> Byte \cup {Junk}], mem' = Append(mem, page)
        PROVE  mem' \in [1 .. npages + 1 -> [Index -> Byte \cup {Junk}]]
    BY <1>0, <2>1, <2>6, AppendPage DEF TypeOK, RingOK, Page
  <2>7. [i \in Index |-> IF i >= offset THEN mem[head][i] ELSE Junk]
            \in [Index -> Byte \cup {Junk}]
    BY <1>0, <2>2 DEF TypeOK, RingOK
  <2>8. mem' \in [1 .. npages + 1 -> [Index -> Byte \cup {Junk}]]
    BY <1>4, <1>f, <2>6, <2>7 DEF GrowAfterTail
  <2>9. RingOK'
    BY <2>1, <2>5, <2>8 DEF RingOK, Page, Index
  <2>10. head' \in 1 .. npages + 1 /\ tail' \in 1 .. npages + 1 /\ bakmb' \in BOOLEAN
    <3>1. head' = head \/ head' = npages + 1
      BY <1>4 DEF GrowAfterTail, NewPage
    <3>2. tail' = tail
      BY <1>4 DEF GrowAfterTail
    <3>3. bakmb' \in BOOLEAN
      BY <1>0, <1>4 DEF GrowAfterTail, TypeOK, CallOK
    <3> QED
      BY <2>1, <2>2, <3>1, <3>2, <3>3 DEF Page
  <2>11. CursorOK'
    BY <1>4, <1>n, <2>1, <2>10 DEF GrowAfterTail, CursorOK, Place, Page, Index
  <2>12. SizeOK'
    BY <1>0, <1>4, <1>n, <2>1 DEF GrowAfterTail, TypeOK, SizeOK
  <2>13. CallOK'
    BY <1>0, <1>4, <2>10 DEF GrowAfterTail, TypeOK, CallOK
  <2> QED
    BY <2>9, <2>11, <2>12, <2>13
<1>5. ASSUME GrowFails \/ StoreDone PROVE RingOK' /\ CursorOK' /\ SizeOK' /\ CallOK'
  BY <1>0, <1>n, <1>5, TypeParts DEF GrowFails, StoreDone, ring, size
<1>6. ASSUME GrowDone PROVE RingOK' /\ CursorOK' /\ SizeOK' /\ CallOK'
  <2>1. CallOK'
    BY <1>0, <1>6 DEF GrowDone, TypeOK, CallOK
  <2> QED
    BY <1>0, <1>n, <1>6, <2>1, TypeParts DEF GrowDone, ring, size
<1>7. ASSUME StoreLast PROVE RingOK' /\ CursorOK' /\ SizeOK' /\ CallOK'
  <2>1. nsize <= free /\ nsize <= Len(pdata) /\ total > 0 /\ tail \in Page
    BY <1>0, <1>n, <1>7, PagesThere DEF StoreLast, LoopInv
  <2>2. mem' \in [Page -> [Index -> Byte \cup {Junk}]]
    BY <1>0, <1>n, <1>7, <2>1, StoreType DEF StoreLast
  <2>3. RingOK'
    BY <1>0, <1>7, <2>2 DEF StoreLast, TypeOK, RingOK, Page, Index
  <2>4. CursorOK'
    BY <1>0, <1>n, <1>7 DEF StoreLast, TypeOK, CursorOK, Place, Page, Index
  <2> QED
    BY <1>0, <1>n, <1>7, <2>1, <2>3, <2>4, TypeParts DEF StoreLast
<1>8. ASSUME StorePage PROVE RingOK' /\ CursorOK' /\ SizeOK' /\ CallOK'
  <2>1. left <= free /\ left <= nsize /\ nsize <= Len(pdata) /\ total > 0 /\ tail \in Page
    BY <1>0, <1>n, <1>8, PagesThere DEF StorePage, LoopInv
  <2>2. mem' \in [Page -> [Index -> Byte \cup {Junk}]]
    BY <1>0, <1>n, <1>8, <2>1, StoreType DEF StorePage
  <2>3. RingOK'
    BY <1>0, <1>8, <2>2 DEF StorePage, TypeOK, RingOK, Page, Index
  <2>4. next[tail] \in Page /\ npages >= 1
    BY <1>0, <1>n, <2>1, PagesThere DEF TypeOK, RingOK
  <2>5. CursorOK'
    <3>1. /\ npages' = npages /\ head' = head /\ tail' = next[tail]
          /\ offset' = offset /\ left' = MYPAGESIZE
      BY <1>8 DEF StorePage
    <3>2. head \in Page
      BY <1>0, <1>n, <2>1, PagesThere
    <3> QED
      BY <1>n, <2>4, <3>1, <3>2 DEF CursorOK, Place, Page, Index
  <2>6. CallOK'
    BY <1>0, <1>n, <1>8, <2>1 DEF StorePage, TypeOK, CallOK
  <2> QED
    BY <1>0, <1>n, <1>8, <2>1, <2>3, <2>5, <2>6, TypeParts DEF StorePage
<1>9. ASSUME LoadLast PROVE RingOK' /\ CursorOK' /\ SizeOK' /\ CallOK'
  <2>1. InHead \in 1 .. MYPAGESIZE - offset /\ InHead <= DataSize
    BY <1>0, <1>9, HeadBytesType DEF LoadLast
  <2>2. free' \in 0 .. total /\ offset' \in 0 .. MYPAGESIZE - 1
    BY <1>n, <1>9, <2>1 DEF LoadLast, DataSize
  <2>3. CursorOK'
    BY <1>0, <1>9, <2>2 DEF LoadLast, TypeOK, CursorOK, ring, Place, Page, Index
  <2> QED
    BY <1>0, <1>9, <2>2, <2>3, TypeParts DEF LoadLast, ring
<1>10. ASSUME LoadPage PROVE RingOK' /\ CursorOK' /\ SizeOK' /\ CallOK'
  <2>1. /\ InHead \in 1 .. MYPAGESIZE - offset /\ InHead <= DataSize
        /\ HeadBytes(InHead) \in Seq(Byte \cup {Junk})
    BY <1>0, <1>10, HeadBytesType DEF LoadPage
  <2>2. pbuff' \in Seq(Byte \cup {Junk})
    BY <1>0, <1>10, <2>1, ConcatProperties DEF LoadPage, TypeOK, CallOK
  <2>3. npages >= 1 /\ next[head] \in Page
    BY <1>0, <1>n, <1>10, PagesThere DEF LoadPage, TypeOK, RingOK
  <2>4. free' \in 0 .. total /\ nsize' \in Nat
    BY <1>n, <1>10, <2>1 DEF LoadPage, DataSize
  <2>5. CursorOK'
    <3>1. /\ npages' = npages /\ head' = next[head] /\ tail' = tail
          /\ offset' = 0 /\ left' = left
      BY <1>10 DEF LoadPage, ring
    <3>2. tail \in Page
      BY <1>0, <1>n, <1>10, PagesThere DEF LoadPage
    <3> QED
      BY <1>n, <2>3, <3>1, <3>2 DEF CursorOK, Place, Page, Index
  <2>6. CallOK'
    BY <1>0, <1>10, <2>2, <2>4 DEF LoadPage, TypeOK, CallOK
  <2> QED
    BY <1>0, <1>10, <2>4, <2>5, <2>6, TypeParts DEF LoadPage, ring
<1>11. ASSUME LoadDone PROVE RingOK' /\ CursorOK' /\ SizeOK' /\ CallOK'
  <2>1. CursorOK'
    BY <1>0, <1>n, <1>11 DEF LoadDone, TypeOK, CursorOK, ring, Place, Page, Index
  <2> QED
    BY <1>0, <1>n, <1>11, <2>1, TypeParts DEF LoadDone, ring, size
<1>12. ASSUME Foreach PROVE RingOK' /\ CursorOK' /\ SizeOK' /\ CallOK'
  <2>1. CASE DataSize = 0
    BY <1>0, <1>n, <1>12, <2>1, TypeParts DEF Foreach, ring, size
  <2>2. CASE DataSize > 0
    <3>1. InHead \in 1 .. MYPAGESIZE - offset /\ InHead <= DataSize
      BY <1>0, <2>2, HeadBytesType
    <3>2. npages >= 1 /\ next[head] \in Page
      BY <1>0, <1>n, <2>2, PagesThere DEF TypeOK, RingOK
    <3>3. free' \in 0 .. total /\ total' = total
      BY <1>n, <1>12, <2>2, <3>1 DEF Foreach, DataSize
    <3>4. CursorOK'
      BY <1>0, <1>n, <1>12, <2>2, <3>2
         DEF Foreach, TypeOK, CursorOK, ring, Place, Page, Index
    <3>5. CallOK'
      BY <1>0, <1>12, <2>2, TypeParts DEF Foreach
    <3> QED
      BY <1>0, <1>12, <3>3, <3>4, <3>5, TypeParts DEF Foreach, ring
  <2> QED
    BY <1>n, <2>1, <2>2
<1>13. ASSUME Clear PROVE RingOK' /\ CursorOK' /\ SizeOK' /\ CallOK'
  <2>1. CursorOK'
    BY <1>0, <1>n, <1>13 DEF Clear, TypeOK, CursorOK, ring, Place, Page, Index
  <2> QED
    BY <1>0, <1>n, <1>13, <2>1, TypeParts DEF Clear, ring
<1>14. ASSUME UNCHANGED vars PROVE RingOK' /\ CursorOK' /\ SizeOK' /\ CallOK'
  <2>1. CallOK'
    BY <1>0, <1>14 DEF vars, call, TypeOK, CallOK
  <2> QED
    BY <1>0, <1>n, <1>14, <2>1, TypeParts DEF vars, ring, size
<1> QED
  BY <1>1, <1>2, <1>3, <1>4, <1>5, <1>6, <1>7, <1>8, <1>9, <1>10, <1>11, <1>12, <1>13,
     <1>14, NextCases

\* The numbers the invariants are about.
LEMMA Numbers ==
    ASSUME TypeOK
    PROVE  /\ total \in Nat /\ free \in 0 .. total /\ DataSize \in 0 .. total
           /\ Len(pdata) \in Nat /\ nsize \in Nat /\ peak \in Nat
           /\ offset \in 0 .. MYPAGESIZE - 1 /\ left \in 1 .. MYPAGESIZE
           /\ DataSize > 0 => InHead \in 1 .. MYPAGESIZE - offset /\ InHead <= DataSize
BY PagesThere, HeadBytesType, LenProperties
   DEF TypeOK, RingOK, SizeOK, CallOK, CursorOK, Index

\* A page is only added when the ring cannot hold what is asked of it.
LEMMA BoundPreserved == Inv /\ [Next]_vars => MemoryBound'
<1> SUFFICES ASSUME Inv, [Next]_vars PROVE MemoryBound'
  OBVIOUS
<1>0. TypeOK /\ LoopInv /\ MemoryBound
  BY DEF Inv
<1>n. total \in Nat /\ free \in Nat /\ nsize \in Nat /\ peak \in Nat
  BY <1>0, Numbers
<1>1. ASSUME GrowFirst \/ GrowAfterTail PROVE MemoryBound'
  <2>1. pc = "grow" /\ free < nsize /\ total' = total + MYPAGESIZE /\ peak' = peak
    BY <1>1 DEF GrowFirst, GrowAfterTail
  <2>2. total < peak
    BY <1>0, <1>n, <2>1 DEF LoopInv, DataSize
  <2> QED
    BY <1>n, <2>1, <2>2, PageSizeAssumption DEF MemoryBound
<1>2. ASSUME NEW n \in 0 .. MaxWrite, NEW m \in 0 .. n, CallWrite(n, m)
      PROVE  MemoryBound'
  <2>1. total' = total /\ peak' = Max2(peak, DataSize + n)
    BY <1>2 DEF CallWrite, size
  <2>2. peak' >= peak /\ peak' \in Nat
    BY <1>n, <1>0, Numbers, <2>1 DEF Max2
  <2> QED
    BY <1>0, <1>n, <2>1, <2>2, PageSizeAssumption DEF MemoryBound
<1>3. ASSUME UNCHANGED <<total, peak>> PROVE MemoryBound'
  BY <1>0, <1>3 DEF MemoryBound
<1> QED
  BY <1>1, <1>2, <1>3, NextCases
     DEF CallRead, Foreach, Clear, GrowFails, GrowDone, StoreLast, StorePage, StoreDone,
         LoadLast, LoadPage, LoadDone, size, vars

LEMMA LoopPreserved == Inv /\ [Next]_vars => LoopInv'
<1> SUFFICES ASSUME Inv, [Next]_vars PROVE LoopInv'
  OBVIOUS
<1>0. TypeOK /\ LoopInv
  BY DEF Inv
<1>n. /\ total \in Nat /\ free \in 0 .. total /\ DataSize \in 0 .. total
      /\ Len(pdata) \in Nat /\ nsize \in Nat /\ peak \in Nat
      /\ offset \in 0 .. MYPAGESIZE - 1 /\ left \in 1 .. MYPAGESIZE
      /\ DataSize > 0 => InHead \in 1 .. MYPAGESIZE - offset /\ InHead <= DataSize
  BY <1>0, Numbers
<1>1. ASSUME NEW n \in 0 .. MaxWrite, NEW m \in 0 .. n, CallWrite(n, m)
      PROVE  LoopInv'
  <2>1. pdata' \in [1 .. n -> Byte]
    BY <1>1 DEF CallWrite, Byte
  <2>2. Len(pdata') = n
    BY <2>1, SeqDef, LenProperties
  <2>3. peak' >= DataSize + n
    BY <1>n, <1>1 DEF CallWrite, Max2
  <2> QED
    BY <1>0, <1>n, <1>1, <2>2, <2>3 DEF CallWrite, LoopInv, DataSize, Emptied, cursor, size
<1>2. ASSUME NEW n \in 0 .. MaxRead, CallRead(n) PROVE LoopInv'
  BY <1>0, <1>2 DEF CallRead, LoopInv, DataSize, Emptied, cursor, size
<1>3. ASSUME GrowFirst PROVE LoopInv'
  BY <1>0, <1>n, <1>3, PageSizeAssumption
     DEF GrowFirst, LoopInv, DataSize, Emptied, call
<1>4. ASSUME GrowAfterTail PROVE LoopInv'
  BY <1>0, <1>n, <1>4, PageSizeAssumption
     DEF GrowAfterTail, LoopInv, DataSize, Emptied
<1>5. ASSUME GrowFails \/ StoreDone PROVE LoopInv'
  BY <1>0, <1>5
     DEF GrowFails, StoreDone, Return, LoopInv, DataSize, Emptied, cursor, size
<1>6. ASSUME GrowDone PROVE LoopInv'
  BY <1>0, <1>n, <1>6 DEF GrowDone, LoopInv, DataSize, Emptied, cursor, size
<1>7. ASSUME StoreLast PROVE LoopInv'
  BY <1>0, <1>n, <1>7 DEF StoreLast, Return, LoopInv, DataSize, Emptied
<1>8. ASSUME StorePage PROVE LoopInv'
  BY <1>0, <1>n, <1>8 DEF StorePage, LoopInv, DataSize, Emptied
<1>9. ASSUME LoadLast PROVE LoopInv'
  BY <1>0, <1>n, <1>9 DEF LoadLast, Return, LoopInv, DataSize, Emptied
<1>10. ASSUME LoadPage PROVE LoopInv'
  BY <1>0, <1>n, <1>10 DEF LoadPage, LoopInv, DataSize, Emptied
<1>11. ASSUME LoadDone PROVE LoopInv'
  BY <1>0, <1>n, <1>11 DEF LoadDone, Return, LoopInv, DataSize, Emptied, size
<1>12. ASSUME Foreach PROVE LoopInv'
  BY <1>0, <1>n, <1>12 DEF Foreach, Return, LoopInv, DataSize, Emptied, cursor, size
<1>13. ASSUME Clear PROVE LoopInv'
  BY <1>13 DEF Clear, Return, LoopInv
<1>14. ASSUME UNCHANGED vars PROVE LoopInv'
  BY <1>0, <1>14 DEF vars, cursor, size, call, LoopInv, DataSize, Emptied
<1> QED
  BY <1>1, <1>2, <1>3, <1>4, <1>5, <1>6, <1>7, <1>8, <1>9, <1>10, <1>11, <1>12, <1>13,
     <1>14, NextCases

\* The distance between the reader and the end of the writer's page only ever
\* changes by whole pages.
LEMMA StepPreserved == Inv /\ [Next]_vars => CursorsInStep'
<1> SUFFICES ASSUME Inv, [Next]_vars, ~Emptied'
             PROVE  (offset + DataSize + left)' % MYPAGESIZE = 0
  BY DEF CursorsInStep
<1> DEFINE Span == offset + DataSize + left
<1>0. TypeOK /\ LoopInv /\ CursorsInStep
  BY DEF Inv
<1>n. /\ total \in Nat /\ free \in 0 .. total /\ DataSize \in 0 .. total
      /\ Len(pdata) \in Nat /\ nsize \in Nat
      /\ offset \in 0 .. MYPAGESIZE - 1 /\ left \in 1 .. MYPAGESIZE
      /\ DataSize > 0 => InHead \in 1 .. MYPAGESIZE - offset /\ InHead <= DataSize
  BY <1>0, Numbers
<1>p. Span \in Nat /\ MYPAGESIZE \in Nat \ {0}
  BY <1>n, PageSizeAssumption
<1>a. ~Emptied => Span % MYPAGESIZE = 0
  BY <1>0 DEF CursorsInStep
<1>s. ASSUME ~Emptied, Span' = Span \/ Span' = Span + MYPAGESIZE
             \/ (Span >= MYPAGESIZE /\ Span' = Span - MYPAGESIZE)
      PROVE  Span' % MYPAGESIZE = 0
  BY <1>p, <1>a, <1>s, StepByPage
<1>z. Span' = MYPAGESIZE => Span' % MYPAGESIZE = 0
  BY <1>p, StepByPage
<1>1. ASSUME NEW n \in 0 .. MaxWrite, NEW m \in 0 .. n, CallWrite(n, m)
      PROVE  Span' % MYPAGESIZE = 0
  BY <1>s, <1>1 DEF CallWrite, Emptied, DataSize, cursor, size
<1>2. ASSUME NEW n \in 0 .. MaxRead, CallRead(n) PROVE Span' % MYPAGESIZE = 0
  BY <1>s, <1>2 DEF CallRead, Emptied, DataSize, cursor, size
<1>3. ASSUME GrowFirst PROVE Span' % MYPAGESIZE = 0
  <2>1. tail = 0 /\ total = 0
    BY <1>0, <1>3, PageSizeAssumption, BoundAssumption
       DEF GrowFirst, TypeOK, RingOK, CursorOK, SizeOK, Place, Page
  <2>2. offset = 0
    BY <1>0, <1>n, <1>3, <2>1 DEF GrowFirst, LoopInv, DataSize, Emptied
  <2>3. Span' = MYPAGESIZE
    BY <1>n, <1>p, <1>3, <2>1, <2>2 DEF GrowFirst, DataSize
  <2> QED
    BY <2>3, <1>z
<1>4. ASSUME GrowAfterTail PROVE Span' % MYPAGESIZE = 0
  <2>1. Span' = Span /\ ~Emptied
    BY <1>n, <1>p, <1>4 DEF GrowAfterTail, DataSize, Emptied
  <2> QED
    BY <2>1, <1>s
<1>5. ASSUME GrowFails \/ GrowDone \/ StoreDone PROVE Span' % MYPAGESIZE = 0
  BY <1>s, <1>5 DEF GrowFails, GrowDone, StoreDone, Emptied, DataSize, cursor, size
<1>6. ASSUME StoreLast PROVE Span' % MYPAGESIZE = 0
  <2>1. Span' = Span /\ ~Emptied
    BY <1>n, <1>6 DEF StoreLast, DataSize, Emptied
  <2> QED
    BY <2>1, <1>s
<1>7. ASSUME StorePage PROVE Span' % MYPAGESIZE = 0
  <2>1. Span' = Span + MYPAGESIZE /\ ~Emptied
    BY <1>n, <1>p, <1>7 DEF StorePage, DataSize, Emptied
  <2> QED
    BY <2>1, <1>s
<1>8. ASSUME LoadLast PROVE Span' % MYPAGESIZE = 0
  <2>1. Span' = Span /\ ~Emptied
    BY <1>n, <1>8 DEF LoadLast, DataSize, Emptied
  <2> QED
    BY <2>1, <1>s
<1>9. ASSUME LoadPage PROVE Span' % MYPAGESIZE = 0
  <2>1. DataSize' = DataSize - InHead /\ left' = left /\ offset' = 0 /\ ~Emptied
    BY <1>n, <1>9 DEF LoadPage, DataSize, Emptied
  <2>2. DataSize > InHead
    BY <1>n, <1>9, <2>1 DEF LoadPage, Emptied
  <2>3. InHead = MYPAGESIZE - offset
    BY <1>n, <1>p, <2>2 DEF InHead, Min2
  <2>4. Span >= MYPAGESIZE /\ Span' = Span - MYPAGESIZE
    BY <1>n, <1>p, <2>1, <2>2, <2>3
  <2> QED
    BY <2>1, <2>4, <1>s
<1>10. ASSUME LoadDone PROVE Span' % MYPAGESIZE = 0
  <2>1. CASE DataSize = 0
    <3>1. Span' = MYPAGESIZE
      BY <1>n, <1>p, <1>10, <2>1 DEF LoadDone, DataSize, size
    <3> QED
      BY <3>1, <1>z
  <2>2. CASE DataSize # 0
    BY <1>s, <1>10, <2>2 DEF LoadDone, DataSize, Emptied, size
  <2> QED
    BY <2>1, <2>2
<1>11. ASSUME Foreach PROVE Span' % MYPAGESIZE = 0
  <2>1. pc = "idle" /\ ~Emptied
    BY <1>11 DEF Foreach, Emptied
  <2>2. CASE DataSize = 0
    BY <1>n, <1>s, <1>11, <2>1, <2>2 DEF Foreach, DataSize, cursor, size
  <2>3. CASE DataSize > 0 /\ total = free + InHead
    <3>1. free' = free + InHead /\ total' = total /\ offset' = 0 /\ left' = MYPAGESIZE
      BY <1>n, <1>11, <2>3 DEF Foreach
    <3>2. free' = total'
      BY <2>3, <3>1
    <3>3. DataSize' = 0
      BY <1>n, <3>1, <3>2 DEF DataSize
    <3>4. Span' = MYPAGESIZE
      BY <1>p, <3>1, <3>3
    <3> QED
      BY <3>4, <1>z
  <2>4. CASE DataSize > 0 /\ total # free + InHead
    <3>1. DataSize' = DataSize - InHead /\ left' = left /\ offset' = 0
      BY <1>n, <1>11, <2>4 DEF Foreach, DataSize
    <3>2. InHead = MYPAGESIZE - offset
      BY <1>n, <1>p, <2>4 DEF InHead, Min2, DataSize
    <3>3. Span >= MYPAGESIZE /\ Span' = Span - MYPAGESIZE
      BY <1>n, <1>p, <2>4, <3>1, <3>2
    <3> QED
      BY <2>1, <3>3, <1>s
  <2> QED
    BY <1>n, <2>2, <2>3, <2>4
<1>12. ASSUME Clear PROVE Span' % MYPAGESIZE = 0
  <2>1. Span' = MYPAGESIZE
    BY <1>n, <1>p, <1>12 DEF Clear, DataSize
  <2> QED
    BY <2>1, <1>z
<1>13. ASSUME UNCHANGED vars PROVE Span' % MYPAGESIZE = 0
  BY <1>s, <1>13 DEF vars, cursor, size, call, DataSize, Emptied
<1> QED
  BY <1>1, <1>2, <1>3, <1>4, <1>5, <1>6, <1>7, <1>8, <1>9, <1>10, <1>11, <1>12, <1>13,
     NextCases

LEMMA InvAlways == Spec => []Inv
<1>1. Inv /\ [Next]_vars => Inv'
  BY TypePreserved, BoundPreserved, LoopPreserved, StepPreserved DEF Inv
<1> QED
  BY InvInit, <1>1, PTL DEF Spec

-----------------------------------------------------------------------------
(* Numbers of pages and places in them *)

\* A longer row of pages has more bytes.
LEMMA PagesMonotone ==
    ASSUME NEW P \in Nat, NEW a \in Int, NEW b \in Int, a <= b
    PROVE  a * P <= b * P
<1>1. b - a \in Nat /\ b * P = a * P + (b - a) * P
  BY SMT
<1>2. (b - a) * P \in Nat
  BY <1>1, SMT
<1> QED
  BY <1>1, <1>2, SMT

\* A position is a page and a place in it, and determined by them.
LEMMA PageAndPlace ==
    ASSUME NEW P \in Nat \ {0}, NEW a \in Nat
    PROVE  /\ a \div P \in Nat /\ a % P \in 0 .. P - 1
           /\ a = (a \div P) * P + (a % P)
  BY SMT

LEMMA PositionIs ==
    ASSUME NEW P \in Nat \ {0}, NEW k \in Nat, NEW i \in 0 .. P - 1
    PROVE  /\ k * P + i \in Nat
           /\ (k * P + i) \div P = k /\ (k * P + i) % P = i
<1> DEFINE a == k * P + i
           q == a \div P
           m == a % P
<1>1. a \in Nat
  BY SMT
<1>2. q \in Nat /\ m \in 0 .. P - 1 /\ a = q * P + m
  BY <1>1, PageAndPlace
<1>3. a = k * P + i
  OBVIOUS
<1> HIDE DEF a, q, m
<1>4. ASSUME q < k PROVE FALSE
  <2>1. (q + 1) * P <= k * P
    BY <1>2, <1>4, PagesMonotone
  <2>2. (q + 1) * P = q * P + P
    BY <1>2, SMT
  <2>3. q * P \in Int /\ k * P \in Int
    BY <1>2, SMT
  <2> QED
    BY <1>2, <1>3, <2>1, <2>2, <2>3
<1>5. ASSUME k < q PROVE FALSE
  <2>1. (k + 1) * P <= q * P
    BY <1>2, <1>5, PagesMonotone
  <2>2. (k + 1) * P = k * P + P
    BY SMT
  <2>3. q * P \in Int /\ k * P \in Int
    BY <1>2, SMT
  <2> QED
    BY <1>2, <1>3, <2>1, <2>2, <2>3
<1>6. q = k
  BY <1>2, <1>4, <1>5
<1>7. k * P \in Int
  BY SMT
<1>8. m = i
  BY <1>2, <1>3, <1>6, <1>7
<1> QED
  BY <1>1, <1>6, <1>8 DEF a, q, m

-----------------------------------------------------------------------------
(* Rings of pages *)

\* Following the links nx from page h meets the pages r[0], r[1], ... one after
\* the other: each of the n pages once, and then h again.
IsRing(r, n, h, nx) ==
    /\ n \in Nat \ {0}
    /\ r \in [0 .. n -> 1 .. n]
    /\ r[0] = h /\ r[n] = h
    /\ \A k \in 0 .. n - 1 : nx[r[k]] = r[k + 1]
    /\ \A j, k \in 0 .. n - 1 : r[j] = r[k] => j = k
    /\ \A p \in 1 .. n : \E k \in 0 .. n - 1 : r[k] = p

\* The ring with a new page linked after its j-th page, and the ring as seen
\* from its second page.
Inserted(r, n, j) == [k \in 0 .. n + 1 |-> IF k <= j THEN r[k]
                                           ELSE IF k = j + 1 THEN n + 1 ELSE r[k - 1]]
Turned(r, n) == [k \in 0 .. n |-> IF k = n THEN r[1] ELSE r[k + 1]]

\* Each of n pages has a link.
AreLinks(nx, n) == \E S : nx \in [1 .. n -> S]

\* The links after page n + 1 was linked behind page p.
IsLinked(m, nx, n, p) == m = [Append(nx, nx[p]) EXCEPT ![p] = n + 1]

\* What was linked where.
LEMMA LinkPage ==
    ASSUME NEW n \in Nat, NEW nx, AreLinks(nx, n), NEW p \in 1 .. n, NEW m,
           IsLinked(m, nx, n, p)
    PROVE  /\ m[n + 1] = nx[p] /\ m[p] = n + 1
           /\ \A q \in 1 .. n : q # p => m[q] = nx[q]
<1>1. PICK S : nx \in [1 .. n -> S]
  BY DEF AreLinks
<1>2. PICK t \in S : t = nx[p]
  BY <1>1
<1> DEFINE new == Append(nx, t)
<1>4. /\ new \in [1 .. n + 1 -> S]
      /\ \A i \in 1 .. n : new[i] = nx[i]
      /\ new[n + 1] = t
  <2>1. new \in [1 .. n + 1 -> S]
    BY <1>1, AppendPage
  <2>2. \A i \in 1 .. n : new[i] = nx[i]
    BY <1>1, AppendPage
  <2>3. new[n + 1] = t
    BY <1>1, AppendPage
  <2> QED
    BY <2>1, <2>2, <2>3
<1>5. m = [new EXCEPT ![p] = n + 1]
  BY <1>2 DEF IsLinked
<1> HIDE DEF new
<1>6. DOMAIN new = 1 .. n + 1 /\ n + 1 # p /\ n + 1 \in 1 .. n + 1
  BY <1>4
<1>7. m[p] = n + 1 /\ m[n + 1] = new[n + 1]
  BY <1>5, <1>6
<1>8. ASSUME NEW q \in 1 .. n, q # p PROVE m[q] = nx[q]
  BY <1>4, <1>5, <1>6, <1>8
<1> QED
  BY <1>2, <1>4, <1>7, <1>8

\* Linking a page makes a larger ring.
LEMMA RingInsert ==
    ASSUME NEW r, NEW n, NEW h, NEW nx, IsRing(r, n, h, nx), AreLinks(nx, n),
           NEW j \in 0 .. n - 1, NEW m, IsLinked(m, nx, n, r[j])
    PROVE  IsRing(Inserted(r, n, j), n + 1, h, m)
<1>0. n \in Nat \ {0} /\ r \in [0 .. n -> 1 .. n] /\ r[0] = h /\ r[n] = h
  BY DEF IsRing
<1>L. \A k \in 0 .. n - 1 : nx[r[k]] = r[k + 1]
  BY DEF IsRing
<1>I. \A i, k \in 0 .. n - 1 : r[i] = r[k] => i = k
  BY DEF IsRing
<1>S. \A p \in 1 .. n : \E k \in 0 .. n - 1 : r[k] = p
  BY DEF IsRing
<1> DEFINE s == Inserted(r, n, j)
<1>1. /\ \A k \in 0 .. j : s[k] = r[k]
      /\ s[j + 1] = n + 1
      /\ \A k \in j + 2 .. n + 1 : s[k] = r[k - 1]
  BY <1>0 DEF Inserted
<1>2. s \in [0 .. n + 1 -> 1 .. n + 1]
  <2>1. ASSUME NEW k \in 0 .. n + 1
        PROVE  (IF k <= j THEN r[k] ELSE IF k = j + 1 THEN n + 1 ELSE r[k - 1]) \in 1 .. n + 1
    <3>1. CASE k <= j
      BY <1>0, <3>1
    <3>2. CASE k = j + 1
      BY <1>0, <3>2
    <3>3. CASE k > j + 1
      <4>1. k - 1 \in 0 .. n
        BY <1>0, <3>3
      <4>2. r[k - 1] \in 1 .. n
        BY <1>0, <4>1
      <4> QED
        BY <1>0, <3>3, <4>2
    <3> QED
      BY <1>0, <3>1, <3>2, <3>3
  <2> QED
    BY <2>1 DEF Inserted
<1>3. /\ m[n + 1] = nx[r[j]] /\ m[r[j]] = n + 1
      /\ \A p \in 1 .. n : p # r[j] => m[p] = nx[p]
  <2>0. r[j] \in 1 .. n
    BY <1>0
  <2> QED
    BY <1>0, <2>0, LinkPage
<1> HIDE DEF s
<1>4. s[0] = h /\ s[n + 1] = h
  <2>1. s[0] = r[0]
    BY <1>1
  <2>2. CASE j = n - 1
    <3>1. j + 1 = n /\ n \in 0 .. n
      BY <1>0, <2>2
    <3>2. n + 1 \in j + 2 .. n + 1 /\ (n + 1) - 1 = n
      BY <1>0, <2>2
    <3> QED
      BY <1>0, <1>1, <2>1, <3>2
  <2>3. CASE j < n - 1
    <3>1. n + 1 \in j + 2 .. n + 1 /\ (n + 1) - 1 = n
      BY <1>0, <2>3
    <3> QED
      BY <1>0, <1>1, <2>1, <3>1
  <2> QED
    BY <1>0, <2>2, <2>3
<1>5. ASSUME NEW k \in 0 .. n
      PROVE  m[s[k]] = s[k + 1]
  <2>1. CASE k < j
    <3>0. k \in 0 .. j /\ k + 1 \in 0 .. j /\ k \in 0 .. n - 1
      BY <1>0, <2>1
    <3>1. s[k] = r[k] /\ s[k + 1] = r[k + 1] /\ k \in 0 .. n - 1
      BY <1>1, <3>0
    <3>2. r[k] # r[j] /\ r[k] \in 1 .. n
      BY <1>0, <1>I, <2>1, <3>1
    <3>3. nx[r[k]] = r[k + 1]
      BY <1>L, <3>1
    <3> QED
      BY <1>3, <3>1, <3>2, <3>3
  <2>2. CASE k = j
    BY <1>1, <1>3, <2>2
  <2>3. CASE k = j + 1
    <3>1. s[k + 1] = r[j + 1]
      <4>1. k + 1 \in j + 2 .. n + 1 /\ (k + 1) - 1 = j + 1
        BY <1>0, <2>3
      <4> QED
        BY <1>1, <4>1
    <3>2. s[k] = n + 1 /\ nx[r[j]] = r[j + 1]
      BY <1>1, <1>L, <2>3
    <3> QED
      BY <1>3, <3>1, <3>2
  <2>4. CASE k > j + 1
    <3>1. /\ k \in j + 2 .. n + 1 /\ k + 1 \in j + 2 .. n + 1 /\ (k + 1) - 1 = (k - 1) + 1
          /\ k - 1 \in 0 .. n - 1 /\ k - 1 # j
      BY <1>0, <2>4
    <3>2. s[k] = r[k - 1] /\ s[k + 1] = r[(k - 1) + 1]
      BY <1>1, <3>1
    <3>3. r[k - 1] # r[j] /\ r[k - 1] \in 1 .. n
      BY <1>0, <1>I, <3>1
    <3>4. nx[r[k - 1]] = r[(k - 1) + 1]
      BY <1>L, <3>1
    <3> QED
      BY <1>3, <3>2, <3>3, <3>4
  <2> QED
    BY <1>0, <2>1, <2>2, <2>3, <2>4
\* Where a page of the old ring is in the new one.
<1> DEFINE old(k) == IF k <= j THEN k ELSE k - 1
<1>6. ASSUME NEW k \in 0 .. n, k # j + 1
      PROVE  s[k] = r[old(k)] /\ old(k) \in 0 .. n - 1
  <2>1. CASE k <= j
    <3>1. k \in 0 .. j /\ k \in 0 .. n - 1
      BY <1>0, <2>1
    <3> QED
      BY <1>1, <2>1, <3>1
  <2>2. CASE k > j
    <3>1. k \in j + 2 .. n + 1 /\ k - 1 \in 0 .. n - 1 /\ ~(k <= j)
      BY <1>0, <1>6, <2>2
    <3> QED
      BY <1>1, <3>1
  <2> QED
    BY <1>0, <2>1, <2>2
<1>T. ASSUME NEW k \in 0 .. n, k # j + 1
      PROVE  s[k] \in 1 .. n
  <2>1. s[k] = r[old(k)] /\ old(k) \in 0 .. n - 1
    BY <1>6, <1>T
  <2> HIDE DEF old
  <2>2. old(k) \in 0 .. n
    BY <1>0, <2>1
  <2> QED
    BY <1>0, <2>1, <2>2
<1>7. ASSUME NEW i \in 0 .. n, NEW k \in 0 .. n, s[i] = s[k]
      PROVE  i = k
  <2>1. CASE i = j + 1 /\ k # j + 1
    <3>1. s[k] \in 1 .. n
      BY <1>T, <2>1
    <3>2. s[i] = n + 1
      BY <1>1, <2>1
    <3> QED
      BY <1>0, <1>7, <3>1, <3>2
  <2>2. CASE i # j + 1 /\ k = j + 1
    <3>1. s[i] \in 1 .. n
      BY <1>T, <2>2
    <3>2. s[k] = n + 1
      BY <1>1, <2>2
    <3> QED
      BY <1>0, <1>7, <3>1, <3>2
  <2>3. CASE i # j + 1 /\ k # j + 1
    <3>1. old(i) = old(k)
      <4>1. s[i] = r[old(i)] /\ old(i) \in 0 .. n - 1 /\ s[k] = r[old(k)] /\ old(k) \in 0 .. n - 1
        BY <1>6, <2>3
      <4> HIDE DEF old
      <4> QED
        BY <1>I, <1>7, <4>1
    <3> QED
      BY <2>3, <3>1
  <2> QED
    BY <2>1, <2>2, <2>3
<1>8. ASSUME NEW p \in 1 .. n + 1
      PROVE  \E k \in 0 .. n : s[k] = p
  <2>1. CASE p = n + 1
    BY <1>0, <1>1, <2>1
  <2>2. CASE p \in 1 .. n
    <3>1. PICK k \in 0 .. n - 1 : r[k] = p
      BY <1>S, <2>2
    <3>2. CASE k <= j
      <4>1. k \in 0 .. j /\ k \in 0 .. n
        BY <1>0, <3>2
      <4> QED
        BY <1>1, <3>1, <4>1
    <3>3. CASE k > j
      <4>1. k + 1 \in j + 2 .. n + 1 /\ (k + 1) - 1 = k /\ k + 1 \in 0 .. n
        BY <1>0, <3>3
      <4> QED
        BY <1>1, <3>1, <4>1
    <3> QED
      BY <3>2, <3>3
  <2> QED
    BY <1>0, <2>1, <2>2
<1>9. (n + 1) - 1 = n /\ n + 1 \in Nat \ {0}
  BY <1>0
<1> QED
  BY <1>2, <1>4, <1>5, <1>7, <1>8, <1>9 DEF IsRing, s

\* A ring is one from wherever it is looked at.
LEMMA RingTurn ==
    ASSUME NEW r, NEW n, NEW h, NEW nx, IsRing(r, n, h, nx)
    PROVE  /\ IsRing(Turned(r, n), n, nx[h], nx)
           /\ \A k \in 0 .. n - 1 : Turned(r, n)[k] = r[k + 1]
<1>0. n \in Nat \ {0} /\ r \in [0 .. n -> 1 .. n] /\ r[0] = h /\ r[n] = h
  BY DEF IsRing
<1>L. \A k \in 0 .. n - 1 : nx[r[k]] = r[k + 1]
  BY DEF IsRing
<1>I. \A i, k \in 0 .. n - 1 : r[i] = r[k] => i = k
  BY DEF IsRing
<1>S. \A p \in 1 .. n : \E k \in 0 .. n - 1 : r[k] = p
  BY DEF IsRing
<1> DEFINE s == Turned(r, n)
<1>1. (\A k \in 0 .. n - 1 : s[k] = r[k + 1]) /\ s[n] = r[1]
  BY <1>0 DEF Turned
<1>2. s \in [0 .. n -> 1 .. n]
  BY <1>0 DEF Turned
<1>3. nx[h] = r[1]
  <2>1. 0 \in 0 .. n - 1 /\ 0 + 1 = 1
    BY <1>0
  <2> QED
    BY <1>0, <1>L, <2>1
<1> HIDE DEF s
<1>4. s[0] = nx[h] /\ s[n] = nx[h]
  <2>1. 0 \in 0 .. n - 1 /\ 0 + 1 = 1
    BY <1>0
  <2> QED
    BY <1>1, <1>3, <2>1
<1>5. ASSUME NEW k \in 0 .. n - 1
      PROVE  nx[s[k]] = s[k + 1]
  <2>1. CASE k = n - 1
    <3>1. s[k] = r[n] /\ s[k + 1] = r[1]
      BY <1>0, <1>1, <2>1
    <3> QED
      BY <1>0, <1>3, <3>1
  <2>2. CASE k < n - 1
    <3>1. k + 1 \in 0 .. n - 1
      BY <1>0, <2>2
    <3>2. s[k] = r[k + 1] /\ s[k + 1] = r[(k + 1) + 1]
      BY <1>1, <3>1
    <3> QED
      BY <1>L, <3>1, <3>2
  <2> QED
    BY <1>0, <2>1, <2>2
<1>6. ASSUME NEW i \in 0 .. n - 1, NEW k \in 0 .. n - 1, s[i] = s[k]
      PROVE  i = k
  <2>1. r[i + 1] = r[k + 1]
    BY <1>1, <1>6
  <2>2. CASE i = n - 1
    <3>1. r[k + 1] = r[0] /\ 0 \in 0 .. n - 1
      BY <1>0, <2>1, <2>2
    <3>2. ~(k + 1 \in 0 .. n - 1)
      BY <1>I, <3>1
    <3> QED
      BY <1>0, <2>2, <3>2
  <2>3. CASE k = n - 1
    <3>1. r[i + 1] = r[0] /\ 0 \in 0 .. n - 1
      BY <1>0, <2>1, <2>3
    <3>2. ~(i + 1 \in 0 .. n - 1)
      BY <1>I, <3>1
    <3> QED
      BY <1>0, <2>3, <3>2
  <2>4. CASE i # n - 1 /\ k # n - 1
    <3>1. i + 1 \in 0 .. n - 1 /\ k + 1 \in 0 .. n - 1
      BY <1>0, <2>4
    <3>2. i + 1 = k + 1
      BY <1>I, <2>1, <3>1
    <3> QED
      BY <3>2
  <2> QED
    BY <2>2, <2>3, <2>4
<1>7. ASSUME NEW p \in 1 .. n
      PROVE  \E k \in 0 .. n - 1 : s[k] = p
  <2>1. PICK k \in 0 .. n - 1 : r[k] = p
    BY <1>S
  <2>2. CASE k = 0
    <3>1. n - 1 \in 0 .. n - 1 /\ s[n - 1] = r[n]
      BY <1>0, <1>1
    <3> QED
      BY <1>0, <2>1, <2>2, <3>1
  <2>3. CASE k # 0
    <3>1. k - 1 \in 0 .. n - 1 /\ (k - 1) + 1 = k
      BY <1>0, <2>3
    <3> QED
      BY <1>1, <2>1, <3>1
  <2> QED
    BY <2>2, <2>3
<1> QED
  BY <1>0, <1>1, <1>2, <1>4, <1>5, <1>6, <1>7 DEF IsRing, s

\* The pages ahead of h, the recursion of PageAhead.
IsWalk(f, n, h, nx) == f = [k \in 0 .. n |-> IF k = 0 THEN h ELSE nx[f[k - 1]]]

\* On a ring that recursion has the ring as its only solution.
LEMMA WalkIsRing ==
    ASSUME NEW r, NEW n, NEW h, NEW nx, IsRing(r, n, h, nx)
    PROVE  (CHOOSE f : IsWalk(f, n, h, nx)) = r
<1>0. n \in Nat \ {0} /\ r \in [0 .. n -> 1 .. n] /\ r[0] = h
  BY DEF IsRing
<1>L. \A k \in 0 .. n - 1 : nx[r[k]] = r[k + 1]
  BY DEF IsRing
<1>1. IsWalk(r, n, h, nx)
  <2>1. ASSUME NEW k \in 0 .. n
        PROVE  r[k] = IF k = 0 THEN h ELSE nx[r[k - 1]]
    <3>1. CASE k = 0
      BY <1>0, <3>1
    <3>2. CASE k # 0
      <4>1. k - 1 \in 0 .. n - 1 /\ (k - 1) + 1 = k
        BY <1>0, <3>2
      <4> QED
        BY <1>L, <3>2, <4>1
    <3> QED
      BY <3>1, <3>2
  <2> QED
    BY <1>0, <2>1 DEF IsWalk
<1>2. ASSUME NEW f, IsWalk(f, n, h, nx)
      PROVE  f = r
  <2> DEFINE T == {k \in Nat : k <= n => f[k] = r[k]}
  <2>1. /\ \A k \in 0 .. n : f[k] = IF k = 0 THEN h ELSE nx[f[k - 1]]
        /\ f = [k \in 0 .. n |-> f[k]]
    BY <1>2 DEF IsWalk
  <2>2. 0 \in T
    BY <1>0, <2>1
  <2>3. ASSUME NEW k \in T
        PROVE  k + 1 \in T
    <3>1. SUFFICES ASSUME k + 1 <= n PROVE f[k + 1] = r[k + 1]
      OBVIOUS
    <3>2. k + 1 \in 0 .. n /\ (k + 1) - 1 = k /\ k + 1 # 0 /\ k \in 0 .. n - 1
      BY <1>0, <3>1
    <3>3. f[k] = r[k]
      BY <1>0, <3>1, <3>2
    <3>4. f[k + 1] = nx[f[k]]
      BY <2>1, <3>2
    <3> QED
      BY <1>L, <3>2, <3>3, <3>4
  <2>4. T \in SUBSET Nat
    OBVIOUS
  <2> HIDE DEF T
  <2>5. T = Nat
    BY <2>2, <2>3, <2>4, AllNumbers
  <2>6. ASSUME NEW k \in 0 .. n PROVE f[k] = r[k]
    <3>1. k \in T /\ k <= n
      BY <1>0, <2>5
    <3> QED
      BY <3>1 DEF T
  <2> QED
    BY <1>0, <2>1, <2>6
<1> QED
  BY <1>1, <1>2

LEMMA PageAheadIs ==
    ASSUME NEW r, IsRing(r, npages, head, next)
    PROVE  PageAhead = r
<1>1. PageAhead = CHOOSE f : IsWalk(f, npages, head, next)
  BY DEF PageAhead, IsWalk
<1> QED
  BY <1>1, WalkIsRing

\* PageAhead is the ring, if there is one, in this state and the next.
OnlyRing == \A r : IsRing(r, npages, head, next) => PageAhead = r

LEMMA WalkThere == OnlyRing
BY PageAheadIs DEF OnlyRing

LEMMA WalkThereNext == OnlyRing'
BY WalkThere, PTL

-----------------------------------------------------------------------------
(* Where the data ends *)

\* Moving on by a page, and within one.
LEMMA MovedOn ==
    ASSUME NEW P \in Nat \ {0}, NEW a \in Nat
    PROVE  /\ (a + P) \div P = a \div P + 1 /\ (a + P) % P = a % P
           /\ a >= P => a \div P >= 1 /\ (a - P) \div P = a \div P - 1
           /\ \A j \in Nat : (a % P) + j < P => (a + j) \div P = a \div P /\ (a + j) % P = (a % P) + j
<1> DEFINE q == a \div P
           m == a % P
<1>0. q \in Nat /\ m \in 0 .. P - 1 /\ a = q * P + m
  BY PageAndPlace
<1> HIDE DEF q, m
<1>1. q \in Nat /\ m \in 0 .. P - 1 /\ a = q * P + m /\ q * P \in Nat
  BY <1>0, SMT
<1>2. (a + P) \div P = q + 1 /\ (a + P) % P = m
  <2>1. (q + 1) * P = q * P + P
    BY <1>1, SMT
  <2>2. a + P = (q + 1) * P + m
    BY <1>1, <2>1
  <2> QED
    BY <1>1, <2>2, PositionIs
<1>3. ASSUME a >= P PROVE q >= 1 /\ (a - P) \div P = q - 1
  <2>1. q # 0
    <3>1. q = 0 => q * P = 0
      BY SMT
    <3> QED
      BY <1>1, <1>3, <3>1
  <2>2. q - 1 \in Nat /\ (q - 1) * P = q * P - P
    BY <1>1, <2>1, SMT
  <2>3. a - P = (q - 1) * P + m
    BY <1>1, <2>2
  <2> QED
    BY <1>1, <2>1, <2>2, <2>3, PositionIs
<1>4. ASSUME NEW j \in Nat, m + j < P PROVE (a + j) \div P = q /\ (a + j) % P = m + j
  <2>1. a + j = q * P + (m + j) /\ m + j \in 0 .. P - 1
    BY <1>1, <1>4
  <2> QED
    BY <1>1, <2>1, PositionIs
<1> QED
  BY <1>2, <1>3, <1>4 DEF q, m

\* Data that ends at position a, l bytes before the end of a page, ends in one of
\* n pages, or in the first of them again.
EndsIn(P, n, a, l) ==
    /\ a \div P \in 0 .. n
    /\ a + l = (a \div P) * P + P /\ (a % P) + l = P

\* The data of a ring of n pages that ends l bytes before the end of a page.
LEMMA EndIs ==
    ASSUME NEW P \in Nat \ {0}, NEW n \in Nat, NEW a \in Nat, a < n * P + P,
           NEW l \in 1 .. P, (a + l) % P = 0
    PROVE  EndsIn(P, n, a, l)
<1> DEFINE q == a \div P
           m == a % P
<1>0. q \in Nat /\ m \in 0 .. P - 1 /\ a = q * P + m
  BY PageAndPlace
<1> HIDE DEF q, m
<1>1. q \in Nat /\ m \in 0 .. P - 1 /\ a = q * P + m /\ q * P \in Nat /\ n * P \in Nat
  BY <1>0, SMT
<1>2. q <= n
  <2>1. SUFFICES ASSUME n + 1 <= q PROVE FALSE
    BY <1>1
  <2>2. (n + 1) * P <= q * P /\ (n + 1) * P = n * P + P
    BY <1>1, <2>1, PagesMonotone, SMT
  <2> QED
    BY <1>1, <2>2
<1>3. m + l = P
  <2>1. ASSUME m + l < P PROVE FALSE
    <3>1. a + l = q * P + (m + l) /\ m + l \in 1 .. P - 1 /\ m + l \in 0 .. P - 1
      BY <1>1, <2>1
    <3>2. (a + l) % P = m + l
      BY <1>1, <3>1, PositionIs
    <3> QED
      BY <3>1, <3>2
  <2>2. ASSUME m + l > P PROVE FALSE
    <3>1. (q + 1) * P = q * P + P
      BY <1>1, SMT
    <3>2. /\ a + l = (q + 1) * P + (m + l - P)
          /\ m + l - P \in 1 .. P - 1 /\ m + l - P \in 0 .. P - 1
      BY <1>1, <2>2, <3>1
    <3>3. (a + l) % P = m + l - P
      BY <1>1, <3>2, PositionIs
    <3> QED
      BY <3>2, <3>3
  <2> QED
    BY <1>1, <2>1, <2>2
<1>4. a + l = q * P + P
  BY <1>1, <1>3
<1> QED
  BY <1>1, <1>2, <1>3, <1>4 DEF q, m, EndsIn

\* The page the data ends in, counted from the head page.
EndPage == (offset + DataSize) \div MYPAGESIZE

\* The pages form a ring, the writer stands in the page the data ends in, and
\* a call that has moved the head page has made room in front of it.
RingInv ==
    /\ npages > 0 => IsRing(PageAhead, npages, head, next)
    /\ npages > 0 /\ ~Emptied => PageAhead[EndPage] = tail
    /\ bakmb => pc \in {"grow", "store"}
    /\ pc = "grow" /\ bakmb => EndPage < npages

\* What the positions say about the end of the data.
LEMMA EndOfData ==
    ASSUME Inv, ~Emptied
    PROVE  /\ offset + DataSize \in Nat /\ EndPage \in 0 .. npages
           /\ offset + DataSize + left = EndPage * MYPAGESIZE + MYPAGESIZE
           /\ ((offset + DataSize) % MYPAGESIZE) + left = MYPAGESIZE
<1>1. /\ npages \in Nat /\ total = npages * MYPAGESIZE /\ DataSize \in 0 .. total
      /\ offset \in 0 .. MYPAGESIZE - 1 /\ left \in 1 .. MYPAGESIZE
      /\ MYPAGESIZE \in Nat \ {0} /\ total \in Nat
  BY Numbers, BoundAssumption, PageSizeAssumption DEF Inv, TypeOK, RingOK, SizeOK
<1> DEFINE a == offset + DataSize
<1>2. a \in Nat /\ a < npages * MYPAGESIZE + MYPAGESIZE
  BY <1>1
<1>3. (a + left) % MYPAGESIZE = 0
  BY DEF Inv, CursorsInStep
<1> HIDE DEF a
<1>4. EndsIn(MYPAGESIZE, npages, a, left)
  BY <1>1, <1>2, <1>3, EndIs
<1> QED
  BY <1>2, <1>4 DEF a, EndPage, EndsIn

\* The data is in one page twice exactly when it ends in the last page of the
\* ring, which is the head page again.
LEMMA WrapIs ==
    ASSUME Inv, RingInv, npages > 0, ~Emptied
    PROVE  WrapsInOnePage <=> EndPage = npages
<1>1. /\ npages \in Nat /\ total = npages * MYPAGESIZE /\ total \in Nat /\ free \in Nat
      /\ offset \in Nat /\ left \in Nat /\ MYPAGESIZE \in Nat \ {0}
      /\ DataSize = total - free
  BY Numbers, BoundAssumption, PageSizeAssumption
     DEF Inv, TypeOK, RingOK, SizeOK, DataSize
<1>2. /\ EndPage \in Nat
      /\ offset + DataSize + left = EndPage * MYPAGESIZE + MYPAGESIZE
  BY <1>1, EndOfData
<1>3. PageAhead[EndPage] = tail /\ PageAhead[npages] = head
  BY DEF RingInv, IsRing
<1>4. left - free = MYPAGESIZE - offset <=> EndPage * MYPAGESIZE = total
  <2>1. EndPage * MYPAGESIZE \in Int
    BY <1>1, <1>2, SMT
  <2> QED
    BY <1>1, <1>2, <2>1
<1>5. EndPage * MYPAGESIZE = npages * MYPAGESIZE <=> EndPage = npages
  <2>1. ASSUME EndPage < npages, EndPage * MYPAGESIZE = npages * MYPAGESIZE PROVE FALSE
    <3>1. (EndPage + 1) * MYPAGESIZE <= npages * MYPAGESIZE
      BY <1>1, <1>2, <2>1, PagesMonotone
    <3>2. (EndPage + 1) * MYPAGESIZE = EndPage * MYPAGESIZE + MYPAGESIZE
      BY <1>1, <1>2, SMT
    <3> QED
      BY <1>1, <2>1, <3>1, <3>2
  <2>2. ASSUME npages < EndPage, EndPage * MYPAGESIZE = npages * MYPAGESIZE PROVE FALSE
    <3>1. (npages + 1) * MYPAGESIZE <= EndPage * MYPAGESIZE
      BY <1>1, <1>2, <2>2, PagesMonotone
    <3>2. (npages + 1) * MYPAGESIZE = npages * MYPAGESIZE + MYPAGESIZE
      BY <1>1, <1>2, SMT
    <3> QED
      BY <1>1, <2>2, <3>1, <3>2
  <2> QED
    BY <1>1, <1>2, <2>1, <2>2
<1> QED
  BY <1>1, <1>3, <1>4, <1>5 DEF WrapsInOnePage

LEMMA RingInit == Init => RingInv
BY DEF Init, RingInv

\* Pages and links that do not change make the same ring, seen from the same
\* page or from the next.
LEMMA SameRing ==
    ASSUME RingInv, npages > 0, npages \in Nat, UNCHANGED <<npages, next>>
    PROVE  /\ head' = head => /\ IsRing(PageAhead, npages, head, next)'
                              /\ PageAhead' = PageAhead
           /\ head' = next[head] => /\ IsRing(PageAhead, npages, head, next)'
                                    /\ PageAhead' = Turned(PageAhead, npages)
                                    /\ \A k \in 0 .. npages - 1 : PageAhead'[k] = PageAhead[k + 1]
<1>1. IsRing(PageAhead, npages, head, next)
  BY DEF RingInv
<1>2. \A r : IsRing(r, npages', head', next') => PageAhead' = r
  BY WalkThereNext DEF OnlyRing
<1>3. ASSUME head' = head
      PROVE  IsRing(PageAhead, npages, head, next)' /\ PageAhead' = PageAhead
  <2>1. PageAhead' = PageAhead
    BY <1>1, <1>2, <1>3
  <2> QED
    BY <1>1, <1>3, <2>1
<1>4. ASSUME head' = next[head]
      PROVE  /\ IsRing(PageAhead, npages, head, next)'
             /\ PageAhead' = Turned(PageAhead, npages)
             /\ \A k \in 0 .. npages - 1 : PageAhead'[k] = PageAhead[k + 1]
  <2>1. /\ IsRing(Turned(PageAhead, npages), npages, next[head], next)
        /\ \A k \in 0 .. npages - 1 : Turned(PageAhead, npages)[k] = PageAhead[k + 1]
    BY <1>1, RingTurn
  <2>2. PageAhead' = Turned(PageAhead, npages)
    BY <1>2, <1>4, <2>1
  <2> QED
    BY <1>4, <2>1, <2>2
<1> QED
  BY <1>3, <1>4

\* Linking a page behind the tail page, with the head page moved to it or not.
LEMMA LargerRing ==
    ASSUME Inv, RingInv, GrowAfterTail
    PROVE  /\ IsRing(PageAhead, npages, head, next)'
           /\ npages > 0 /\ npages' = npages + 1 /\ ~Emptied
           /\ EndPage = npages =>
                 /\ ~bakmb /\ head' = NewPage
                 /\ PageAhead'[0] = NewPage
                 /\ \A k \in 1 .. npages : PageAhead'[k] = PageAhead[k]
           /\ EndPage < npages =>
                 /\ head' = head
                 /\ \A k \in 0 .. EndPage : PageAhead'[k] = PageAhead[k]
<1>0. npages \in Nat /\ RingOK /\ CursorOK
  BY BoundAssumption DEF Inv, TypeOK, RingOK
<1>1. npages > 0 /\ npages' = npages + 1 /\ NewPage = npages + 1 /\ ~Emptied
  <2>1. npages # 0
    BY <1>0 DEF GrowAfterTail, CursorOK, Place
  <2> QED
    BY <1>0, <2>1 DEF GrowAfterTail, NewPage, Emptied
<1>2. IsRing(PageAhead, npages, head, next) /\ PageAhead[EndPage] = tail
  BY <1>1 DEF RingInv
<1>3. EndPage \in 0 .. npages
  BY <1>1, EndOfData
<1>4. WrapsInOnePage <=> EndPage = npages
  BY <1>1, WrapIs
<1>5. \A r : IsRing(r, npages', head', next') => PageAhead' = r
  BY WalkThereNext DEF OnlyRing
<1>6. AreLinks(next, npages)
  BY <1>0 DEF RingOK, AreLinks, Page
<1>7. next' = [Append(next, next[tail]) EXCEPT ![tail] = npages + 1]
  BY <1>1 DEF GrowAfterTail
<1> DEFINE r == PageAhead
           n == npages
<1>8. CASE EndPage = npages
  <2>1. r[0] = tail /\ 0 \in 0 .. n - 1 /\ r[0] = head
    BY <1>0, <1>1, <1>2, <1>8 DEF IsRing
  <2>2. ~bakmb
    BY <1>0, <1>8 DEF RingInv, GrowAfterTail
  <2>3. head' = n + 1
    BY <1>1, <1>4, <1>8, <2>2 DEF GrowAfterTail
  <2> DEFINE s == Inserted(r, n, 0)
  <2>4. IsLinked(next', next, n, r[0])
    BY <1>7, <2>1 DEF IsLinked
  <2>5. IsRing(s, n + 1, head, next')
    BY <1>2, <1>6, <2>1, <2>4, RingInsert
  <2>6. s[1] = n + 1 /\ \A k \in 2 .. n + 1 : s[k] = r[k - 1]
    BY <1>0, <1>1 DEF Inserted
  <2> HIDE DEF s, r, n
  <2>7. next'[head] = n + 1
    <3>1. s[0] = head /\ next'[s[0]] = s[0 + 1]
      <4>1. 0 \in 0 .. (n + 1) - 1
        BY <1>0 DEF n
      <4> QED
        BY <2>5, <4>1 DEF IsRing
    <3> QED
      BY <2>6, <3>1
  <2> DEFINE t == Turned(s, n + 1)
  <2>8. IsRing(t, n + 1, n + 1, next') /\ \A k \in 0 .. (n + 1) - 1 : t[k] = s[k + 1]
    BY <2>5, <2>7, RingTurn
  <2> HIDE DEF t
  <2>9. PageAhead' = t
    BY <1>1, <1>5, <2>3, <2>8 DEF n
  <2>10. t[0] = n + 1
    <3>1. 0 \in 0 .. (n + 1) - 1 /\ 0 + 1 = 1
      BY <1>0 DEF n
    <3> QED
      BY <2>6, <2>8, <3>1
  <2>11. ASSUME NEW k \in 1 .. n PROVE t[k] = r[k]
    <3>1. k \in 0 .. (n + 1) - 1 /\ k + 1 \in 2 .. n + 1 /\ (k + 1) - 1 = k
      BY <1>0 DEF n
    <3> QED
      BY <2>6, <2>8, <3>1
  <2>12. IsRing(PageAhead, npages, head, next)'
    BY <1>1, <2>3, <2>8, <2>9 DEF n
  <2> QED
    BY <1>0, <1>1, <1>8, <2>2, <2>3, <2>9, <2>10, <2>11, <2>12 DEF n, r
<1>9. CASE EndPage < npages
  <2> DEFINE j == EndPage
  <2>1. r[j] = tail /\ j \in 0 .. n - 1
    BY <1>0, <1>2, <1>3, <1>9
  <2>2. head' = head
    BY <1>0, <1>4, <1>9 DEF GrowAfterTail
  <2> DEFINE s == Inserted(r, n, j)
  <2>3. IsLinked(next', next, n, r[j])
    BY <1>7, <2>1 DEF IsLinked
  <2> HIDE DEF j
  <2>4. IsRing(s, n + 1, head, next')
    BY <1>2, <1>6, <2>1, <2>3, RingInsert
  <2>5. \A k \in 0 .. j : s[k] = r[k]
    BY <1>0, <2>1 DEF Inserted
  <2> HIDE DEF s, r, n
  <2>6. PageAhead' = s
    BY <1>1, <1>5, <2>2, <2>4 DEF n
  <2>7. IsRing(PageAhead, npages, head, next)'
    BY <1>1, <2>2, <2>4, <2>6 DEF n
  <2> QED
    BY <1>0, <1>1, <1>9, <2>2, <2>5, <2>6, <2>7 DEF j, r
<1> QED
  BY <1>0, <1>3, <1>8, <1>9

\* The first page is a ring of its own.
LEMMA FirstRing ==
    ASSUME Inv, GrowFirst
    PROVE  /\ npages = 0 /\ npages' = 1 /\ offset = 0 /\ DataSize = 0 /\ total = 0
           /\ IsRing(PageAhead, npages, head, next)'
           /\ PageAhead'[0] = 1
<1>1. npages = 0 /\ total = 0
  BY PageSizeAssumption, BoundAssumption
     DEF Inv, GrowFirst, TypeOK, RingOK, CursorOK, SizeOK, Place, Page
<1>2. DataSize = 0
  BY <1>1, Numbers DEF Inv
<1>3. offset = 0
  BY <1>2 DEF Inv, GrowFirst, LoopInv, Emptied
<1>4. npages' = 1 /\ head' = 1
  BY <1>1 DEF GrowFirst, NewPage
<1>5. next'[1] = 1
  <2>1. next \in [1 .. 0 -> Nat]
    BY <1>1 DEF Inv, TypeOK, RingOK, Page
  <2>2. Append(next, 1)[0 + 1] = 1
    BY <2>1, AppendPage
  <2> QED
    BY <1>1, <2>2 DEF GrowFirst, NewPage
<1> DEFINE r == [k \in 0 .. 1 |-> 1]
<1>6. IsRing(r, 1, 1, next')
  BY <1>5 DEF IsRing
<1>7. \A q : IsRing(q, npages', head', next') => PageAhead' = q
  BY WalkThereNext DEF OnlyRing
<1>8. PageAhead' = r
  BY <1>4, <1>6, <1>7
<1> QED
  BY <1>1, <1>2, <1>3, <1>4, <1>6, <1>8

LEMMA RingPreserved == Inv /\ RingInv /\ [Next]_vars => RingInv'
<1> SUFFICES ASSUME Inv, RingInv, [Next]_vars PROVE RingInv'
  OBVIOUS
<1>n. /\ total \in Nat /\ free \in 0 .. total /\ DataSize \in 0 .. total
      /\ Len(pdata) \in Nat /\ nsize \in Nat
      /\ offset \in 0 .. MYPAGESIZE - 1 /\ left \in 1 .. MYPAGESIZE
      /\ DataSize > 0 => InHead \in 1 .. MYPAGESIZE - offset /\ InHead <= DataSize
      /\ npages \in Nat /\ MYPAGESIZE \in Nat \ {0}
      /\ total > 0 => npages > 0
  BY Numbers, PagesThere, PageSizeAssumption, BoundAssumption DEF Inv, TypeOK, RingOK
<1>d. DataSize' = total' - free'
  BY DEF DataSize
\* Nothing moves.
<1>1. ASSUME UNCHANGED <<ring, cursor, size>>, Emptied => Emptied',
             bakmb' => pc' \in {"grow", "store"} /\ (pc' = "grow" => pc = "grow" /\ bakmb)
      PROVE  RingInv'
  <2>1. UNCHANGED <<npages, next, head, tail, offset>> /\ DataSize' = DataSize
    BY <1>1 DEF ring, cursor, size, DataSize
  <2>2. EndPage' = EndPage
    BY <2>1 DEF EndPage
  <2>3. npages > 0 => IsRing(PageAhead, npages, head, next)' /\ PageAhead' = PageAhead
    BY <1>n, <2>1, SameRing
  <2> QED
    BY <1>1, <2>1, <2>2, <2>3 DEF RingInv
<1>2. ASSUME NEW n \in 0 .. MaxWrite, NEW m \in 0 .. n, CallWrite(n, m) PROVE RingInv'
  <2>1. ~Emptied /\ ~bakmb /\ bakmb' = bakmb /\ UNCHANGED <<ring, cursor, size>>
    BY <1>2 DEF CallWrite, Emptied, RingInv
  <2> QED
    BY <1>1, <2>1
<1>3. ASSUME NEW n \in 0 .. MaxRead, CallRead(n) PROVE RingInv'
  <2>1. ~Emptied /\ ~bakmb /\ bakmb' = bakmb /\ UNCHANGED <<ring, cursor, size>>
    BY <1>3 DEF CallRead, Emptied, RingInv
  <2> QED
    BY <1>1, <2>1
<1>4. ASSUME GrowFirst PROVE RingInv'
  <2>1. /\ npages = 0 /\ npages' = 1 /\ offset = 0 /\ DataSize = 0
        /\ IsRing(PageAhead, npages, head, next)' /\ PageAhead'[0] = 1
    BY <1>4, FirstRing
  <2>2. offset' = 0 /\ DataSize' = 0 /\ tail' = 1 /\ bakmb' = bakmb /\ pc' = pc
    BY <1>n, <1>4, <2>1 DEF GrowFirst, DataSize, NewPage, call
  <2>3. EndPage' = 0
    <3>1. 0 \div MYPAGESIZE = 0
      BY <1>n, PositionIs, SMT
    <3> QED
      BY <2>2, <3>1 DEF EndPage
  <2> QED
    BY <2>1, <2>2, <2>3 DEF RingInv
<1>5. ASSUME GrowAfterTail PROVE RingInv'
  <2>1. /\ IsRing(PageAhead, npages, head, next)'
        /\ npages > 0 /\ npages' = npages + 1 /\ ~Emptied
        /\ EndPage = npages =>
              \A k \in 1 .. npages : PageAhead'[k] = PageAhead[k]
        /\ EndPage < npages =>
              \A k \in 0 .. EndPage : PageAhead'[k] = PageAhead[k]
    BY <1>5, LargerRing
  <2>2. EndPage \in 0 .. npages
    BY <2>1, EndOfData
  <2>3. offset' = offset /\ DataSize' = DataSize /\ tail' = tail /\ pc' = "grow"
    BY <1>n, <1>5 DEF GrowAfterTail, DataSize
  <2>4. EndPage' = EndPage
    BY <2>3 DEF EndPage
  <2>5. PageAhead'[EndPage] = PageAhead[EndPage]
    BY <1>n, <2>1, <2>2
  <2>6. PageAhead[EndPage] = tail
    BY <2>1 DEF RingInv
  <2>7. EndPage' < npages'
    BY <1>n, <2>1, <2>2, <2>4
  <2> QED
    BY <2>1, <2>3, <2>4, <2>5, <2>6, <2>7 DEF RingInv
<1>6. ASSUME GrowFails \/ StoreDone PROVE RingInv'
  <2>1. ~Emptied /\ bakmb' = FALSE /\ UNCHANGED <<ring, cursor, size>>
    BY <1>6 DEF GrowFails, StoreDone, Return, Emptied
  <2> QED
    BY <1>1, <2>1
<1>7. ASSUME GrowDone PROVE RingInv'
  <2>1. ~Emptied /\ pc' = "store" /\ UNCHANGED <<ring, cursor, size>>
    BY <1>7 DEF GrowDone, Emptied
  <2> QED
    BY <1>1, <2>1
<1>8. ASSUME StoreLast PROVE RingInv'
  <2>1. /\ ~Emptied /\ nsize < left /\ npages > 0
        /\ UNCHANGED <<npages, next, head, tail, offset>>
        /\ DataSize' = DataSize + nsize /\ bakmb' = FALSE
    <3>1. nsize <= free
      BY <1>8 DEF Inv, LoopInv, StoreLast
    <3> QED
      BY <1>n, <1>8, <3>1 DEF StoreLast, Emptied, Return, DataSize
  <2>2. EndPage' = EndPage
    <3> DEFINE a == offset + DataSize
    <3>1. a \in Nat /\ (a % MYPAGESIZE) + left = MYPAGESIZE
      BY <2>1, EndOfData
    <3>2. offset' + DataSize' = a + nsize
      BY <1>n, <2>1
    <3> HIDE DEF a
    <3>3. a % MYPAGESIZE \in Nat /\ (a % MYPAGESIZE) + nsize < MYPAGESIZE
      BY <1>n, <2>1, <3>1, PageAndPlace
    <3>4. (a + nsize) \div MYPAGESIZE = a \div MYPAGESIZE
      BY <1>n, <3>1, <3>3, MovedOn
    <3> QED
      BY <3>2, <3>4 DEF EndPage, a
  <2>3. IsRing(PageAhead, npages, head, next)' /\ PageAhead' = PageAhead
    BY <1>n, <2>1, SameRing
  <2> QED
    BY <2>1, <2>2, <2>3 DEF RingInv
<1>9. ASSUME StorePage PROVE RingInv'
  <2>1. left <= free /\ total > 0
    <3>1. nsize <= free /\ nsize > 0 /\ left <= nsize
      BY <1>9 DEF Inv, LoopInv, StorePage
    <3> QED
      BY <1>n, <3>1
  <2>2. /\ ~Emptied /\ npages > 0
        /\ UNCHANGED <<npages, next, head, offset, pc, bakmb>>
        /\ DataSize' = DataSize + left /\ tail' = next[tail] /\ pc = "store"
    BY <1>n, <1>9, <2>1 DEF StorePage, Emptied, DataSize
  <2>3. /\ offset + DataSize + left = EndPage * MYPAGESIZE + MYPAGESIZE
        /\ EndPage \in 0 .. npages
    BY <2>2, EndOfData
  <2>4. EndPage' = EndPage + 1
    <3>1. (EndPage + 1) * MYPAGESIZE = EndPage * MYPAGESIZE + MYPAGESIZE
      BY <1>n, <2>3, SMT
    <3>2. offset' + DataSize' = (EndPage + 1) * MYPAGESIZE + 0
      BY <1>n, <2>2, <2>3, <3>1
    <3> DEFINE e == EndPage + 1
    <3>3. e \in Nat
      BY <2>3
    <3> HIDE DEF e
    <3>4. (e * MYPAGESIZE + 0) \div MYPAGESIZE = e
      BY <1>n, <3>3, PositionIs
    <3> QED
      BY <3>2, <3>4 DEF EndPage, e
  <2>5. EndPage < npages
    <3>1. SUFFICES ASSUME EndPage = npages PROVE FALSE
      BY <1>n, <2>3
    <3>2. total = npages * MYPAGESIZE
      BY DEF Inv, TypeOK, SizeOK
    <3>3. DataSize + left <= total
      BY <1>n, <2>1 DEF DataSize
    <3>4. offset + DataSize + left = total + MYPAGESIZE
      BY <2>3, <3>1, <3>2
    <3> QED
      BY <1>n, <3>3, <3>4
  <2>6. IsRing(PageAhead, npages, head, next)' /\ PageAhead' = PageAhead
    BY <1>n, <2>2, SameRing
  <2>7. PageAhead[EndPage] = tail
    BY <2>2 DEF RingInv
  <2>8. next[PageAhead[EndPage]] = PageAhead[EndPage + 1]
    <3>1. IsRing(PageAhead, npages, head, next) /\ EndPage \in 0 .. npages - 1
      BY <1>n, <2>2, <2>3, <2>5 DEF RingInv
    <3> QED
      BY <3>1 DEF IsRing
  <2> QED
    BY <2>2, <2>4, <2>6, <2>7, <2>8 DEF RingInv
<1>10. ASSUME LoadLast PROVE RingInv'
  <2>1. /\ ~Emptied /\ npages > 0
        /\ UNCHANGED <<npages, next, head, tail>>
        /\ offset' + DataSize' = offset + DataSize /\ bakmb' = FALSE
    BY <1>n, <1>10 DEF LoadLast, ring, Emptied, Return, DataSize
  <2>2. EndPage' = EndPage
    BY <2>1 DEF EndPage
  <2>3. IsRing(PageAhead, npages, head, next)' /\ PageAhead' = PageAhead
    BY <1>n, <2>1, SameRing
  <2> QED
    BY <2>1, <2>2, <2>3 DEF RingInv
\* The head page is used up and there is data behind it.
<1>11. ASSUME ~Emptied, DataSize > InHead, InHead > 0, npages > 0,
              DataSize > 0, offset' = 0, DataSize' = DataSize - InHead,
              head' = next[head], UNCHANGED <<npages, next, tail, pc, bakmb>>, pc # "grow"
       PROVE  RingInv'
  <2>1. InHead = MYPAGESIZE - offset
    BY <1>n, <1>11 DEF InHead, Min2
  <2>2. EndPage >= 1 /\ EndPage' = EndPage - 1
    <3> DEFINE a == offset + DataSize
    <3>1. a \in Nat /\ a >= MYPAGESIZE /\ offset' + DataSize' = a - MYPAGESIZE
      BY <1>n, <1>11, <2>1
    <3> HIDE DEF a
    <3>2. a \div MYPAGESIZE >= 1 /\ (a - MYPAGESIZE) \div MYPAGESIZE = a \div MYPAGESIZE - 1
      BY <1>n, <3>1, MovedOn
    <3> QED
      BY <3>1, <3>2 DEF EndPage, a
  <2>3. EndPage \in 0 .. npages /\ EndPage - 1 \in 0 .. npages - 1
    BY <1>n, <1>11, <2>2, EndOfData
  <2>4. /\ IsRing(PageAhead, npages, head, next)'
        /\ \A k \in 0 .. npages - 1 : PageAhead'[k] = PageAhead[k + 1]
    BY <1>n, <1>11, SameRing
  <2>5. PageAhead'[EndPage - 1] = PageAhead[EndPage]
    <3>1. (EndPage - 1) + 1 = EndPage
      BY <2>3
    <3> QED
      BY <2>3, <2>4, <3>1
  <2>6. PageAhead[EndPage] = tail
    BY <1>11 DEF RingInv
  <2> QED
    BY <1>11, <2>2, <2>4, <2>5, <2>6 DEF RingInv
\* What there was to read has been read.
<1>12. ASSUME npages > 0, DataSize' = 0, head' = head \/ head' = next[head],
              ~Emptied' => offset' = 0 /\ tail' = head',
              UNCHANGED <<npages, next>>, ~bakmb'
       PROVE  RingInv'
  <2>1. IsRing(PageAhead, npages, head, next)'
    BY <1>n, <1>12, SameRing
  <2>2. PageAhead'[0] = head'
    BY <2>1 DEF IsRing
  <2>3. offset' = 0 => EndPage' = 0
    <3>1. 0 \div MYPAGESIZE = 0
      BY <1>n, SMT
    <3> QED
      BY <1>12, <3>1 DEF EndPage
  <2> QED
    BY <1>12, <2>1, <2>2, <2>3 DEF RingInv
<1>13. ASSUME LoadPage PROVE RingInv'
  <2>1. /\ npages > 0 /\ UNCHANGED <<npages, next, tail, pc, bakmb>> /\ head' = next[head]
        /\ offset' = 0 /\ DataSize' = DataSize - InHead /\ pc = "load" /\ ~Emptied
        /\ DataSize > 0 /\ InHead > 0 /\ InHead <= DataSize
    BY <1>n, <1>13 DEF LoadPage, ring, DataSize, Emptied
  <2>2. ~bakmb'
    BY <2>1 DEF RingInv
  <2>3. CASE DataSize > InHead
    BY <1>11, <2>1, <2>3
  <2>4. CASE DataSize = InHead
    <3>1. DataSize' = 0
      BY <1>n, <2>1, <2>4
    <3>2. Emptied'
      BY <2>1, <3>1 DEF Emptied
    <3> QED
      BY <1>12, <2>1, <2>2, <3>1, <3>2
  <2> QED
    BY <1>n, <2>1, <2>3, <2>4
<1>14. ASSUME LoadDone PROVE RingInv'
  <2>1. UNCHANGED <<npages, next, head>> /\ bakmb' = FALSE /\ DataSize' = DataSize /\ ~Emptied'
    BY <1>14 DEF LoadDone, ring, size, Return, DataSize, Emptied
  <2>2. CASE DataSize = 0
    <3>1. CASE npages > 0
      BY <1>12, <1>14, <2>1, <2>2, <3>1 DEF LoadDone
    <3>2. CASE npages = 0
      BY <2>1, <3>2 DEF RingInv
    <3> QED
      BY <1>n, <3>1, <3>2
  <2>3. CASE DataSize # 0
    <3>1. UNCHANGED <<ring, cursor, size>> /\ ~Emptied
      BY <1>14, <2>3 DEF LoadDone, Emptied, cursor, ring, size
    <3> QED
      BY <1>1, <2>1, <3>1
  <2> QED
    BY <2>2, <2>3
<1>15. ASSUME Foreach PROVE RingInv'
  <2>1. UNCHANGED <<npages, next>> /\ bakmb' = FALSE /\ ~Emptied /\ ~Emptied' /\ ~bakmb
    BY <1>15 DEF Foreach, ring, Return, Emptied, RingInv
  <2>b. UNCHANGED bakmb
    BY <2>1 DEF Inv, TypeOK, CallOK
  <2>2. CASE DataSize = 0
    <3>1. UNCHANGED <<ring, cursor, size>>
      BY <1>n, <1>15, <2>2 DEF Foreach
    <3> QED
      BY <1>1, <2>1, <3>1
  <2>3. CASE DataSize > 0 /\ total = free + InHead
    <3>1. /\ npages > 0 /\ free' = free + InHead /\ total' = total
          /\ head' = next[head] /\ offset' = 0 /\ tail' = next[head]
      BY <1>n, <1>15, <2>3 DEF Foreach
    <3>2. DataSize' = 0
      BY <1>n, <1>d, <2>3, <3>1
    <3> QED
      BY <1>12, <2>1, <3>1, <3>2
  <2>4. CASE DataSize > 0 /\ total # free + InHead
    <3>1. /\ npages > 0 /\ free' = free + InHead /\ total' = total
          /\ head' = next[head] /\ offset' = 0 /\ tail' = tail /\ pc = "idle" /\ pc' = "idle"
      BY <1>n, <1>15, <2>4 DEF Foreach, Return
    <3>2. DataSize' = DataSize - InHead /\ DataSize > InHead /\ InHead > 0
      BY <1>n, <2>4, <3>1 DEF DataSize
    <3> QED
      BY <1>11, <1>n, <2>1, <2>b, <2>4, <3>1, <3>2
  <2> QED
    BY <1>n, <2>2, <2>3, <2>4
<1>16. ASSUME Clear PROVE RingInv'
  <2>1. /\ UNCHANGED <<npages, next, head>> /\ bakmb' = FALSE /\ offset' = 0 /\ tail' = head
        /\ free' = total /\ total' = total
    BY <1>16 DEF Clear, ring, Return
  <2>2. DataSize' = 0
    BY <1>n, <1>d, <2>1
  <2>3. CASE npages > 0
    BY <1>12, <2>1, <2>2, <2>3
  <2>4. CASE npages = 0
    BY <2>1, <2>4 DEF RingInv
  <2> QED
    BY <1>n, <2>3, <2>4
<1>17. ASSUME UNCHANGED vars PROVE RingInv'
  <2>1. UNCHANGED <<ring, cursor, size, pc, bakmb>>
    BY <1>17 DEF vars, call
  <2>2. Emptied' <=> Emptied
    BY <2>1 DEF Emptied, DataSize, size
  <2>3. bakmb' => pc' \in {"grow", "store"} /\ (pc' = "grow" => pc = "grow" /\ bakmb)
    BY <2>1 DEF RingInv
  <2> QED
    BY <1>1, <2>1, <2>2, <2>3
<1> QED
  BY <1>2, <1>3, <1>4, <1>5, <1>6, <1>7, <1>8, <1>9, <1>10, <1>13, <1>14, <1>15, <1>16,
     <1>17, NextCases

LEMMA RingAlways == Spec => [](Inv /\ RingInv)
<1>1. Inv /\ [Next]_vars => Inv'
  BY TypePreserved, BoundPreserved, LoopPreserved, StepPreserved DEF Inv
<1> QED
  BY InvInit, RingInit, <1>1, RingPreserved, PTL DEF Spec

-----------------------------------------------------------------------------
(* The bytes of a ring *)

\* What stands at position a, counted from the beginning of the first page of
\* the ring r.
ByteAt(m, r, P, a) == m[r[a \div P]][a % P]

\* A position that is not behind another is not in a page behind the other's.
LEMMA PageNotBehind ==
    ASSUME NEW P \in Nat \ {0}, NEW a \in Nat, NEW b \in Nat, a <= b
    PROVE  /\ a \div P <= b \div P
           /\ a < b /\ a \div P = b \div P => a % P < b % P
<1> DEFINE q == a \div P
           k == b \div P
           i == a % P
           j == b % P
<1>1. /\ q \in Nat /\ i \in 0 .. P - 1 /\ a = q * P + i
      /\ k \in Nat /\ j \in 0 .. P - 1 /\ b = k * P + j
  BY PageAndPlace
<1> HIDE DEF q, k, i, j
<1>2. q * P \in Nat /\ k * P \in Nat
  BY <1>1, SMT
<1>3. ASSUME k < q PROVE FALSE
  <2>1. (k + 1) * P <= q * P /\ (k + 1) * P = k * P + P
    BY <1>1, <1>3, PagesMonotone, SMT
  <2> QED
    BY <1>1, <1>2, <2>1
<1>4. ASSUME a < b, q = k PROVE i < j
  BY <1>1, <1>2, <1>4
<1> QED
  BY <1>1, <1>3, <1>4 DEF q, k, i, j

\* In f, the n bytes w stand where the data ends in m, l bytes before the end
\* of its last page.
IsFilled(f, m, N, r, P, a, l, n, w) ==
    /\ \E S : m \in [1 .. N -> S]
    /\ f = [m EXCEPT ![r[a \div P]] = [i \in 0 .. P - 1 |->
              IF i - (P - l) + 1 \in 1 .. n THEN w[i - (P - l) + 1] ELSE m[r[a \div P]][i]]]

\* In f, the d bytes from o on are those of m, and followed by w.
IsAdded(f, m, r, P, o, d, n, w) ==
    /\ \A a \in o .. o + d - 1 : ByteAt(f, r, P, a) = ByteAt(m, r, P, a)
    /\ \A k \in 1 .. n : ByteAt(f, r, P, o + d + k - 1) = w[k]

\* The page the data ends in is entered by no byte of the data where the bytes
\* behind it go, although the data may begin in the same page.
LEMMA NothingThere ==
    ASSUME NEW P \in Nat \ {0}, NEW N, NEW r, NEW h, NEW nx, IsRing(r, N, h, nx),
           NEW o \in 0 .. P - 1, NEW d \in Nat, NEW l \in 1 .. P, NEW n \in 1 .. l,
           EndsIn(P, N, o + d, l), d + n <= N * P,
           NEW a \in o .. o + d - 1, r[a \div P] = r[(o + d) \div P]
    PROVE  ~((a % P) - (P - l) + 1 \in 1 .. n)
<1>0. N \in Nat \ {0} /\ r \in [0 .. N -> 1 .. N] /\ r[0] = r[N]
  BY DEF IsRing
<1>I. \A j, k \in 0 .. N - 1 : r[j] = r[k] => j = k
  BY DEF IsRing
<1> DEFINE b == o + d
           q == a \div P
           e == b \div P
           i == a % P
           j == b % P
<1>1. /\ a \in Nat /\ b \in Nat /\ a < b /\ q \in Nat /\ i \in 0 .. P - 1
      /\ a = q * P + i /\ j \in 0 .. P - 1
      /\ q <= e /\ (q = e => i < j)
  <2>1. a \in Nat /\ b \in Nat /\ a < b /\ a <= b
    OBVIOUS
  <2>2. q \in Nat /\ i \in 0 .. P - 1 /\ a = q * P + i
    BY <2>1, PageAndPlace
  <2>3. j \in 0 .. P - 1
    BY <2>1, PageAndPlace
  <2>4. q <= e /\ (q = e => i < j)
    BY <2>1, PageNotBehind
  <2> QED
    BY <2>1, <2>2, <2>3, <2>4
<1>2. e \in 0 .. N /\ b + l = e * P + P /\ j + l = P
  BY DEF EndsIn
<1>3. r[q] = r[e]
  OBVIOUS
<1>4. b + n <= o + N * P /\ a >= o
  <2>1. N * P \in Int
    BY <1>0, SMT
  <2> QED
    BY <2>1
<1>I0. ASSUME r[q] = r[e], q \in 0 .. N - 1, e \in 0 .. N - 1 PROVE q = e
  BY <1>I, <1>I0
<1>I1. ASSUME r[q] = r[N], q \in 0 .. N - 1 PROVE q = 0
  <2>1. 0 \in 0 .. N - 1 /\ r[q] = r[0]
    BY <1>0, <1>I1
  <2> QED
    BY <1>I, <1>I1, <2>1
<1> HIDE DEF q, e, i, j, b
<1>5. CASE q = e
  BY <1>1, <1>2, <1>5 DEF i
<1>6. CASE q # e
  <2>1. q \in 0 .. N - 1 /\ e = N
    BY <1>0, <1>1, <1>2, <1>3, <1>6, <1>I0
  <2>2. q = 0
    BY <1>3, <2>1, <1>I1
  <2>3. q * P = 0
    BY <2>2, SMT
  <2>4. a = i
    BY <1>1, <2>3
  <2>5. e * P = N * P /\ N * P \in Nat
    BY <1>0, <2>1, SMT
  <2>6. n <= o + l - P
    BY <1>1, <1>2, <1>4, <2>5
  <2>7. i >= n + P - l
    BY <1>1, <1>4, <2>4, <2>6
  <2> QED
    BY <1>1, <2>7 DEF i
<1> QED
  BY <1>5, <1>6

\* There is room for n bytes in the page in which the d bytes of data end that
\* begin at position o.
RoomBehind(P, N, r, h, nx, o, d, l, n) ==
    /\ P \in Nat \ {0} /\ o \in 0 .. P - 1 /\ d \in Nat /\ l \in 1 .. P /\ n \in 1 .. l
    /\ IsRing(r, N, h, nx) /\ EndsIn(P, N, o + d, l)
    /\ d + n <= N * P

\* Filling the room behind the data leaves the data as it was and adds to it.
LEMMA FilledBehind ==
    ASSUME NEW P, NEW N, NEW r, NEW h, NEW nx, NEW o, NEW d, NEW l, NEW n,
           RoomBehind(P, N, r, h, nx, o, d, l, n),
           NEW f, NEW m, NEW w, IsFilled(f, m, N, r, P, o + d, l, n, w)
    PROVE  IsAdded(f, m, r, P, o, d, n, w)
<1>0. N \in Nat \ {0} /\ r \in [0 .. N -> 1 .. N]
  BY DEF IsRing, RoomBehind
<1>r. /\ P \in Nat \ {0} /\ o \in 0 .. P - 1 /\ d \in Nat /\ l \in 1 .. P /\ n \in 1 .. l
      /\ IsRing(r, N, h, nx) /\ EndsIn(P, N, o + d, l) /\ d + n <= N * P
  BY DEF RoomBehind
<1>s. PICK S : m \in [1 .. N -> S]
  BY DEF IsFilled
<1> DEFINE e == (o + d) \div P
           t == r[e]
           j == (o + d) % P
           new == [i \in 0 .. P - 1 |->
                    IF i - (P - l) + 1 \in 1 .. n THEN w[i - (P - l) + 1] ELSE m[t][i]]
<1>1. e \in 0 .. N /\ o + d \in Nat /\ j \in 0 .. P - 1 /\ j + l = P
  BY <1>r, PageAndPlace DEF EndsIn
<1>2. t = r[e] /\ t \in 1 .. N
  BY <1>0, <1>1
<1>3. f = [m EXCEPT ![t] = new]
  BY DEF IsFilled
<1>4. new = [i \in 0 .. P - 1 |->
               IF i - (P - l) + 1 \in 1 .. n THEN w[i - (P - l) + 1] ELSE m[t][i]]
  OBVIOUS
<1> HIDE DEF new, t
<1>5. f[t] = new /\ \A p \in 1 .. N : p # t => f[p] = m[p]
  BY <1>2, <1>3, <1>s
<1>6. ASSUME NEW a \in o .. o + d - 1
      PROVE  ByteAt(f, r, P, a) = ByteAt(m, r, P, a)
  <2> DEFINE q == a \div P
             i == a % P
  <2>1. a \in Nat /\ q \in 0 .. N /\ i \in 0 .. P - 1
    <3>1. a \in Nat /\ o + d \in Nat /\ a <= o + d
      BY <1>r
    <3>2. q <= e /\ q \in Nat /\ i \in 0 .. P - 1
      BY <1>r, <3>1, PageNotBehind, PageAndPlace
    <3> HIDE DEF q, e, i
    <3> QED
      BY <1>0, <1>1, <3>1, <3>2
  <2>2. r[q] \in 1 .. N
    BY <1>0, <2>1
  <2>3. r[q] = t => ~(i - (P - l) + 1 \in 1 .. n)
    BY <1>2, <1>r, NothingThere
  <2> HIDE DEF q, i
  <2>4. CASE r[q] = t
    <3>1. new[i] = m[t][i]
      BY <1>4, <2>1, <2>3, <2>4
    <3> QED
      BY <1>5, <2>4, <3>1 DEF ByteAt, q, i
  <2>5. CASE r[q] # t
    BY <1>5, <2>2, <2>5 DEF ByteAt, q, i
  <2> QED
    BY <2>4, <2>5
<1>7. ASSUME NEW k \in 1 .. n
      PROVE  ByteAt(f, r, P, o + d + k - 1) = w[k]
  <2> DEFINE x == k - 1
  <2>1. x \in Nat /\ j + x < P /\ j + x \in 0 .. P - 1
    BY <1>r, <1>1
  <2>2. (o + d + x) \div P = e /\ (o + d + x) % P = j + x
    BY <1>r, <1>1, <2>1, MovedOn
  <2>3. o + d + k - 1 = o + d + x
    BY <1>r
  <2>4. new[j + x] = w[k]
    <3>0. x = k - 1
      OBVIOUS
    <3> HIDE DEF j, x
    <3>1. (j + x) - (P - l) + 1 = k
      BY <1>r, <1>1, <3>0
    <3> QED
      BY <1>4, <2>1, <3>1
  <2> HIDE DEF x, e, j
  <2> QED
    BY <1>2, <1>5, <2>2, <2>3, <2>4 DEF ByteAt
<1> QED
  BY <1>6, <1>7 DEF IsAdded

-----------------------------------------------------------------------------
(* What is in the stream *)

\* What a page can hold.
Cell == Byte \cup {Junk}

\* Contents are the bytes from the read position on.
ContentsAre == Contents = [i \in 1 .. DataSize |->
                             ByteAt(mem, PageAhead, MYPAGESIZE, offset + i - 1)]

LEMMA ContentsNow == ContentsAre
BY DEF ContentsAre, Contents, ByteAt

LEMMA ContentsThen == ContentsAre'
BY ContentsNow, PTL

\* Contents is a sequence as long as the counters say.
ContentsTyped ==
    Inv /\ RingInv =>
        /\ Contents \in Seq(Cell) /\ Len(Contents) = DataSize /\ DataSize \in Nat
        /\ \A i \in 1 .. DataSize :
              Contents[i] = ByteAt(mem, PageAhead, MYPAGESIZE, offset + i - 1)

\* The data lies in the pages of the ring.
LEMMA DataInRing ==
    ASSUME Inv, RingInv, npages > 0, ~Emptied, NEW a \in offset .. offset + DataSize
    PROVE  /\ a \in Nat /\ a \div MYPAGESIZE \in 0 .. EndPage /\ EndPage \in 0 .. npages
           /\ a \div MYPAGESIZE \in 0 .. npages
           /\ a % MYPAGESIZE \in Index
           /\ PageAhead[a \div MYPAGESIZE] \in Page
           /\ npages \in Nat /\ PageAhead \in [0 .. npages -> 1 .. npages]
<1>1. /\ offset \in Nat /\ DataSize \in Nat /\ MYPAGESIZE \in Nat \ {0} /\ npages \in Nat
  BY Numbers, PageSizeAssumption, BoundAssumption DEF Inv, TypeOK, RingOK
<1>2. EndPage \in 0 .. npages /\ offset + DataSize \in Nat
  BY EndOfData
<1>3. a \in Nat /\ a <= offset + DataSize
  BY <1>1
<1>4. /\ a \div MYPAGESIZE <= EndPage /\ a \div MYPAGESIZE \in Nat
      /\ a % MYPAGESIZE \in 0 .. MYPAGESIZE - 1
  BY <1>1, <1>2, <1>3, PageNotBehind, PageAndPlace DEF EndPage
<1>5. PageAhead \in [0 .. npages -> 1 .. npages]
  BY DEF RingInv, IsRing
<1> DEFINE q == a \div MYPAGESIZE
<1> HIDE DEF q
<1>6. q \in 0 .. EndPage /\ q \in 0 .. npages
  BY <1>1, <1>2, <1>4 DEF q
<1>7. PageAhead[q] \in 1 .. npages
  BY <1>5, <1>6
<1> QED
  BY <1>1, <1>2, <1>3, <1>4, <1>5, <1>6, <1>7 DEF q, Index, Page

LEMMA ContentsType == ContentsTyped
<1> SUFFICES ASSUME Inv, RingInv
             PROVE  /\ Contents \in Seq(Cell) /\ Len(Contents) = DataSize /\ DataSize \in Nat
                    /\ \A i \in 1 .. DataSize :
                          Contents[i] = ByteAt(mem, PageAhead, MYPAGESIZE, offset + i - 1)
  BY DEF ContentsTyped
<1>1. offset \in Nat /\ DataSize \in Nat /\ npages \in Nat
  BY Numbers, BoundAssumption DEF Inv, TypeOK, RingOK
<1> DEFINE at == [i \in 1 .. DataSize |-> ByteAt(mem, PageAhead, MYPAGESIZE, offset + i - 1)]
<1>2. Contents = at
  BY ContentsNow DEF ContentsAre
<1>3. ASSUME NEW i \in 1 .. DataSize
      PROVE  ByteAt(mem, PageAhead, MYPAGESIZE, offset + i - 1) \in Cell
  <2> DEFINE a == offset + i - 1
  <2>1. DataSize > 0 /\ a \in offset .. offset + DataSize
    BY <1>1
  <2>2. npages > 0 /\ ~Emptied
    <3>1. npages >= 1
      BY <2>1, PagesThere DEF Inv
    <3> QED
      BY <1>1, <2>1, <3>1 DEF Emptied
  <2> HIDE DEF a
  <2>3. PageAhead[a \div MYPAGESIZE] \in Page /\ a % MYPAGESIZE \in Index
    BY <2>1, <2>2, DataInRing
  <2>4. mem \in [Page -> [Index -> Cell]]
    BY DEF Inv, TypeOK, RingOK, Cell
  <2>5. mem[PageAhead[a \div MYPAGESIZE]][a % MYPAGESIZE] \in Cell
    BY <2>3, <2>4
  <2> QED
    BY <2>5 DEF ByteAt, a
<1>4. at \in [1 .. DataSize -> Cell]
  BY <1>3
<1>5. \A i \in 1 .. DataSize : at[i] = ByteAt(mem, PageAhead, MYPAGESIZE, offset + i - 1)
  OBVIOUS
<1> HIDE DEF at
<1>6. at \in Seq(Cell) /\ Len(at) = DataSize
  BY <1>1, <1>4, SeqDef, LenProperties
<1> QED
  BY <1>1, <1>2, <1>5, <1>6

LEMMA ContentsTypeThen == ContentsTyped'
BY ContentsType, PTL

\* What the head page holds of the data is where the data begins.
LEMMA HeadOfContents ==
    ASSUME Inv, RingInv, DataSize > 0, NEW n \in 0 .. InHead
    PROVE  HeadBytes(n) = SubSeq(Contents, 1, n)
<1>1. /\ offset \in 0 .. MYPAGESIZE - 1 /\ InHead \in 1 .. MYPAGESIZE - offset
      /\ InHead <= DataSize /\ DataSize \in Nat /\ npages > 0 /\ MYPAGESIZE \in Nat \ {0}
  <2>1. npages >= 1 /\ npages \in Nat
    BY PagesThere, BoundAssumption DEF Inv, TypeOK, RingOK
  <2> QED
    BY <2>1, Numbers, PageSizeAssumption DEF Inv
<1>2. /\ Contents \in Seq(Cell) /\ Len(Contents) = DataSize
      /\ \A i \in 1 .. DataSize :
            Contents[i] = ByteAt(mem, PageAhead, MYPAGESIZE, offset + i - 1)
  BY ContentsType DEF ContentsTyped
<1>3. PageAhead[0] = head
  BY <1>1 DEF RingInv, IsRing
<1>4. ASSUME NEW k \in 1 .. n
      PROVE  mem[head][offset + k - 1] = Contents[k]
  <2>1. offset + k - 1 \in 0 .. MYPAGESIZE - 1 /\ k \in 1 .. DataSize
    BY <1>1
  <2>2. (0 * MYPAGESIZE + (offset + k - 1)) \div MYPAGESIZE = 0
        /\ (0 * MYPAGESIZE + (offset + k - 1)) % MYPAGESIZE = offset + k - 1
    BY <1>1, <2>1, PositionIs
  <2>3. 0 * MYPAGESIZE + (offset + k - 1) = offset + k - 1
    BY <1>1, <2>1, SMT
  <2> QED
    BY <1>2, <1>3, <2>1, <2>2, <2>3 DEF ByteAt
<1>5. n \in Nat /\ n <= DataSize
  BY <1>1
<1>6. \A k \in 1 .. n : Contents[k] \in Cell
  BY <1>2, <1>5, ElementOfSeq
<1>7. /\ SubSeq(Contents, 1, n) \in Seq(Cell) /\ Len(SubSeq(Contents, 1, n)) = n
      /\ \A k \in 1 .. n : SubSeq(Contents, 1, n)[k] = Contents[k]
  <2>1. /\ SubSeq(Contents, 1, n) \in Seq(Cell)
        /\ Len(SubSeq(Contents, 1, n)) = IF 1 <= n THEN n - 1 + 1 ELSE 0
        /\ \A k \in 1 .. n - 1 + 1 : SubSeq(Contents, 1, n)[k] = Contents[1 + k - 1]
    BY <1>5, <1>6, SubSeqProperties
  <2>2. \A k \in 1 .. n : SubSeq(Contents, 1, n)[k] = Contents[k]
    BY <1>5, <2>1
  <2> QED
    BY <1>5, <2>1, <2>2
<1>8. HeadBytes(n) = [k \in 1 .. n |-> mem[head][offset + k - 1]]
  BY DEF HeadBytes
<1>9. /\ HeadBytes(n) \in [1 .. n -> Cell]
      /\ \A k \in 1 .. n : HeadBytes(n)[k] = Contents[k]
  BY <1>4, <1>6, <1>8
<1>10. HeadBytes(n) \in Seq(Cell) /\ Len(HeadBytes(n)) = n
  BY <1>5, <1>9, SeqDef, LenProperties
<1> QED
  BY <1>7, <1>9, <1>10, SeqEqual

-----------------------------------------------------------------------------
(* What a step does to what is in the stream *)

\* Both states are states of a memstream.
Both == Inv /\ RingInv /\ Inv' /\ RingInv'

\* The contents after a step: byte for byte those of before, behind the first n.
LEMMA LessContents ==
    ASSUME Both, NEW n \in 0 .. DataSize, DataSize' = DataSize - n,
           \A i \in 1 .. DataSize' :
              ByteAt(mem', PageAhead', MYPAGESIZE, offset' + i - 1)
                = ByteAt(mem, PageAhead, MYPAGESIZE, offset + (n + i) - 1)
    PROVE  Contents' = SubSeq(Contents, n + 1, DataSize)
<1> DEFINE b(i) == ByteAt(mem, PageAhead, MYPAGESIZE, offset + i - 1)
           c(i) == ByteAt(mem', PageAhead', MYPAGESIZE, offset' + i - 1)
<1>1. /\ Contents \in Seq(Cell) /\ Len(Contents) = DataSize /\ DataSize \in Nat
      /\ \A i \in 1 .. DataSize : Contents[i] = b(i)
  BY ContentsType DEF ContentsTyped, Both
<1>2. /\ Contents' \in Seq(Cell) /\ Len(Contents') = DataSize' /\ DataSize' \in Nat
      /\ \A i \in 1 .. DataSize' : Contents'[i] = c(i)
  BY ContentsTypeThen DEF ContentsTyped, Both
<1>3. \A i \in 1 .. DataSize' : c(i) = b(n + i)
  OBVIOUS
<1>4. DataSize' = DataSize - n
  OBVIOUS
<1> HIDE DEF b, c
<1>5. ASSUME NEW i \in 1 .. DataSize' PROVE Contents'[i] = Contents[n + i]
  <2>1. n + i \in 1 .. DataSize
    BY <1>1, <1>4
  <2> QED
    BY <1>1, <1>2, <1>3, <2>1
<1> DEFINE s == SubSeq(Contents, n + 1, DataSize)
<1>6. \A i \in n + 1 .. DataSize : Contents[i] \in Cell
  <2>1. \A i \in 1 .. DataSize : Contents[i] \in Cell
    BY <1>1, ElementOfSeq
  <2> QED
    BY <1>1, <2>1
<1>7. /\ s \in Seq(Cell) /\ Len(s) = IF n + 1 <= DataSize THEN DataSize - (n + 1) + 1 ELSE 0
      /\ \A i \in 1 .. DataSize - (n + 1) + 1 : s[i] = Contents[(n + 1) + i - 1]
  BY <1>1, <1>6, SubSeqProperties
<1> HIDE DEF s
<1>8. Len(s) = DataSize'
  BY <1>1, <1>4, <1>7
<1>9. ASSUME NEW i \in 1 .. DataSize' PROVE s[i] = Contents[n + i]
  <2>1. i \in 1 .. DataSize - (n + 1) + 1 /\ (n + 1) + i - 1 = n + i
    BY <1>1, <1>4
  <2> QED
    BY <1>7, <2>1
<1>10. Contents' = s
  <2>1. \A i \in 1 .. Len(Contents') : Contents'[i] = s[i]
    BY <1>2, <1>5, <1>9
  <2> QED
    BY <1>2, <1>7, <1>8, <2>1, SeqEqual
<1> QED
  BY <1>10 DEF s

\* Nothing that Contents speaks of has changed.
LEMMA SameContents ==
    ASSUME Both, DataSize' = DataSize,
           \A i \in 1 .. DataSize :
              ByteAt(mem', PageAhead', MYPAGESIZE, offset' + i - 1)
                = ByteAt(mem, PageAhead, MYPAGESIZE, offset + i - 1)
    PROVE  Contents' = Contents
<1> DEFINE b(i) == ByteAt(mem, PageAhead, MYPAGESIZE, offset + i - 1)
           c(i) == ByteAt(mem', PageAhead', MYPAGESIZE, offset' + i - 1)
<1>1. /\ Contents \in Seq(Cell) /\ Len(Contents) = DataSize /\ DataSize \in Nat
      /\ \A i \in 1 .. DataSize : Contents[i] = b(i)
  BY ContentsType DEF ContentsTyped, Both
<1>2. /\ Contents' \in Seq(Cell) /\ Len(Contents') = DataSize'
      /\ \A i \in 1 .. DataSize' : Contents'[i] = c(i)
  BY ContentsTypeThen DEF ContentsTyped, Both
<1>3. \A i \in 1 .. DataSize : c(i) = b(i)
  OBVIOUS
<1> HIDE DEF b, c
<1>4. \A i \in 1 .. Len(Contents') : Contents'[i] = Contents[i]
  BY <1>1, <1>2, <1>3
<1> QED
  BY <1>1, <1>2, <1>4, SeqEqual

\* Nothing moves.
LEMMA StillContents ==
    ASSUME Both, UNCHANGED <<ring, head, offset, size>>
    PROVE  Contents' = Contents
<1>1. /\ UNCHANGED <<npages, mem, next, head, offset>> /\ DataSize' = DataSize
      /\ npages \in Nat
  BY BoundAssumption DEF ring, size, DataSize, Both, Inv, TypeOK, RingOK
<1>2. CASE npages = 0
  <2>1. DataSize = 0
    BY <1>1, <1>2, PagesThere DEF Both, Inv
  <2> QED
    BY <1>1, <2>1, SameContents
<1>3. CASE npages > 0
  <2>1. PageAhead' = PageAhead
    BY <1>1, <1>3, SameRing DEF Both
  <2> QED
    BY <1>1, <2>1, SameContents
<1> QED
  BY <1>1, <1>2, <1>3

\* There is nothing in the stream.
LEMMA NoContents ==
    ASSUME Both
    PROVE  /\ DataSize = 0 => Contents = <<>>
           /\ DataSize' = 0 => Contents' = <<>>
<1>1. Contents \in Seq(Cell) /\ Len(Contents) = DataSize
  BY ContentsType DEF ContentsTyped, Both
<1>2. Contents' \in Seq(Cell) /\ Len(Contents') = DataSize'
  BY ContentsTypeThen DEF ContentsTyped, Both
<1> QED
  BY <1>1, <1>2, EmptySeq

\* Linking a page, even one the head moves to, moves no byte of the data.
LEMMA GrownContents ==
    ASSUME Both, GrowAfterTail
    PROVE  Contents' = Contents
<1>1. /\ npages > 0 /\ ~Emptied /\ npages \in Nat
      /\ EndPage = npages =>
            /\ ~bakmb
            /\ PageAhead'[0] = NewPage
            /\ \A k \in 1 .. npages : PageAhead'[k] = PageAhead[k]
      /\ EndPage < npages => \A k \in 0 .. EndPage : PageAhead'[k] = PageAhead[k]
  BY LargerRing, BoundAssumption DEF Both, Inv, TypeOK, RingOK
<1>2. EndPage \in 0 .. npages /\ (WrapsInOnePage <=> EndPage = npages)
  BY <1>1, EndOfData, WrapIs DEF Both
<1>3. /\ DataSize' = DataSize /\ offset' = offset /\ DataSize \in Nat
      /\ offset \in 0 .. MYPAGESIZE - 1 /\ MYPAGESIZE \in Nat \ {0}
  <2>1. total \in Nat /\ free \in Nat /\ MYPAGESIZE \in Nat /\ DataSize \in Nat
        /\ offset \in 0 .. MYPAGESIZE - 1 /\ MYPAGESIZE \in Nat \ {0}
    BY Numbers, PageSizeAssumption DEF Both, Inv
  <2> QED
    BY <2>1 DEF GrowAfterTail, DataSize
<1>4. mem \in [1 .. npages -> [Index -> Cell]]
  BY DEF Both, Inv, TypeOK, RingOK, Page, Cell
\* The pages of before are as they were.
<1>5. \A x \in [Index -> Cell] :
         /\ \A p \in 1 .. npages : Append(mem, x)[p] = mem[p]
         /\ Append(mem, x)[npages + 1] = x
  BY <1>1, <1>4, AppendPage
<1>6. FreshPage \in [Index -> Cell]
  BY DEF FreshPage, Cell
<1> DEFINE Kept == [i \in Index |-> IF i >= offset THEN mem[head][i] ELSE Junk]
<1>7. Kept \in [Index -> Cell] /\ head \in Page
  <2>1. head \in Page
    BY <1>1 DEF Both, Inv, TypeOK, CursorOK, Place
  <2> QED
    BY <1>4, <2>1 DEF Page, Cell
<1>8. \A i \in Index : i >= offset => Kept[i] = mem[head][i]
  OBVIOUS
<1>9. EndPage = npages => mem' = Append(mem, Kept)
  BY <1>1, <1>2 DEF GrowAfterTail
<1>10. EndPage < npages => mem' = Append(mem, FreshPage)
  BY <1>1, <1>2 DEF GrowAfterTail
<1> HIDE DEF Kept
<1>p. \A p \in 1 .. npages : mem'[p] = mem[p]
  <2>1. CASE EndPage = npages
    <3>1. \A p \in 1 .. npages : Append(mem, Kept)[p] = mem[p]
      BY <1>5, <1>7
    <3> QED
      BY <1>9, <2>1, <3>1
  <2>2. CASE EndPage < npages
    <3>1. \A p \in 1 .. npages : Append(mem, FreshPage)[p] = mem[p]
      BY <1>5, <1>6
    <3> QED
      BY <1>10, <2>2, <3>1
  <2> QED
    BY <1>1, <1>2, <2>1, <2>2
<1>11. ASSUME NEW i \in 1 .. DataSize
       PROVE  ByteAt(mem', PageAhead', MYPAGESIZE, offset + i - 1)
                = ByteAt(mem, PageAhead, MYPAGESIZE, offset + i - 1)
  <2> DEFINE a == offset + i - 1
             q == a \div MYPAGESIZE
             y == a % MYPAGESIZE
  <2>1. a \in offset .. offset + DataSize
    BY <1>3
  <2> HIDE DEF a
  <2>2. /\ a \in Nat /\ q \in 0 .. EndPage /\ q \in 0 .. npages
        /\ y \in Index /\ PageAhead[q] \in 1 .. npages
    BY <1>1, <2>1, DataInRing DEF Both, Page
  <2>3. q = 0 => y = a
    <3>1. a = q * MYPAGESIZE + y
      BY <1>3, <2>2, PageAndPlace
    <3> HIDE DEF q, y
    <3>2. q = 0 => q * MYPAGESIZE = 0
      BY <1>3, SMT
    <3> QED
      BY <2>2, <3>1, <3>2 DEF Index
  <2> HIDE DEF q, y
  <2>4. mem[PageAhead[q]] = mem'[PageAhead[q]]
    BY <1>p, <2>2
  <2>5. CASE EndPage < npages \/ q # 0
    <3>1. PageAhead'[q] = PageAhead[q]
      <4>1. CASE EndPage < npages
        BY <1>1, <2>2, <4>1
      <4>2. CASE EndPage = npages
        <5>1. q \in 1 .. npages
          BY <1>1, <2>2, <2>5, <4>2
        <5> QED
          BY <1>1, <4>2, <5>1
      <4> QED
        BY <1>1, <1>2, <4>1, <4>2
    <3> QED
      BY <2>4, <3>1 DEF ByteAt, a, q, y
  <2>6. CASE EndPage = npages /\ q = 0
    <3>1. PageAhead'[q] = npages + 1 /\ PageAhead[q] = head
      BY <1>1, <2>6 DEF NewPage, Both, RingInv, IsRing
    <3>2. mem'[npages + 1] = Kept
      BY <1>5, <1>7, <1>9, <2>6
    <3>3. y >= offset
      BY <1>3, <2>1, <2>2, <2>3, <2>6
    <3>4. Kept[y] = mem[head][y]
      BY <1>8, <2>2, <3>3
    <3> QED
      BY <3>1, <3>2, <3>4 DEF ByteAt, a, q, y
  <2> QED
    BY <1>1, <1>2, <2>5, <2>6 DEF a
<1> QED
  BY <1>3, <1>11, SameContents

\* Reading n bytes of the head page, or all of it, leaves the bytes behind them.
LEMMA TakenContents ==
    ASSUME Both, DataSize > 0, NEW n \in 1 .. InHead, UNCHANGED ring, DataSize' = DataSize - n,
           \/ head' = head /\ offset' = offset + n
           \/ n = InHead /\ head' = next[head] /\ offset' = 0
    PROVE  Contents' = SubSeq(Contents, n + 1, DataSize)
<1>1. /\ offset \in 0 .. MYPAGESIZE - 1 /\ InHead \in 1 .. MYPAGESIZE - offset
      /\ InHead <= DataSize /\ DataSize \in Nat /\ MYPAGESIZE \in Nat \ {0}
      /\ npages > 0 /\ npages \in Nat /\ ~Emptied
  <2>1. npages >= 1 /\ npages \in Nat
    BY PagesThere, BoundAssumption DEF Both, Inv, TypeOK, RingOK
  <2>2. ~Emptied
    BY DEF Emptied
  <2> QED
    BY <2>1, <2>2, Numbers, PageSizeAssumption DEF Both, Inv
<1>2. UNCHANGED <<npages, mem, next>>
  BY DEF ring
<1>3. CASE head' = head /\ offset' = offset + n
  <2>1. PageAhead' = PageAhead
    BY <1>1, <1>2, <1>3, SameRing DEF Both
  <2>2. \A i \in 1 .. DataSize' : offset' + i - 1 = offset + (n + i) - 1
    BY <1>1, <1>3
  <2>3. \A i \in 1 .. DataSize' :
           ByteAt(mem', PageAhead', MYPAGESIZE, offset' + i - 1)
             = ByteAt(mem, PageAhead, MYPAGESIZE, offset + (n + i) - 1)
    BY <1>2, <2>1, <2>2
  <2>4. n \in 0 .. DataSize
    BY <1>1
  <2> QED
    BY <2>3, <2>4, LessContents
<1>4. CASE n = InHead /\ head' = next[head] /\ offset' = 0
  <2>1. \A k \in 0 .. npages - 1 : PageAhead'[k] = PageAhead[k + 1]
    BY <1>1, <1>2, <1>4, SameRing DEF Both
  <2>2. ASSUME NEW i \in 1 .. DataSize'
        PROVE  ByteAt(mem', PageAhead', MYPAGESIZE, offset' + i - 1)
                 = ByteAt(mem, PageAhead, MYPAGESIZE, offset + (n + i) - 1)
    <3> DEFINE j == i - 1
               k == j \div MYPAGESIZE
    <3>1. InHead = MYPAGESIZE - offset
      BY <1>1, <1>4 DEF InHead, Min2
    <3>2. /\ j \in Nat /\ offset' + i - 1 = j /\ offset + (n + i) - 1 = j + MYPAGESIZE
          /\ j + MYPAGESIZE \in offset .. offset + DataSize
      BY <1>1, <1>4, <3>1
    <3> HIDE DEF j
    <3>3. /\ (j + MYPAGESIZE) \div MYPAGESIZE = k + 1
          /\ (j + MYPAGESIZE) % MYPAGESIZE = j % MYPAGESIZE
      BY <1>1, <3>2, MovedOn
    <3>4. k \in Nat
      BY <1>1, <3>2, PageAndPlace
    <3>5. (j + MYPAGESIZE) \div MYPAGESIZE \in 0 .. npages
      BY <1>1, <3>2, DataInRing DEF Both
    <3> HIDE DEF k
    <3>6. k \in 0 .. npages - 1
      BY <1>1, <3>3, <3>4, <3>5
    <3>7. PageAhead'[k] = PageAhead[k + 1]
      BY <2>1, <3>6
    <3> QED
      BY <1>2, <3>2, <3>3, <3>7 DEF ByteAt, k
  <2>4. n \in 0 .. DataSize
    BY <1>1, <1>4
  <2> QED
    BY <2>2, <2>4, LessContents
<1> QED
  BY <1>3, <1>4

\* Storing the next n bytes of the caller's buffer puts them at the end.
LEMMA StoredContents ==
    ASSUME Both, pc = "store", NEW n \in 1 .. left, n <= nsize, n <= free, Store(n),
           UNCHANGED <<npages, next, head, offset>>, DataSize' = DataSize + n
    PROVE  /\ SubSeq(pdata, Stored + 1, Stored + n) \in Seq(Cell)
           /\ Contents' = Contents \o SubSeq(pdata, Stored + 1, Stored + n)
<1>1. /\ total \in Nat /\ free \in 0 .. total /\ DataSize \in 0 .. total /\ DataSize \in Nat
      /\ nsize \in Nat /\ Len(pdata) \in Nat
      /\ offset \in 0 .. MYPAGESIZE - 1 /\ left \in 1 .. MYPAGESIZE
      /\ DataSize = total - free
  <2>1. total \in Nat /\ free \in 0 .. total /\ DataSize \in 0 .. total
    BY Numbers DEF Both, Inv
  <2> QED
    BY <2>1, Numbers DEF Both, Inv, DataSize
<1>2. npages > 0 /\ npages \in Nat /\ MYPAGESIZE \in Nat \ {0} /\ ~Emptied
  <2>1. npages >= 1 /\ npages \in Nat
    BY <1>1, PagesThere, BoundAssumption DEF Both, Inv, TypeOK, RingOK
  <2> QED
    BY <2>1, PageSizeAssumption DEF Emptied
<1>3. Stored \in Nat /\ Stored + n <= Len(pdata)
  BY <1>1 DEF Both, Inv, LoopInv, Stored
<1>4. \A j \in 1 .. Len(pdata) : pdata[j] \in Cell
  BY ElementOfSeq DEF Both, Inv, TypeOK, CallOK, Cell
<1> DEFINE w == [k \in 1 .. n |-> pdata[Stored + k]]
           u == SubSeq(pdata, Stored + 1, Stored + n)
<1>5. /\ u \in Seq(Cell) /\ Len(u) = n
      /\ \A k \in 1 .. n : u[k] = pdata[Stored + k]
  <2>1. \A j \in Stored + 1 .. Stored + n : pdata[j] \in Cell
    BY <1>1, <1>3, <1>4
  <2>2. /\ u \in Seq(Cell)
        /\ Len(u) = IF Stored + 1 <= Stored + n THEN (Stored + n) - (Stored + 1) + 1 ELSE 0
        /\ \A k \in 1 .. (Stored + n) - (Stored + 1) + 1 : u[k] = pdata[(Stored + 1) + k - 1]
    BY <1>1, <1>3, <2>1, SubSeqProperties
  <2> HIDE DEF u
  <2>3. Len(u) = n
    BY <1>1, <1>3, <2>2
  <2>4. ASSUME NEW k \in 1 .. n PROVE u[k] = pdata[Stored + k]
    <3>1. k \in 1 .. (Stored + n) - (Stored + 1) + 1 /\ (Stored + 1) + k - 1 = Stored + k
      BY <1>1, <1>3
    <3> QED
      BY <2>2, <3>1
  <2> QED
    BY <2>2, <2>3, <2>4
<1>6. mem' = [mem EXCEPT ![tail] = [i \in 0 .. MYPAGESIZE - 1 |->
                IF i - (MYPAGESIZE - left) + 1 \in 1 .. n
                THEN w[i - (MYPAGESIZE - left) + 1] ELSE mem[tail][i]]]
  <2>1. mem' = [mem EXCEPT ![tail] = [i \in Index |->
                  IF i - (MYPAGESIZE - left) + 1 \in 1 .. n
                  THEN pdata[Stored + (i - (MYPAGESIZE - left) + 1)] ELSE mem[tail][i]]]
    BY DEF Store
  <2>2. [i \in Index |-> IF i - (MYPAGESIZE - left) + 1 \in 1 .. n
                        THEN pdata[Stored + (i - (MYPAGESIZE - left) + 1)] ELSE mem[tail][i]]
        = [i \in 0 .. MYPAGESIZE - 1 |-> IF i - (MYPAGESIZE - left) + 1 \in 1 .. n
                        THEN w[i - (MYPAGESIZE - left) + 1] ELSE mem[tail][i]]
    BY DEF Index
  <2> HIDE DEF w
  <2> QED
    BY <2>1, <2>2
<1> HIDE DEF w, u
<1>7. /\ IsRing(PageAhead, npages, head, next) /\ tail = PageAhead[EndPage]
      /\ PageAhead' = PageAhead
  BY <1>2, SameRing DEF Both, RingInv
<1>8. EndsIn(MYPAGESIZE, npages, offset + DataSize, left)
  BY <1>2, EndOfData DEF Both, EndsIn, EndPage
<1>9. DataSize + n <= npages * MYPAGESIZE
  BY <1>1 DEF Both, Inv, TypeOK, SizeOK
<1>10. mem \in [1 .. npages -> [Index -> Cell]]
  BY DEF Both, Inv, TypeOK, RingOK, Page, Cell
<1>11. /\ \A a \in offset .. offset + DataSize - 1 :
             ByteAt(mem', PageAhead, MYPAGESIZE, a) = ByteAt(mem, PageAhead, MYPAGESIZE, a)
       /\ \A k \in 1 .. n : ByteAt(mem', PageAhead, MYPAGESIZE, offset + DataSize + k - 1) = w[k]
  <2>1. tail = PageAhead[(offset + DataSize) \div MYPAGESIZE]
    BY <1>7 DEF EndPage
  <2>2. IsFilled(mem', mem, npages, PageAhead, MYPAGESIZE, offset + DataSize, left, n, w)
    BY <1>6, <1>10, <2>1 DEF IsFilled
  <2>3. RoomBehind(MYPAGESIZE, npages, PageAhead, head, next, offset, DataSize, left, n)
    BY <1>1, <1>2, <1>7, <1>8, <1>9 DEF RoomBehind
  <2>4. IsAdded(mem', mem, PageAhead, MYPAGESIZE, offset, DataSize, n, w)
    BY <2>2, <2>3, FilledBehind
  <2> QED
    BY <2>4 DEF IsAdded
<1> DEFINE b(i) == ByteAt(mem, PageAhead, MYPAGESIZE, offset + i - 1)
           c(i) == ByteAt(mem', PageAhead, MYPAGESIZE, offset + i - 1)
<1>12. /\ Contents \in Seq(Cell) /\ Len(Contents) = DataSize
       /\ \A i \in 1 .. DataSize : Contents[i] = b(i)
  BY ContentsType DEF ContentsTyped, Both
<1>13. /\ Contents' \in Seq(Cell) /\ Len(Contents') = DataSize + n
       /\ \A i \in 1 .. DataSize + n : Contents'[i] = c(i)
  BY <1>7, ContentsTypeThen DEF ContentsTyped, Both
<1>14. ASSUME NEW i \in 1 .. DataSize PROVE c(i) = b(i)
  <2>1. offset + i - 1 \in offset .. offset + DataSize - 1
    BY <1>1
  <2> QED
    BY <1>11, <2>1
<1>15. ASSUME NEW k \in 1 .. n PROVE c(DataSize + k) = w[k]
  <2>1. offset + (DataSize + k) - 1 = offset + DataSize + k - 1
    BY <1>1
  <2> QED
    BY <1>11, <2>1
<1> HIDE DEF b, c
<1>16. /\ Contents \o u \in Seq(Cell) /\ Len(Contents \o u) = DataSize + n
       /\ \A i \in 1 .. DataSize + n :
             (Contents \o u)[i] = IF i <= DataSize THEN Contents[i] ELSE u[i - DataSize]
  BY <1>5, <1>12, ConcatProperties
<1>17. ASSUME NEW i \in 1 .. DataSize + n PROVE Contents'[i] = (Contents \o u)[i]
  <2>1. CASE i <= DataSize
    <3>1. i \in 1 .. DataSize
      BY <1>1, <2>1
    <3>2. Contents'[i] = c(i) /\ Contents[i] = b(i)
      BY <1>12, <1>13, <3>1
    <3>3. (Contents \o u)[i] = Contents[i]
      BY <1>16, <2>1
    <3> QED
      BY <1>14, <3>1, <3>2, <3>3
  <2>2. CASE i > DataSize
    <3>1. i - DataSize \in 1 .. n /\ DataSize + (i - DataSize) = i
      BY <1>1, <2>2
    <3>2. u[i - DataSize] = w[i - DataSize]
      BY <1>5, <3>1 DEF w
    <3>3. c(i) = w[i - DataSize]
      BY <1>15, <3>1
    <3>4. (Contents \o u)[i] = u[i - DataSize]
      BY <1>1, <1>16, <2>2
    <3>5. Contents'[i] = c(i)
      BY <1>13
    <3> QED
      BY <3>2, <3>3, <3>4, <3>5
  <2>3. i \in Int /\ DataSize \in Int
    BY <1>1
  <2>4. i <= DataSize \/ i > DataSize
    BY <2>3
  <2> QED
    BY <2>1, <2>2, <2>4
<1>18. Contents' = Contents \o u
  BY <1>13, <1>16, <1>17, SeqEqual
<1> QED
  BY <1>5, <1>18 DEF u

-----------------------------------------------------------------------------
(* The stream is a queue *)

\* The first n elements.
LEMMA PrefixOf ==
    ASSUME NEW S, NEW c \in Seq(S), NEW n \in 0 .. Len(c)
    PROVE  SubSeq(c, 1, n) \in Seq(S) /\ Len(SubSeq(c, 1, n)) = n
<1>1. Len(c) \in Nat /\ n \in Nat /\ n <= Len(c)
  BY LenProperties
<1>2. \A i \in 1 .. Len(c) : c[i] \in S
  BY ElementOfSeq
<1>3. \A i \in 1 .. n : c[i] \in S
  BY <1>1, <1>2
<1>4. /\ SubSeq(c, 1, n) \in Seq(S)
      /\ Len(SubSeq(c, 1, n)) = IF 1 <= n THEN n - 1 + 1 ELSE 0
  BY <1>1, <1>3, SubSeqProperties
<1> QED
  BY <1>1, <1>4

\* Cutting behind what was put in front.
LEMMA CutBehind ==
    ASSUME NEW S, NEW p \in Seq(S), NEW c \in Seq(S), NEW n \in 0 .. Len(c)
    PROVE  /\ SubSeq(c, 1, n) \in Seq(S) /\ SubSeq(c, n + 1, Len(c)) \in Seq(S)
           /\ Len(SubSeq(c, 1, n)) = n
           /\ SubSeq(c, 1, n) \o SubSeq(c, n + 1, Len(c)) = c
           /\ SubSeq(p \o c, 1, Len(p) + n) = p \o SubSeq(c, 1, n)
           /\ SubSeq(p \o c, Len(p) + n + 1, Len(p \o c)) = SubSeq(c, n + 1, Len(c))
<1> DEFINE a == SubSeq(c, 1, n)
           b == SubSeq(c, n + 1, Len(c))
<1>1. Len(p) \in Nat /\ Len(c) \in Nat /\ n \in Nat /\ n <= Len(c)
  BY LenProperties
<1>2. \A i \in 1 .. Len(c) : c[i] \in S
  BY ElementOfSeq
<1>3. a \in Seq(S) /\ Len(a) = n
  BY PrefixOf
<1>4. b \in Seq(S)
  <2>1. \A i \in n + 1 .. Len(c) : c[i] \in S
    BY <1>1, <1>2
  <2> QED
    BY <1>1, <2>1, SubSeqProperties
<1>5. a \o b = c
  <2>1. 1 \in 1 .. Len(c) + 1 /\ n \in 1 - 1 .. Len(c) /\ Len(c) \in n .. Len(c)
    BY <1>1
  <2>2. SubSeq(c, 1, n) \o SubSeq(c, n + 1, Len(c)) = SubSeq(c, 1, Len(c))
    BY <2>1, ConcatAdjacentSubSeq
  <2> QED
    BY <2>2, SubSeqFull
<1> HIDE DEF a, b
<1>6. p \o c = (p \o a) \o b
  <2>1. (p \o a) \o b = p \o (a \o b)
    BY <1>3, <1>4, ConcatAssociative
  <2> QED
    BY <1>5, <2>1
<1> DEFINE d == p \o a
           q == p \o c
           x == SubSeq(q, 1, Len(p) + n)
           y == SubSeq(q, Len(p) + n + 1, Len(q))
<1>7. d \in Seq(S) /\ Len(d) = Len(p) + n
  BY <1>3, ConcatProperties
<1>8. q \in Seq(S) /\ Len(q) = Len(p) + Len(c)
  BY ConcatProperties
<1>d. q = d \o b
  BY <1>6
<1> HIDE DEF d, q
<1>9. x = d
  <2>1. CASE Len(p) + n = 0
    <3>1. x = <<>>
      BY <1>1, <2>1, SubSeqEmpty
    <3>2. d = <<>>
      BY <1>7, <2>1, EmptySeq
    <3> QED
      BY <3>1, <3>2
  <2>2. CASE Len(p) + n # 0
    <3>1. 1 \in 1 .. Len(d) /\ Len(d) \in 1 .. Len(d)
      BY <1>1, <1>7, <2>2
    <3>2. SubSeq(d \o b, 1, Len(d)) = SubSeq(d, 1, Len(d))
      BY <1>4, <1>7, <3>1, SubSeqOfConcat1
    <3>3. SubSeq(d, 1, Len(d)) = d
      BY <1>7, SubSeqFull
    <3> QED
      BY <1>7, <1>d, <3>2, <3>3
  <2> QED
    BY <2>1, <2>2
<1>10. y \in Seq(S) /\ x \o y = q
  <2>1. \A i \in Len(p) + n + 1 .. Len(q) : q[i] \in S
    <3>1. \A i \in 1 .. Len(q) : q[i] \in S
      BY <1>8, ElementOfSeq
    <3> QED
      BY <1>1, <1>8, <3>1
  <2>2. y \in Seq(S)
    BY <1>1, <1>8, <2>1, SubSeqProperties
  <2>3. 1 \in 1 .. Len(q) + 1 /\ Len(p) + n \in 1 - 1 .. Len(q) /\ Len(q) \in Len(p) + n .. Len(q)
    BY <1>1, <1>8
  <2>4. SubSeq(q, 1, Len(p) + n) \o SubSeq(q, Len(p) + n + 1, Len(q)) = SubSeq(q, 1, Len(q))
    BY <1>8, <2>3, ConcatAdjacentSubSeq
  <2> QED
    BY <1>8, <2>2, <2>4, SubSeqFull
<1> HIDE DEF x, y
<1>11. d \o y = d \o b
  BY <1>9, <1>10, <1>d
<1>12. y = b
  BY <1>4, <1>7, <1>10, <1>11, ConcatSimplifications
<1> QED
  BY <1>3, <1>4, <1>5, <1>9, <1>12 DEF a, b, d, q, x, y

\* What a call that has not returned has done: a write has put what it stored
\* behind the queue as it was, a read keeps what it took out.
Halfway ==
    /\ pc # "load" => pbuff = <<>>
    /\ pc = "grow" => nsize = Len(pdata)
    /\ pc = "store" => Stored \in 0 .. DataSize /\ Contents = Queue \o SubSeq(pdata, 1, Stored)

LEMMA HalfwayInit == Init => Halfway /\ BQ!Init
<1> SUFFICES ASSUME Init PROVE Halfway /\ BQ!Init
  OBVIOUS
<1>1. Halfway
  BY DEF Init, Halfway
<1>2. DataSize = 0 /\ pc = "idle"
  BY DEF Init, DataSize
<1>3. Contents = <<>>
  <2>1. Inv /\ RingInv
    BY InvInit, RingInit
  <2>2. Contents \in Seq(Cell) /\ Len(Contents) = 0
    BY <1>2, <2>1, ContentsType DEF ContentsTyped
  <2> QED
    BY <2>2, EmptySeq
<1>4. Queue = <<>>
  BY <1>2, <1>3 DEF Queue
<1> QED
  BY <1>1, <1>4 DEF BQ!Init, BQ!NoResult, NoResult, Init

\* What a step amounts to.
Amounts == Halfway' /\ [BQ!Next]_BQ!vars

\* The call has returned.
LEMMA Returned ==
    ASSUME NEW op, NEW n, NEW bytes, Return(op, n, bytes)
    PROVE  /\ Halfway' /\ Queue' = Contents'
           /\ result' = [op |-> op, n |-> n, bytes |-> bytes]
BY DEF Return, Halfway, Queue

\* What the queue is at each place in a call.
LEMMA QueueNow ==
    /\ pc = "store" => Queue = SubSeq(Contents, 1, DataSize - Stored)
    /\ pc = "load" => Queue = pbuff \o Contents
    /\ pc \notin {"store", "load"} => Queue = Contents
BY DEF Queue

LEMMA QueueThen ==
    /\ pc' = "store" => Queue' = SubSeq(Contents', 1, DataSize' - Stored')
    /\ pc' = "load" => Queue' = pbuff' \o Contents'
    /\ pc' \notin {"store", "load"} => Queue' = Contents'
BY DEF Queue

\* The sequences and numbers the steps are about.
LEMMA Sequences ==
    ASSUME Both
    PROVE  /\ Contents \in Seq(Cell) /\ Contents' \in Seq(Cell)
           /\ Len(Contents) = DataSize /\ Len(Contents') = DataSize'
           /\ pbuff \in Seq(Cell) /\ pdata \in Seq(Cell)
           /\ total \in Nat /\ free \in 0 .. total /\ DataSize \in Nat /\ DataSize' \in Nat
           /\ DataSize = total - free /\ DataSize' = total' - free'
           /\ nsize \in Nat /\ Len(pdata) \in Nat /\ left \in 1 .. MYPAGESIZE
           /\ MYPAGESIZE \in Nat
<1>1. Contents \in Seq(Cell) /\ Len(Contents) = DataSize
  BY ContentsType DEF ContentsTyped, Both
<1>2. Contents' \in Seq(Cell) /\ Len(Contents') = DataSize'
  BY ContentsTypeThen DEF ContentsTyped, Both
<1>3. pbuff \in Seq(Cell) /\ pdata \in Seq(Cell)
  <2>1. pdata \in Seq(Byte) /\ Len(pdata) \in Nat /\ pdata \in [1 .. Len(pdata) -> Byte]
    BY LenProperties DEF Both, Inv, TypeOK, CallOK
  <2>2. pdata \in [1 .. Len(pdata) -> Cell]
    BY <2>1 DEF Cell
  <2>3. pdata \in Seq(Cell)
    BY <2>1, <2>2, SeqDef
  <2> QED
    BY <2>3 DEF Both, Inv, TypeOK, CallOK, Cell
<1>4. Len(Contents) \in Nat /\ Len(Contents') \in Nat
  BY <1>1, <1>2, LenProperties
<1>5. /\ total \in Nat /\ free \in 0 .. total /\ nsize \in Nat /\ Len(pdata) \in Nat
      /\ left \in 1 .. MYPAGESIZE /\ MYPAGESIZE \in Nat
  BY Numbers, PageSizeAssumption DEF Both, Inv
<1>6. DataSize = total - free /\ DataSize' = total' - free'
  BY DEF DataSize
<1> QED
  BY <1>1, <1>2, <1>3, <1>4, <1>5, <1>6

\* Handing out what was kept and the first n bytes of what was left.
LEMMA HandsOut ==
    ASSUME NEW p \in Seq(Cell), NEW c \in Seq(Cell), NEW n \in 0 .. Len(c), NEW op,
           Queue = p \o c, Queue' = SubSeq(c, n + 1, Len(c)),
           result' = [op |-> op, n |-> Len(p) + n, bytes |-> p \o SubSeq(c, 1, n)]
    PROVE  /\ Len(p) + n \in 0 .. Len(Queue)
           /\ BQ!HandOut(op, Len(p) + n)
<1>1. /\ SubSeq(p \o c, 1, Len(p) + n) = p \o SubSeq(c, 1, n)
      /\ SubSeq(p \o c, Len(p) + n + 1, Len(p \o c)) = SubSeq(c, n + 1, Len(c))
  BY CutBehind
<1>2. Len(p) \in Nat /\ Len(c) \in Nat /\ Len(p \o c) = Len(p) + Len(c)
  BY LenProperties, ConcatProperties
<1>3. Len(p) + n \in 0 .. Len(Queue)
  BY <1>2
<1>4. Queue' = SubSeq(Queue, Len(p) + n + 1, Len(Queue))
  BY <1>1
<1>5. result' = [op |-> op, n |-> Len(p) + n, bytes |-> SubSeq(Queue, 1, Len(p) + n)]
  BY <1>1
<1> QED
  BY <1>3, <1>4, <1>5 DEF BQ!HandOut

\* Nothing has happened that a caller can see.
LEMMA Stutters ==
    ASSUME Halfway', Queue' = Queue, UNCHANGED result
    PROVE  Amounts
BY DEF Amounts, BQ!vars

\* The steps of the calls and of the growing ring.
LEMMA GrowAmounts ==
    ASSUME Both, Halfway,
           \/ \E n \in 0 .. MaxWrite : \E m \in 0 .. n : CallWrite(n, m)
           \/ \E n \in 0 .. MaxRead : CallRead(n)
           \/ GrowFirst \/ GrowAfterTail \/ GrowFails \/ GrowDone
    PROVE  Amounts
<1>s. /\ Contents \in Seq(Cell) /\ Len(Contents) = DataSize /\ DataSize \in Nat
      /\ pdata \in Seq(Cell) /\ Len(pdata) \in Nat
  BY Sequences
<1>1. ASSUME NEW n \in 0 .. MaxWrite, NEW m \in 0 .. n, CallWrite(n, m) PROVE Amounts
  <2>1. pbuff' = <<>> /\ pc' = "grow" /\ pc = "idle" /\ nsize' = n /\ result' = NoResult
    BY <1>1 DEF CallWrite, Halfway
  <2>2. Len(pdata') = n
    <3>1. n \in Nat /\ pdata' = [k \in 1 .. n |-> IF k = m THEN Marked ELSE Plain]
      BY <1>1, BoundAssumption DEF CallWrite
    <3>2. pdata' \in [1 .. n -> Byte]
      BY <3>1 DEF Byte
    <3>3. pdata' \in Seq(Byte)
      BY <3>1, <3>2, SeqDef
    <3> QED
      BY <3>1, <3>2, <3>3, LenProperties
  <2>3. Halfway'
    BY <2>1, <2>2 DEF Halfway
  <2>4. UNCHANGED <<ring, head, offset, size>>
    BY <1>1 DEF CallWrite, cursor
  <2>5. Contents' = Contents
    BY <2>4, StillContents
  <2>6. Queue' = Queue
    BY <2>1, <2>5, QueueNow, QueueThen
  <2>7. BQ!Begin
    BY <2>1, <2>6 DEF BQ!Begin, BQ!NoResult, NoResult
  <2> QED
    BY <2>3, <2>7 DEF Amounts, BQ!Next
<1>2. ASSUME NEW n \in 0 .. MaxRead, CallRead(n) PROVE Amounts
  <2>1. pbuff = <<>> /\ pbuff' = <<>> /\ pc' = "load" /\ pc = "idle" /\ result' = NoResult
    BY <1>2 DEF CallRead, Halfway
  <2>2. Halfway'
    BY <2>1 DEF Halfway
  <2>3. UNCHANGED <<ring, head, offset, size>>
    BY <1>2 DEF CallRead, cursor
  <2>4. Contents' = Contents
    BY <2>3, StillContents
  <2>5. Queue = Contents /\ Queue' = <<>> \o Contents
    BY <2>1, <2>4, QueueNow, QueueThen
  <2>6. Queue' = Queue
    BY <1>s, <2>5, ConcatEmptySeq
  <2>7. BQ!Begin
    BY <2>1, <2>6 DEF BQ!Begin, BQ!NoResult, NoResult
  <2> QED
    BY <2>2, <2>7 DEF Amounts, BQ!Next
<1>3. ASSUME GrowFirst PROVE Amounts
  <2>1. /\ pc = "grow" /\ pc' = "grow" /\ pbuff' = pbuff /\ nsize' = nsize /\ pdata' = pdata
        /\ UNCHANGED result
    BY <1>3 DEF GrowFirst, call
  <2>2. Halfway'
    BY <2>1 DEF Halfway
  <2>3. DataSize = 0 /\ DataSize' = 0
    <3>1. DataSize = 0 /\ total = 0 /\ free = 0 /\ MYPAGESIZE \in Nat
      BY <1>3, FirstRing, Numbers, PageSizeAssumption DEF Both, Inv
    <3> QED
      BY <1>3, <3>1 DEF GrowFirst, DataSize
  <2>4. Contents' = Contents
    BY <2>3, NoContents
  <2>5. Queue' = Queue
    BY <2>1, <2>4, QueueNow, QueueThen
  <2> QED
    BY <2>1, <2>2, <2>5, Stutters
<1>4. ASSUME GrowAfterTail PROVE Amounts
  <2>1. /\ pc = "grow" /\ pc' = "grow" /\ pbuff' = pbuff /\ nsize' = nsize /\ pdata' = pdata
        /\ UNCHANGED result
    BY <1>4 DEF GrowAfterTail
  <2>2. Halfway'
    BY <2>1 DEF Halfway
  <2>3. Contents' = Contents
    BY <1>4, GrownContents
  <2>4. Queue' = Queue
    BY <2>1, <2>3, QueueNow, QueueThen
  <2> QED
    BY <2>1, <2>2, <2>4, Stutters
<1>5. ASSUME GrowFails PROVE Amounts
  <2>1. pc = "grow" /\ UNCHANGED <<ring, head, offset, size>>
    BY <1>5 DEF GrowFails, cursor
  <2>2. /\ Halfway' /\ Queue' = Contents'
        /\ result' = [op |-> "write", n |-> 0, bytes |-> <<>>]
    BY <1>5, Returned DEF GrowFails
  <2>3. Queue' = Queue
    BY <2>1, <2>2, StillContents, QueueNow
  <2>4. BQ!WriteRefused
    BY <2>2, <2>3 DEF BQ!WriteRefused
  <2> QED
    BY <2>2, <2>4 DEF Amounts, BQ!Next
<1>6. ASSUME GrowDone PROVE Amounts
  <2>1. /\ pc = "grow" /\ pc' = "store" /\ UNCHANGED <<ring, head, offset, size>>
        /\ UNCHANGED <<pdata, nsize, pbuff, result>>
    BY <1>6 DEF GrowDone, cursor
  <2>2. nsize = Len(pdata) /\ pbuff = <<>>
    BY <2>1 DEF Halfway
  <2>3. Stored' = 0 /\ DataSize' = DataSize
    BY <1>s, <2>1, <2>2 DEF Stored, DataSize, size
  <2>4. Contents' = Contents
    BY <2>1, StillContents
  <2>5. Queue' = SubSeq(Contents, 1, DataSize - 0) /\ Queue = Contents
    BY <2>1, <2>3, <2>4, QueueNow, QueueThen
  <2>6. Queue' = Contents
    <3>1. DataSize - 0 = Len(Contents)
      BY <1>s
    <3>2. SubSeq(Contents, 1, Len(Contents)) = Contents
      BY <1>s, SubSeqFull
    <3> QED
      BY <2>5, <3>1, <3>2
  <2>7. Contents = Contents \o SubSeq(pdata, 1, 0)
    <3>1. SubSeq(pdata, 1, 0) = <<>>
      BY SubSeqEmpty
    <3> QED
      BY <1>s, <3>1, ConcatEmptySeq
  <2>8. pc' = "store" => Stored' \in 0 .. DataSize' /\ Contents' = Queue' \o SubSeq(pdata', 1, Stored')
    BY <1>s, <2>1, <2>3, <2>4, <2>6, <2>7
  <2>9. Halfway'
    BY <2>1, <2>2, <2>8 DEF Halfway
  <2> QED
    BY <2>1, <2>5, <2>6, <2>9, Stutters
<1> QED
  BY <1>1, <1>2, <1>3, <1>4, <1>5, <1>6

\* Storing up to n more bytes: the queue of before and what has been stored.
LEMMA StoresMore ==
    ASSUME Both, Halfway, pc = "store", NEW n \in 1 .. left, n <= nsize, Store(n),
           UNCHANGED <<npages, next, head, offset, total>>, free' = free - n
    PROVE  /\ n <= free /\ DataSize' = DataSize + n /\ Stored \in 0 .. DataSize
           /\ Stored + n \in 0 .. Len(pdata) /\ Queue \in Seq(Cell)
           /\ Len(Queue) = DataSize - Stored
           /\ Contents' = Queue \o SubSeq(pdata, 1, Stored + n)
<1>s. /\ Contents \in Seq(Cell) /\ Len(Contents) = DataSize /\ DataSize \in Nat
      /\ pdata \in Seq(Cell) /\ Len(pdata) \in Nat /\ nsize \in Nat
      /\ total \in Nat /\ free \in 0 .. total /\ n \in Nat
      /\ DataSize = total - free /\ DataSize' = total' - free'
  BY Sequences
<1>1. n <= free /\ nsize <= Len(pdata)
  BY <1>s DEF Both, Inv, LoopInv
<1>2. DataSize' = DataSize + n
  BY <1>s
<1>3. /\ SubSeq(pdata, Stored + 1, Stored + n) \in Seq(Cell)
      /\ Contents' = Contents \o SubSeq(pdata, Stored + 1, Stored + n)
  BY <1>1, <1>2, StoredContents
<1>4. /\ Stored \in 0 .. DataSize /\ Stored \in Nat /\ Stored + n <= Len(pdata)
      /\ Contents = Queue \o SubSeq(pdata, 1, Stored)
      /\ Queue = SubSeq(Contents, 1, DataSize - Stored)
  <2>1. Stored \in Nat /\ Stored + n <= Len(pdata)
    BY <1>s, <1>1 DEF Stored
  <2>2. Stored \in 0 .. DataSize /\ Contents = Queue \o SubSeq(pdata, 1, Stored)
    BY DEF Halfway
  <2> QED
    BY <2>1, <2>2, QueueNow
<1>5. Queue \in Seq(Cell) /\ Len(Queue) = DataSize - Stored
  <2>1. DataSize - Stored \in 0 .. Len(Contents)
    BY <1>s, <1>4
  <2> QED
    BY <1>s, <1>4, <2>1, PrefixOf
<1>6. SubSeq(pdata, 1, Stored) \in Seq(Cell)
  <2>1. Stored \in 0 .. Len(pdata)
    BY <1>s, <1>4
  <2> QED
    BY <1>s, <2>1, PrefixOf
<1>7. SubSeq(pdata, 1, Stored) \o SubSeq(pdata, Stored + 1, Stored + n)
        = SubSeq(pdata, 1, Stored + n)
  <2>1. 1 \in 1 .. Len(pdata) + 1 /\ Stored \in 1 - 1 .. Len(pdata) /\ Stored + n \in Stored .. Len(pdata)
    BY <1>s, <1>4
  <2> QED
    BY <1>s, <2>1, ConcatAdjacentSubSeq
<1>8. (Queue \o SubSeq(pdata, 1, Stored)) \o SubSeq(pdata, Stored + 1, Stored + n)
        = Queue \o SubSeq(pdata, 1, Stored + n)
  <2> DEFINE a == SubSeq(pdata, 1, Stored)
             b == SubSeq(pdata, Stored + 1, Stored + n)
  <2>1. a \in Seq(Cell) /\ b \in Seq(Cell)
    BY <1>3, <1>6
  <2>2. a \o b = SubSeq(pdata, 1, Stored + n)
    BY <1>7
  <2> HIDE DEF a, b
  <2>q. Queue \in Seq(Cell)
    BY <1>5
  <2>3. (Queue \o a) \o b = Queue \o (a \o b)
    BY <2>q, <2>1, ConcatAssociative
  <2> QED
    BY <2>2, <2>3 DEF a, b
<1>9. Stored + n \in 0 .. Len(pdata)
  BY <1>s, <1>4
<1> QED
  BY <1>1, <1>2, <1>3, <1>4, <1>5, <1>8, <1>9

\* The steps of a write: it takes effect when it returns.
LEMMA StoreAmounts ==
    ASSUME Both, Halfway, StoreLast \/ StorePage \/ StoreDone
    PROVE  Amounts
<1>s. /\ Contents \in Seq(Cell) /\ Len(Contents) = DataSize /\ DataSize \in Nat
      /\ Contents' \in Seq(Cell) /\ Len(Contents') = DataSize' /\ DataSize' \in Nat
      /\ pdata \in Seq(Cell) /\ Len(pdata) \in Nat /\ nsize \in Nat /\ left \in 1 .. MYPAGESIZE
      /\ MYPAGESIZE \in Nat
  BY Sequences
<1>f. SubSeq(pdata, 1, Len(pdata)) = pdata
  BY <1>s, SubSeqFull
<1>1. ASSUME StoreLast PROVE Amounts
  <2>1. /\ pc = "store" /\ nsize \in 1 .. left /\ nsize <= nsize /\ Store(nsize)
        /\ UNCHANGED <<npages, next, head, offset, total>> /\ free' = free - nsize
    BY <1>s, <1>1 DEF StoreLast
  <2>2. Contents' = Queue \o SubSeq(pdata, 1, Stored + nsize)
    BY <2>1, StoresMore
  <2>3. Stored + nsize = Len(pdata)
    BY <1>s DEF Stored
  <2>4. /\ Halfway' /\ Queue' = Contents'
        /\ result' = [op |-> "write", n |-> Stored + nsize, bytes |-> pdata]
    BY <1>1, Returned DEF StoreLast
  <2>5. Queue' = Queue \o pdata /\ result' = [op |-> "write", n |-> Len(pdata), bytes |-> pdata]
    BY <1>f, <2>2, <2>3, <2>4
  <2>6. BQ!Write
    BY <2>5 DEF BQ!Write
  <2> QED
    BY <2>4, <2>6 DEF Amounts, BQ!Next
<1>2. ASSUME StorePage PROVE Amounts
  <2>1. /\ pc = "store" /\ left \in 1 .. left /\ left <= nsize /\ Store(left)
        /\ UNCHANGED <<npages, next, head, offset, total>> /\ free' = free - left
        /\ nsize' = nsize - left /\ pc' = "store" /\ pdata' = pdata /\ pbuff' = pbuff
        /\ UNCHANGED result
    BY <1>s, <1>2 DEF StorePage
  <2>2. /\ DataSize' = DataSize + left /\ Stored \in 0 .. DataSize
        /\ Queue \in Seq(Cell) /\ Len(Queue) = DataSize - Stored
        /\ Contents' = Queue \o SubSeq(pdata, 1, Stored + left)
        /\ Stored + left \in 0 .. Len(pdata)
    BY <2>1, StoresMore
  <2>3. Stored' = Stored + left
    BY <1>s, <2>1 DEF Stored
  <2>4. Queue' = SubSeq(Contents', 1, Len(Queue))
    <3>1. DataSize' - Stored' = Len(Queue)
      BY <1>s, <2>2, <2>3
    <3> QED
      BY <2>1, <3>1, QueueThen
  <2>5. SubSeq(Queue \o SubSeq(pdata, 1, Stored + left), 1, Len(Queue)) = Queue
    <3> DEFINE t == SubSeq(pdata, 1, Stored + left)
    <3>1. t \in Seq(Cell) /\ Len(t) \in Nat
      BY <1>s, <2>2, PrefixOf, LenProperties
    <3> HIDE DEF t
    <3>2. 0 \in 0 .. Len(t) /\ Len(Queue) + 0 = Len(Queue)
      BY <1>s, <2>2, <3>1
    <3>3. SubSeq(Queue \o t, 1, Len(Queue) + 0) = Queue \o SubSeq(t, 1, 0)
      BY <2>2, <3>1, <3>2, CutBehind
    <3>4. SubSeq(t, 1, 0) = <<>>
      BY SubSeqEmpty
    <3> QED
      BY <2>2, <3>2, <3>3, <3>4, ConcatEmptySeq DEF t
  <2>6. Queue' = Queue
    BY <2>2, <2>4, <2>5
  <2>7. Stored' \in 0 .. DataSize'
    BY <1>s, <2>2, <2>3
  <2>8. Contents' = Queue' \o SubSeq(pdata', 1, Stored')
    BY <2>1, <2>2, <2>3, <2>6
  <2>9. pbuff' = <<>>
    BY <2>1 DEF Halfway
  <2>10. Halfway'
    BY <2>1, <2>7, <2>8, <2>9 DEF Halfway
  <2> QED
    BY <2>1, <2>6, <2>10, Stutters
<1>3. ASSUME StoreDone PROVE Amounts
  <2>1. pc = "store" /\ nsize = 0 /\ UNCHANGED <<ring, head, offset, size>>
    BY <1>3 DEF StoreDone, cursor
  <2>2. Stored = Len(pdata)
    BY <1>s, <2>1 DEF Stored
  <2>3. /\ Halfway' /\ Queue' = Contents'
        /\ result' = [op |-> "write", n |-> Stored, bytes |-> pdata]
    BY <1>3, Returned DEF StoreDone
  <2>4. Contents' = Contents
    BY <2>1, StillContents
  <2>5. Contents = Queue \o pdata
    BY <1>f, <2>1, <2>2 DEF Halfway
  <2>6. Queue' = Queue \o pdata /\ result' = [op |-> "write", n |-> Len(pdata), bytes |-> pdata]
    BY <2>2, <2>3, <2>4, <2>5
  <2>7. BQ!Write
    BY <2>6 DEF BQ!Write
  <2> QED
    BY <2>3, <2>7 DEF Amounts, BQ!Next
<1> QED
  BY <1>1, <1>2, <1>3

\* The steps of a read, and the calls that are a single step.
LEMMA LoadAmounts ==
    ASSUME Both, Halfway, LoadLast \/ LoadPage \/ LoadDone \/ Foreach \/ Clear
    PROVE  Amounts
<1>s. /\ Contents \in Seq(Cell) /\ Len(Contents) = DataSize /\ DataSize \in Nat
      /\ Contents' \in Seq(Cell) /\ Len(Contents') = DataSize' /\ DataSize' \in Nat
      /\ pbuff \in Seq(Cell) /\ nsize \in Nat /\ Len(pbuff) \in Nat
      /\ DataSize = total - free /\ DataSize' = total' - free' /\ total \in Nat /\ free \in 0 .. total
  BY Sequences, LenProperties
<1>h. DataSize > 0 => /\ InHead \in 1 .. DataSize /\ InHead \in Nat
                      /\ \A n \in 0 .. InHead : HeadBytes(n) = SubSeq(Contents, 1, n)
  <2>1. DataSize > 0 => InHead \in 1 .. MYPAGESIZE - offset /\ InHead <= DataSize
    BY Numbers DEF Both, Inv
  <2> QED
    BY <1>s, <2>1, HeadOfContents DEF Both
<1>e. <<>> \in Seq(Cell) /\ Len(<<>>) = 0
  BY EmptySeq
<1>1. ASSUME LoadLast PROVE Amounts
  <2>1. /\ pc = "load" /\ DataSize > 0 /\ nsize \in 1 .. InHead /\ UNCHANGED ring
        /\ free' = free + nsize /\ total' = total /\ head' = head /\ offset' = offset + nsize
    BY <1>s, <1>h, <1>1 DEF LoadLast
  <2>2. DataSize' = DataSize - nsize
    BY <1>s, <2>1
  <2>3. Contents' = SubSeq(Contents, nsize + 1, Len(Contents))
    BY <1>s, <2>1, <2>2, TakenContents
  <2>4. HeadBytes(nsize) = SubSeq(Contents, 1, nsize) /\ nsize \in 0 .. Len(Contents)
    BY <1>s, <1>h, <2>1
  <2>5. /\ Halfway' /\ Queue' = Contents'
        /\ result' = [op |-> "read", n |-> Len(pbuff) + nsize, bytes |-> pbuff \o HeadBytes(nsize)]
    BY <1>1, Returned DEF LoadLast
  <2>6. Queue = pbuff \o Contents
    BY <2>1, QueueNow
  <2>7. /\ Len(pbuff) + nsize \in 0 .. Len(Queue)
        /\ BQ!HandOut("read", Len(pbuff) + nsize)
    BY <1>s, <2>3, <2>4, <2>5, <2>6, HandsOut
  <2>8. BQ!Read
    BY <2>7 DEF BQ!Read
  <2> QED
    BY <2>5, <2>8 DEF Amounts, BQ!Next
<1>2. ASSUME LoadPage PROVE Amounts
  <2>1. /\ pc = "load" /\ pc' = "load" /\ DataSize > 0 /\ UNCHANGED ring /\ UNCHANGED result
        /\ free' = free + InHead /\ total' = total /\ head' = next[head] /\ offset' = 0
        /\ pbuff' = pbuff \o HeadBytes(InHead)
    BY <1>2 DEF LoadPage
  <2>0. InHead \in 1 .. DataSize /\ InHead \in Nat
    BY <1>h, <2>1
  <2>2. DataSize' = DataSize - InHead /\ InHead \in 1 .. InHead /\ InHead \in 0 .. Len(Contents)
    <3>1. InHead \in 1 .. InHead /\ InHead \in 0 .. Len(Contents)
      BY <1>s, <2>0
    <3> HIDE DEF InHead, DataSize
    <3>2. DataSize' = DataSize - InHead
      BY <1>s, <2>0, <2>1
    <3> QED
      BY <3>1, <3>2
  <2>3. Contents' = SubSeq(Contents, InHead + 1, Len(Contents))
    BY <1>s, <2>1, <2>2, TakenContents
  <2>4. HeadBytes(InHead) = SubSeq(Contents, 1, InHead)
    BY <1>h, <2>1, <2>2
  <2>5. /\ SubSeq(Contents, 1, InHead) \in Seq(Cell)
        /\ SubSeq(Contents, 1, InHead) \o SubSeq(Contents, InHead + 1, Len(Contents)) = Contents
    BY <1>s, <2>2, CutBehind
  <2>6. (pbuff \o HeadBytes(InHead)) \o Contents' = pbuff \o Contents
    <3> DEFINE a == HeadBytes(InHead)
               b == Contents'
    <3>1. a \in Seq(Cell) /\ b \in Seq(Cell)
      BY <1>s, <2>4, <2>5
    <3>2. a \o b = Contents
      BY <2>3, <2>4, <2>5
    <3> HIDE DEF a, b
    <3>p. pbuff \in Seq(Cell)
      BY <1>s
    <3>3. (pbuff \o a) \o b = pbuff \o (a \o b)
      BY <3>1, <3>p, ConcatAssociative
    <3> QED
      BY <3>2, <3>3 DEF a, b
  <2>7. Queue' = Queue
    BY <2>1, <2>6, QueueNow, QueueThen
  <2>8. Halfway'
    BY <2>1 DEF Halfway
  <2> QED
    BY <2>1, <2>7, <2>8, Stutters
<1>3. ASSUME LoadDone PROVE Amounts
  <2>1. pc = "load" /\ UNCHANGED <<ring, head, size>> /\ (DataSize # 0 => offset' = offset)
    BY <1>3 DEF LoadDone
  <2>2. /\ Halfway' /\ Queue' = Contents'
        /\ result' = [op |-> "read", n |-> Len(pbuff), bytes |-> pbuff]
    BY <1>3, Returned DEF LoadDone
  <2>3. Contents' = Contents
    <3>1. DataSize' = DataSize
      BY <2>1 DEF DataSize, size
    <3>2. CASE DataSize = 0
      BY <3>1, <3>2, NoContents
    <3>3. CASE DataSize # 0
      BY <2>1, <3>3, StillContents
    <3> QED
      BY <3>2, <3>3
  <2>4. Queue = pbuff \o Contents
    BY <2>1, QueueNow
  <2>5. /\ SubSeq(Contents, 1, 0) = <<>> /\ pbuff \o <<>> = pbuff
        /\ SubSeq(Contents, 0 + 1, Len(Contents)) = Contents
    BY <1>s, SubSeqEmpty, SubSeqFull, ConcatEmptySeq
  <2>6. 0 \in 0 .. Len(Contents) /\ Len(pbuff) + 0 = Len(pbuff)
    BY <1>s
  <2>7. /\ Queue' = SubSeq(Contents, 0 + 1, Len(Contents))
        /\ result' = [op |-> "read", n |-> Len(pbuff) + 0, bytes |-> pbuff \o SubSeq(Contents, 1, 0)]
    BY <2>2, <2>3, <2>5, <2>6
  <2>8. /\ Len(pbuff) + 0 \in 0 .. Len(Queue)
        /\ BQ!HandOut("read", Len(pbuff) + 0)
    BY <1>s, <2>4, <2>6, <2>7, HandsOut
  <2>9. BQ!Read
    BY <2>8 DEF BQ!Read
  <2> QED
    BY <2>2, <2>9 DEF Amounts, BQ!Next
<1>4. ASSUME Foreach, DataSize = 0 PROVE Amounts
  <2>1. /\ Return("foreach", 0, <<>>) /\ UNCHANGED <<ring, cursor, size>> /\ pc = "idle"
    BY <1>s, <1>4 DEF Foreach
  <2>2. /\ Halfway' /\ Queue' = Contents' /\ Queue = Contents
        /\ result' = [op |-> "foreach", n |-> 0, bytes |-> <<>>]
    BY <2>1, Returned, QueueNow
  <2>3. DataSize' = 0
    BY <1>4, <2>1 DEF DataSize, size
  <2>4. Queue = <<>> /\ Queue' = <<>>
    BY <1>4, <2>2, <2>3, NoContents
  <2>5. /\ SubSeq(<<>>, 1, 0) = <<>> /\ SubSeq(<<>>, 0 + 1, Len(<<>>)) = <<>>
    BY <1>e, SubSeqEmpty
  <2>6. BQ!HandOut("foreach", 0) /\ 0 \in 0 .. Len(Queue)
    BY <1>e, <2>2, <2>4, <2>5 DEF BQ!HandOut
  <2>7. BQ!Foreach
    BY <2>4, <2>6 DEF BQ!Foreach
  <2> QED
    BY <2>2, <2>7 DEF Amounts, BQ!Next
<1>5. ASSUME Foreach, DataSize # 0 PROVE Amounts
  <2>1. /\ pc = "idle" /\ DataSize > 0 /\ UNCHANGED ring
        /\ free' = free + InHead /\ total' = total /\ head' = next[head] /\ offset' = 0
        /\ Return("foreach", InHead, HeadBytes(InHead))
    BY <1>s, <1>5 DEF Foreach
  <2>0. InHead \in 1 .. DataSize /\ InHead \in Nat
    BY <1>h, <2>1
  <2>2. DataSize' = DataSize - InHead /\ InHead \in 1 .. InHead /\ InHead \in 0 .. Len(Contents)
    <3>1. InHead \in 1 .. InHead /\ InHead \in 0 .. Len(Contents)
      BY <1>s, <2>0
    <3> HIDE DEF InHead, DataSize
    <3>2. DataSize' = DataSize - InHead
      BY <1>s, <2>0, <2>1
    <3> QED
      BY <3>1, <3>2
  <2>3. Contents' = SubSeq(Contents, InHead + 1, Len(Contents))
    BY <1>s, <2>1, <2>2, TakenContents
  <2>4. HeadBytes(InHead) = SubSeq(Contents, 1, InHead)
    BY <1>h, <2>1, <2>2
  <2>5. /\ Halfway' /\ Queue' = Contents' /\ Queue = Contents
        /\ result' = [op |-> "foreach", n |-> InHead, bytes |-> HeadBytes(InHead)]
    BY <2>1, Returned, QueueNow
  <2>6. BQ!HandOut("foreach", InHead) /\ InHead \in 0 .. Len(Queue)
    BY <2>2, <2>3, <2>4, <2>5 DEF BQ!HandOut
  <2>7. InHead # 0
    BY <1>h, <2>1
  <2>8. BQ!Foreach
    BY <2>6, <2>7 DEF BQ!Foreach
  <2> QED
    BY <2>5, <2>8 DEF Amounts, BQ!Next
<1>6. ASSUME Clear PROVE Amounts
  <2>1. Return("clear", 0, <<>>) /\ free' = total /\ total' = total
    BY <1>6 DEF Clear
  <2>2. DataSize' = 0
    BY <1>s, <2>1
  <2>3. /\ Halfway' /\ Queue' = Contents'
        /\ result' = [op |-> "clear", n |-> 0, bytes |-> <<>>]
    BY <2>1, Returned
  <2>4. Queue' = <<>>
    BY <2>2, <2>3, NoContents
  <2>5. BQ!Clear
    BY <2>3, <2>4 DEF BQ!Clear
  <2> QED
    BY <2>3, <2>5 DEF Amounts, BQ!Next
<1> QED
  BY <1>1, <1>2, <1>3, <1>4, <1>5, <1>6

LEMMA StillAmounts ==
    ASSUME Both, Halfway, UNCHANGED vars
    PROVE  Amounts
<1>1. /\ UNCHANGED <<ring, head, offset, size>>
      /\ UNCHANGED <<pc, pdata, nsize, pbuff, result>>
  BY DEF vars, cursor, call
<1>2. Contents' = Contents
  BY <1>1, StillContents
<1>3. Stored' = Stored /\ DataSize' = DataSize
  BY <1>1 DEF Stored, DataSize, size
<1>4. Queue' = Queue
  BY <1>1, <1>2, <1>3 DEF Queue
<1>5. Halfway'
  BY <1>1, <1>2, <1>3, <1>4 DEF Halfway
<1> QED
  BY <1>1, <1>4, <1>5, Stutters

LEMMA StepAmounts ==
    ASSUME Inv, RingInv, Halfway, [Next]_vars
    PROVE  Amounts
<1>1. Both
  BY TypePreserved, BoundPreserved, LoopPreserved, StepPreserved, RingPreserved DEF Both, Inv
<1>2. ASSUME Next PROVE Amounts
  BY <1>1, <1>2, GrowAmounts, StoreAmounts, LoadAmounts DEF Next, Loop
<1>3. ASSUME UNCHANGED vars PROVE Amounts
  BY <1>1, <1>3, StillAmounts
<1> QED
  BY <1>2, <1>3

-----------------------------------------------------------------------------
(* The theorems *)

\* No position leaves its page, and m_iFree never wraps below zero.
THEOREM Ranges == Spec => []TypeOK
<1>1. Inv => TypeOK
  BY DEF Inv
<1> QED
  BY InvAlways, <1>1, PTL

\* The two positions and the byte count, which memstream.c keeps separately,
\* agree modulo the page size after every call and in the middle of every loop.
THEOREM Positions == Spec => []CursorsInStep
<1>1. Inv => CursorsInStep
  BY DEF Inv
<1> QED
  BY InvAlways, <1>1, PTL

\* The ring is within a page of the most it ever had to hold.
THEOREM Bounded == Spec => []MemoryBound
<1>1. Inv => MemoryBound
  BY DEF Inv
<1> QED
  BY InvAlways, <1>1, PTL

\* The links form one ring through all pages, and the writer stands in the page
\* the data ends in, whenever and however often the ring has grown.
THEOREM OneRing == Spec => []RingClosed
<1>1. Inv /\ RingInv => RingClosed
  <2> SUFFICES ASSUME Inv, RingInv, npages > 0
               PROVE  /\ {PageAhead[k] : k \in 0 .. npages - 1} = Page
                      /\ PageAhead[npages] = head
                      /\ ~Emptied => PageAhead[(offset + DataSize) \div MYPAGESIZE] = tail
    BY DEF RingClosed
  <2>1. IsRing(PageAhead, npages, head, next)
    BY DEF RingInv
  <2> DEFINE r == PageAhead
             n == npages
  <2>2. /\ n \in Nat \ {0} /\ r \in [0 .. n -> 1 .. n] /\ r[n] = head
        /\ \A p \in 1 .. n : \E k \in 0 .. n - 1 : r[k] = p
    BY <2>1 DEF IsRing
  <2>3. ~Emptied => r[EndPage] = tail
    BY DEF RingInv
  <2>t. n \in Nat \ {0} /\ r \in [0 .. n -> 1 .. n]
    BY <2>2
  <2> HIDE DEF r, n
  <2>4. \A k \in 0 .. n - 1 : r[k] \in 1 .. n
    BY <2>t
  <2>5. {r[k] : k \in 0 .. n - 1} = 1 .. n
    BY <2>2, <2>4
  <2> QED
    BY <2>2, <2>3, <2>5 DEF r, n, Page, EndPage
<1> QED
  BY RingAlways, <1>1, PTL

\* A memstream is a queue of bytes: its pages, links, positions and counters
\* implement ByteQueue, with the queue read along the links; the bytes a caller
\* gets are the bytes that were written, once each and in order.
THEOREM IsAQueue == Spec => QueueRefinement
<1>1. Inv /\ RingInv /\ Halfway /\ [Next]_vars => Halfway' /\ [BQ!Next]_BQ!vars
  BY StepAmounts DEF Amounts
<1>2. Init => Halfway /\ BQ!Init
  BY HalfwayInit
<1> QED
  BY RingAlways, <1>1, <1>2, PTL DEF Spec, QueueRefinement, BQ!Spec
==============================================================================
