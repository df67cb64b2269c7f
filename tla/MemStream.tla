------------------------------ MODULE MemStream ------------------------------
(***************************************************************************)
(* memstream.c: the byte queue every filter of the module buffers a body   *)
(* in.  The bytes live in fixed-size pages linked into a ring; the reader  *)
(* stands at byte m_iOffset of page m_pmbHead and the writer m_iLeft bytes *)
(* before the end of page m_pmbTail.  The ring grows, in the middle of     *)
(* its life, whenever a write needs more room than is free.                *)
(*                                                                         *)
(* A call is split at its loops: `pc' says which loop is running, one step *)
(* is one iteration.  The variables keep the names of the struct           *)
(* (m_iOffset is offset, m_pmbHead is head, ...).  Pages are numbered in   *)
(* the order they are allocated and 0 is the NULL page.                    *)
(*                                                                         *)
(* The counters are `unsigned int' in the code and unbounded here: the two *)
(* agree while a stream holds less than 2^32 bytes.                        *)
(*                                                                         *)
(* The code copies bytes and never looks at one, so what it does with any  *)
(* data it does with data that is all alike but for one byte.  Every byte  *)
(* but one is therefore `Plain'; the one may be anywhere in anything that  *)
(* is written, so losing, repeating or moving ANY byte shows.              *)
(***************************************************************************)
EXTENDS Integers, Sequences

CONSTANTS Plain,       \* every byte written, but one
          Marked,      \* one byte, written once, anywhere in the data
          Junk,        \* what a page fresh from apr_palloc holds
          MYPAGESIZE,  \* bytes per page (1020 in memstream.h)
          MaxPages,    \* how many pages the pool can still provide
          MaxWrite,    \* the longest buffer a caller writes
          MaxRead      \* the longest buffer a caller reads into

Byte == {Plain, Marked}

ASSUME PageSizeAssumption == MYPAGESIZE \in Nat \ {0}
ASSUME ByteAssumption == Plain # Marked /\ Junk \notin Byte
ASSUME BoundAssumption == MaxPages \in Nat /\ MaxWrite \in Nat /\ MaxRead \in Nat

VARIABLES
    npages,            \* pages allocated so far
    mem,               \* mem[p][i]: byte i of page p      (m_chData)
    next,              \* next[p]: the page linked after p (m_pmbNext)
    head, offset,      \* the read position
    tail, left,        \* the write position
    free, total,       \* bytes free in the ring, bytes in the ring
    pc,                \* the loop a running call is in, or "idle"
    pdata,             \* memstream_write: the caller's buffer
    nsize,             \* bytes the running call still wants to move
    pbuff,             \* memstream_read: the bytes handed out so far
    bakmb,             \* memstream_write: has this call moved the head page?
    result,            \* what the last finished call returned
    marked,            \* history: has the marked byte been written?
    peak               \* history: most bytes ever held or asked to be held

ring   == <<npages, mem, next>>
cursor == <<head, offset, tail, left>>
size   == <<free, total>>
call   == <<pc, pdata, nsize, pbuff, bakmb>>
vars   == <<ring, cursor, size, call, result, marked, peak>>

Page  == 1 .. npages
Index == 0 .. MYPAGESIZE - 1

DataSize == total - free                       \* get_memstream_datasize

Max2(a, b) == IF a >= b THEN a ELSE b
Min2(a, b) == IF a <= b THEN a ELSE b

\* Ends the running call and records what it returned.
Return(op, n, bytes) ==
    /\ pc' = "idle"
    /\ result' = [op |-> op, n |-> n, bytes |-> bytes]
    /\ pdata' = <<>> /\ nsize' = 0 /\ pbuff' = <<>> /\ bakmb' = FALSE

NoResult == [op |-> "none", n |-> 0, bytes |-> <<>>]

------------------------------------------------------------------------------
Init ==                                        \* create_memstream
    /\ npages = 0 /\ mem = <<>> /\ next = <<>>
    /\ head = 0 /\ offset = 0
    /\ tail = 0 /\ left = MYPAGESIZE
    /\ free = 0 /\ total = 0
    /\ pc = "idle" /\ pdata = <<>> /\ nsize = 0 /\ pbuff = <<>> /\ bakmb = FALSE
    /\ result = NoResult
    /\ marked = FALSE /\ peak = 0

------------------------------------------------------------------------------
(* memstream_write *)

\* The caller writes n bytes; byte m is the marked one (none if m = 0).
CallWrite(n, m) ==
    /\ pc = "idle"
    /\ m > 0 => ~marked
    /\ pc' = "grow"
    /\ pdata' = [k \in 1 .. n |-> IF k = m THEN Marked ELSE Plain] /\ nsize' = n
    /\ marked' = (marked \/ m > 0)
    /\ peak' = Max2(peak, DataSize + n)
    /\ result' = NoResult
    /\ UNCHANGED <<ring, cursor, size, pbuff, bakmb>>

\* The data of head == tail wraps around inside that one page, so a page
\* linked after it would open a hole in the middle of the data.
WrapsInOnePage == head = tail /\ left - free = MYPAGESIZE - offset

Palloc == npages < MaxPages
FreshPage == [i \in Index |-> Junk]
NewPage == npages + 1

GrowFirst ==                                   \* the ring was empty: tail is NULL
    /\ pc = "grow" /\ free < nsize /\ Palloc
    /\ tail = 0
    /\ npages' = NewPage
    /\ mem' = Append(mem, FreshPage)
    /\ next' = Append(next, NewPage)
    /\ head' = NewPage /\ tail' = NewPage /\ left' = MYPAGESIZE
    /\ free' = free + MYPAGESIZE /\ total' = total + MYPAGESIZE
    /\ UNCHANGED <<offset, call, result, marked, peak>>

\* Wrong variant: the second lap of the data is left behind in the old page.
GrowAfterTailNoCopy ==
    /\ pc = "grow" /\ free < nsize /\ Palloc
    /\ tail # 0
    /\ npages' = NewPage
    /\ next' = [Append(next, next[tail]) EXCEPT ![tail] = NewPage]
    /\ mem' = Append(mem, FreshPage)
    /\ free' = free + MYPAGESIZE /\ total' = total + MYPAGESIZE
    /\ UNCHANGED <<cursor, pc, pdata, nsize, pbuff, bakmb, result, marked, peak>>

\* Wrong variant: the new page is linked to the head instead of next[tail].
GrowAfterTailLinkHead ==
    /\ pc = "grow" /\ free < nsize /\ Palloc
    /\ tail # 0
    /\ npages' = NewPage
    /\ next' = [Append(next, head) EXCEPT ![tail] = NewPage]
    /\ mem' = Append(mem, FreshPage)
    /\ free' = free + MYPAGESIZE /\ total' = total + MYPAGESIZE
    /\ UNCHANGED <<cursor, pc, pdata, nsize, pbuff, bakmb, result, marked, peak>>

\* Wrong variant: `<=' in the loop, which adds a page that is not needed.
GrowAfterTailTooOften ==
    /\ pc = "grow" /\ free <= nsize /\ Palloc
    /\ tail # 0
    /\ npages' = NewPage
    /\ next' = [Append(next, next[tail]) EXCEPT ![tail] = NewPage]
    /\ mem' = Append(mem, FreshPage)
    /\ free' = free + MYPAGESIZE /\ total' = total + MYPAGESIZE
    /\ UNCHANGED <<cursor, pc, pdata, nsize, pbuff, bakmb, result, marked, peak>>

GrowAfterTail ==
    /\ pc = "grow" /\ free < nsize /\ Palloc
    /\ tail # 0
    /\ npages' = NewPage
    /\ next' = [Append(next, next[tail]) EXCEPT ![tail] = NewPage]
    /\ \/ /\ ~bakmb /\ WrapsInOnePage
          /\ mem' = Append(mem, [i \in Index |-> IF i >= offset THEN mem[head][i] ELSE Junk])
          /\ head' = NewPage /\ bakmb' = TRUE
       \/ /\ bakmb \/ ~WrapsInOnePage
          /\ mem' = Append(mem, FreshPage)
          /\ UNCHANGED <<head, bakmb>>
    /\ free' = free + MYPAGESIZE /\ total' = total + MYPAGESIZE
    /\ UNCHANGED <<offset, tail, left, pc, pdata, nsize, pbuff, result, marked, peak>>

\* apr_palloc returns NULL.  Pages linked by earlier iterations stay.
GrowFails ==
    /\ pc = "grow" /\ free < nsize
    /\ Return("write", 0, <<>>)
    /\ UNCHANGED <<ring, cursor, size, marked, peak>>

\* Wrong variant: starts storing while one byte does not fit.
GrowDoneEarly ==
    /\ pc = "grow" /\ free >= (IF tail = 0 THEN nsize ELSE nsize - 1)
    /\ pc' = "store"
    /\ UNCHANGED <<ring, cursor, size, pdata, nsize, pbuff, bakmb, result, marked, peak>>

GrowDone ==
    /\ pc = "grow" /\ free >= nsize
    /\ pc' = "store"
    /\ UNCHANGED <<ring, cursor, size, pdata, nsize, pbuff, bakmb, result, marked, peak>>

Stored == Len(pdata) - nsize                    \* `no'

\* Copies the next n bytes of pdata to the write position.
Store(n) ==
    mem' = [mem EXCEPT ![tail] = [i \in Index |->
              LET k == i - (MYPAGESIZE - left) + 1
              IN  IF k \in 1 .. n THEN pdata[Stored + k] ELSE @[i]]]

StoreLast ==                                   \* the rest fits in the tail page
    /\ pc = "store" /\ nsize > 0 /\ left > nsize
    /\ Store(nsize)
    /\ left' = left - nsize /\ free' = free - nsize
    /\ Return("write", Stored + nsize, pdata)
    /\ UNCHANGED <<npages, next, head, offset, tail, total, marked, peak>>

\* Wrong variant: the next page is entered with no room left in it.
StorePageNoReset ==
    /\ pc = "store" /\ nsize > 0 /\ left <= nsize
    /\ Store(left)
    /\ nsize' = nsize - left
    /\ free' = free - left
    /\ left' = 0 /\ tail' = next[tail]
    /\ UNCHANGED <<npages, next, head, offset, total, pc, pdata, pbuff, bakmb, result, marked, peak>>

StorePage ==                                   \* fill the tail page, go to the next
    /\ pc = "store" /\ nsize > 0 /\ left <= nsize
    /\ Store(left)
    /\ nsize' = nsize - left
    /\ free' = free - left
    /\ left' = MYPAGESIZE /\ tail' = next[tail]
    /\ UNCHANGED <<npages, next, head, offset, total, pc, pdata, pbuff, bakmb, result, marked, peak>>

StoreDone ==
    /\ pc = "store" /\ nsize = 0
    /\ Return("write", Stored, pdata)
    /\ UNCHANGED <<ring, cursor, size, marked, peak>>

------------------------------------------------------------------------------
(* memstream_read *)

CallRead(n) ==
    /\ pc = "idle"
    /\ pc' = "load" /\ nsize' = n
    /\ result' = NoResult
    /\ UNCHANGED <<ring, cursor, size, pdata, pbuff, bakmb, marked, peak>>

\* The first n bytes from the read position on, which lie in one page.
HeadBytes(n) == [k \in 1 .. n |-> mem[head][offset + k - 1]]

\* What the head page still holds of the data.
InHead == Min2(MYPAGESIZE - offset, DataSize)

LoadLast ==                                    \* the head page has more than is wanted
    /\ pc = "load" /\ nsize > 0 /\ DataSize > 0
    /\ InHead > nsize
    /\ free' = free + nsize /\ offset' = offset + nsize
    /\ Return("read", Len(pbuff) + nsize, pbuff \o HeadBytes(nsize))
    /\ UNCHANGED <<ring, head, tail, left, total, marked, peak>>

LoadPage ==                                    \* use the head page up, go to the next
    /\ pc = "load" /\ nsize > 0 /\ DataSize > 0
    /\ InHead <= nsize
    /\ pbuff' = pbuff \o HeadBytes(InHead)
    /\ nsize' = nsize - InHead
    /\ free' = free + InHead
    /\ head' = next[head] /\ offset' = 0
    /\ UNCHANGED <<ring, tail, left, total, pc, pdata, bakmb, result, marked, peak>>

\* Wrong variant: an emptied stream keeps its write position.
LoadDoneNoReset ==
    /\ pc = "load" /\ (nsize = 0 \/ DataSize = 0)
    /\ Return("read", Len(pbuff), pbuff)
    /\ UNCHANGED <<ring, cursor, size, marked, peak>>

LoadDone ==                                    \* an emptied stream starts a fresh page
    /\ pc = "load" /\ (nsize = 0 \/ DataSize = 0)
    /\ IF DataSize = 0
       THEN tail' = head /\ offset' = 0 /\ left' = MYPAGESIZE
       ELSE UNCHANGED <<tail, offset, left>>
    /\ Return("read", Len(pbuff), pbuff)
    /\ UNCHANGED <<ring, head, size, marked, peak>>

------------------------------------------------------------------------------
(* memstream_foreach hands out the rest of the head page.  It returns a    *)
(* pointer into that page; what it points at is copied to `result' here.   *)

Foreach ==
    /\ pc = "idle"
    /\ \/ /\ DataSize = 0
          /\ Return("foreach", 0, <<>>)
          /\ UNCHANGED <<cursor, size>>
       \/ /\ DataSize > 0
          /\ free' = free + InHead
          /\ head' = next[head] /\ offset' = 0
          /\ IF total = free + InHead
             THEN tail' = next[head] /\ left' = MYPAGESIZE
             ELSE UNCHANGED <<tail, left>>
          /\ Return("foreach", InHead, HeadBytes(InHead))
          /\ UNCHANGED total
    /\ UNCHANGED <<ring, marked, peak>>

Clear ==                                       \* memstream_clear
    /\ pc = "idle"
    /\ offset' = 0 /\ left' = MYPAGESIZE /\ free' = total /\ tail' = head
    /\ Return("clear", 0, <<>>)
    /\ UNCHANGED <<ring, head, total, marked, peak>>

------------------------------------------------------------------------------
Loop == \/ GrowFirst \/ GrowAfterTail \/ GrowFails \/ GrowDone
        \/ StoreLast \/ StorePage \/ StoreDone
        \/ LoadLast \/ LoadPage \/ LoadDone

Next == \/ \E n \in 0 .. MaxWrite : \E m \in 0 .. n : CallWrite(n, m)
        \/ \E n \in 0 .. MaxRead : CallRead(n)
        \/ Foreach
        \/ Clear
        \/ Loop

\* A call that was made runs to its end: nothing in memstream.c waits.
Spec == Init /\ [][Next]_vars /\ WF_vars(Loop)

------------------------------------------------------------------------------
(* Properties *)

\* The pages and the links between them.
RingOK ==
    /\ npages \in 0 .. MaxPages
    /\ mem \in [Page -> [Index -> Byte \cup {Junk}]]
    /\ next \in [Page -> Page]

\* A position is in a page, or NULL before the first page.
Place == IF npages = 0 THEN {0} ELSE Page

\* Both positions are inside a page: offset never reaches MYPAGESIZE and left
\* never becomes 0.
CursorOK ==
    /\ head \in Place /\ tail \in Place
    /\ offset \in Index
    /\ left \in 1 .. MYPAGESIZE

\* m_iFree is unsigned: it would wrap if more was stored than is free.
SizeOK == total = npages * MYPAGESIZE /\ free \in 0 .. total

\* The running call.
CallOK ==
    /\ pc \in {"idle", "grow", "store", "load"}
    /\ pdata \in Seq(Byte) /\ nsize \in Nat
    /\ pbuff \in Seq(Byte \cup {Junk}) /\ bakmb \in BOOLEAN
    /\ marked \in BOOLEAN /\ peak \in Nat

\* The type invariant: every variable has its C type and keeps its range.
TypeOK == RingOK /\ CursorOK /\ SizeOK /\ CallOK

\* The emptied stream between the last page read and the reset that follows.
Emptied == pc = "load" /\ DataSize = 0

\* The writer stands exactly DataSize bytes after the reader, counted along
\* the pages: memstream keeps the two positions and the byte count separately,
\* and writing, reading, growing and clearing must keep them in step.
CursorsInStep ==
    ~Emptied => (offset + DataSize + left) % MYPAGESIZE = 0

\* The page k links after the head page.
PageAhead[k \in 0 .. npages] == IF k = 0 THEN head ELSE next[PageAhead[k - 1]]

\* The links form one ring: walking npages links from the head meets every
\* page once and comes back (delete_memstream and all wrapping rely on it),
\* and the page the data ends in is the page the writer stands in.
RingClosed ==
    npages > 0 =>
        /\ {PageAhead[k] : k \in 0 .. npages - 1} = Page
        /\ PageAhead[npages] = head
        /\ ~Emptied => PageAhead[(offset + DataSize) \div MYPAGESIZE] = tail

\* The ring is less than one page larger than the most bytes it was ever
\* asked to hold: pages are used again, so a stream that is filled and drained
\* over and over does not eat the request pool.
MemoryBound == total < peak + MYPAGESIZE

\* What the reader would get now.
Contents ==
    [i \in 1 .. DataSize |->
        LET at == offset + i - 1
        IN  mem[PageAhead[at \div MYPAGESIZE]][at % MYPAGESIZE]]

\* A call takes effect when it returns.
Queue == CASE pc = "store" -> SubSeq(Contents, 1, DataSize - Stored)
           [] pc = "load"  -> pbuff \o Contents
           [] OTHER        -> Contents

\* The pages, links and counters implement a queue of bytes: whatever the
\* order of writes, reads, clears and page allocations that fail, the bytes
\* come out once each, in the order they went in, and none of them is Junk.
BQ == INSTANCE ByteQueue WITH queue <- Queue
QueueRefinement == BQ!Spec

\* Every call returns: none of the loops of memstream.c spins for ever.
CallReturns == pc # "idle" ~> pc = "idle"
==============================================================================
