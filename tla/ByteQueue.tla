------------------------------ MODULE ByteQueue ------------------------------
(***************************************************************************)
(* What a memstream (memstream.c) promises its callers, with no page in    *)
(* sight: a first-in first-out queue of bytes.  Every filter of the module *)
(* collects a whole body in one and converts it from there, so whatever    *)
(* this queue loses, repeats or reorders is lost, repeated or reordered in *)
(* the page the client sees.                                               *)
(*                                                                         *)
(* A call takes effect in one step; `result' is what it returned.          *)
(***************************************************************************)
EXTENDS Naturals, Sequences

VARIABLES queue,       \* the bytes written and not yet read, oldest first
          result       \* the last call: its name, return value, and the bytes
                       \* that crossed the interface, in or out

vars == <<queue, result>>

NoResult == [op |-> "none", n |-> 0, bytes |-> <<>>]

Init == queue = <<>> /\ result = NoResult

\* A call begins: it has no result yet, and nothing has happened to the queue.
Begin == result' = NoResult /\ UNCHANGED queue

\* memstream_write takes all of the caller's bytes and returns their number ...
Write == /\ result'.op = "write"
         /\ result'.n = Len(result'.bytes)
         /\ queue' = queue \o result'.bytes

\* ... or, when a page cannot be allocated, none of them.
WriteRefused == /\ UNCHANGED queue
                /\ result' = [op |-> "write", n |-> 0, bytes |-> <<>>]

\* The first n bytes leave the queue and are handed out.
HandOut(op, n) ==
    /\ queue' = SubSeq(queue, n + 1, Len(queue))
    /\ result' = [op |-> op, n |-> n, bytes |-> SubSeq(queue, 1, n)]

\* memstream_read and memstream_foreach hand out a prefix.
Read == \E n \in 0 .. Len(queue) : HandOut("read", n)

\* memstream_foreach makes progress: it hands out nothing only when the
\* queue is empty, which is what ends the loops built on it.
Foreach == \E n \in 0 .. Len(queue) :
              /\ n = 0 => queue = <<>>
              /\ HandOut("foreach", n)

Clear == /\ queue' = <<>>
         /\ result' = [op |-> "clear", n |-> 0, bytes |-> <<>>]

Next == Begin \/ Write \/ WriteRefused \/ Read \/ Foreach \/ Clear

Spec == Init /\ [][Next]_vars
==============================================================================
