---------------------------- MODULE InputFilter ----------------------------
(***************************************************************************)
(* The body of a request on its way in.  Above fjt_in_filter of mod_fjt.c  *)
(* stands one of mod_proxy's handlers: the filter reads all of the body    *)
(* from the filters below, converts it and hands it to the handler, which  *)
(* may ask without waiting and reads until it sees the end of the stream.  *)
(* apiHandler, the handler of m_iApi, stands on the filters below itself,  *)
(* waits, and passes on what they deliver as it is.  These deliver the     *)
(* body in any pieces, may fail, and put another end of stream behind the  *)
(* first if asked again.                                                   *)
(***************************************************************************)
EXTENDS Utf8Stream

CONSTANTS Texts,      \* the bodies considered: sequences of characters
          MaxAgain    \* bound on the reads that would have waited

ASSUME TextsAssumption == Texts \subseteq Seq(Characters)

VARIABLES
    text,      \* the body, in characters
    filtered,  \* whether the filter was added: not for apiHandler
    blocking,  \* whether the handler waits for data
    sent,      \* how many bytes the filters below have delivered
    ipc,       \* "none", "idle", "get", "buckets", "convert", "ask", "back", "error", "done"
    pstream,   \* what this call of the filter has read
    bb,        \* the brigade: [eos, data]
    again,     \* the reads that would have waited
    lost,      \* a call returned with something read
    taken,     \* what the handler got
    outcome    \* "none", "ok", "bad request"

inVars == <<text, filtered, blocking, sent, ipc, pstream, bb, again, lost, taken, outcome>>

body == BytesOf(text)
Eos == [eos |-> TRUE, data |-> <<>>]
Data(s) == [eos |-> FALSE, data |-> s]

InInit ==
    /\ text = <<>> /\ filtered = TRUE /\ blocking = TRUE
    /\ sent = 0 /\ ipc = "none" /\ pstream = <<>> /\ bb = <<>>
    /\ again = 0 /\ lost = FALSE /\ taken = <<>> /\ outcome = "none"

\* A request with a body comes in; fjt_insert_filter adds the filter or not.
Post ==
    /\ ipc = "none" /\ ipc' = "idle"
    /\ text' \in Texts /\ filtered' \in BOOLEAN /\ blocking' \in BOOLEAN
    /\ ~filtered' => blocking'
    /\ UNCHANGED <<sent, pstream, bb, again, lost, taken, outcome>>

\* ap_get_brigade of the handler, with a brigade that was passed on or is new;
\* the filter starts with an empty stream.
HandlerCalls ==
    /\ ipc = "idle" /\ ipc' = "get"
    /\ pstream' = <<>> /\ bb' = <<>>
    /\ UNCHANGED <<text, filtered, blocking, sent, again, lost, taken, outcome>>

\* The filters below deliver n bytes, with the end if these are the last ones
\* and it comes at once.
ReadBelow(n, end) ==
    /\ ipc = "get" /\ sent + n <= Len(body) /\ n > 0
    /\ end => sent + n = Len(body)
    /\ sent' = sent + n /\ ipc' = "buckets"
    /\ bb' = <<Data(SubSeq(body, sent + 1, sent + n))>> \o (IF end THEN <<Eos>> ELSE <<>>)
    /\ UNCHANGED <<text, filtered, blocking, pstream, again, lost, taken, outcome>>

ReadEnd ==
    /\ ipc = "get" /\ sent = Len(body)
    /\ bb' = <<Eos>> /\ ipc' = "buckets"
    /\ UNCHANGED <<text, filtered, blocking, sent, pstream, again, lost, taken, outcome>>

\* The client is gone, or the read would have waited: the call returns and its
\* stream is gone.
Return ==
    /\ ipc' = "error" /\ lost' = (lost \/ pstream # <<>>) /\ pstream' = <<>>
    /\ UNCHANGED <<text, filtered, blocking, sent, bb, taken, outcome>>
ReadFails == /\ ipc = "get" /\ Return /\ again' = MaxAgain + 1
WouldWait == /\ ipc = "get" /\ ~blocking /\ again < MaxAgain
             /\ Return /\ again' = again + 1

\* Wrong variant: the end of the stream is taken out like any other bucket.
TakeAnyBucket ==
    /\ ipc = "buckets" /\ filtered
    /\ IF bb = <<>> THEN ipc' = "get" /\ UNCHANGED <<pstream, bb>>
       ELSE /\ pstream' = pstream \o Head(bb).data /\ bb' = Tail(bb) /\ UNCHANGED ipc
    /\ UNCHANGED <<text, filtered, blocking, sent, again, lost, taken, outcome>>

\* A bucket is read and deleted, the end of the stream stays in the brigade.
TakeBucket ==
    /\ ipc = "buckets" /\ filtered
    /\ CASE bb = <<>> -> ipc' = "get" /\ UNCHANGED <<pstream, bb>>
         [] bb # <<>> /\ Head(bb).eos -> ipc' = "convert" /\ UNCHANGED <<pstream, bb>>
         [] OTHER -> /\ pstream' = pstream \o Head(bb).data /\ bb' = Tail(bb)
                     /\ UNCHANGED ipc
    /\ UNCHANGED <<text, filtered, blocking, sent, again, lost, taken, outcome>>

BucketFails ==
    /\ ipc = "buckets" /\ filtered /\ bb # <<>> /\ ~Head(bb).eos
    /\ ipc' = "error" /\ lost' = TRUE /\ pstream' = <<>> /\ again' = MaxAgain + 1
    /\ UNCHANGED <<text, filtered, blocking, sent, bb, taken, outcome>>

\* Wrong variant: the converted body is put behind the end of the stream.
ConvertBehind ==
    /\ ipc = "convert" /\ ipc' = "ask"
    /\ bb' = Append(bb, Data(Encoded(translate(Decoded(pstream)))))
    /\ UNCHANGED <<text, filtered, blocking, sent, pstream, again, lost, taken, outcome>>

\* The converted body is put in front of the end of the stream.
ConvertBody ==
    /\ ipc = "convert" /\ ipc' = "ask"
    /\ \E plain \in {Decoded(pstream)} : \E converted \in {translate(plain)} :
          bb' = <<Data(Encoded(converted))>> \o bb
    /\ UNCHANGED <<text, filtered, blocking, sent, pstream, again, lost, taken, outcome>>

\* The filters below are asked once more: they add another end, or fail.
AskAgain(fails) ==
    /\ ipc = "ask"
    /\ IF fails THEN ipc' = "error" /\ lost' = TRUE /\ again' = MaxAgain + 1 /\ UNCHANGED bb
       ELSE ipc' = "back" /\ bb' = Append(bb, Eos) /\ UNCHANGED <<lost, again>>
    /\ UNCHANGED <<text, filtered, blocking, sent, pstream, taken, outcome>>

\* The handler looks at the brigade up to the first end, and passes it on.
HandlerTakes ==
    LET end == SelectInSeq(bb, LAMBDA b : b.eos)
        With(brigade) == taken \o Spread(brigade, LAMBDA b : b.data)
    IN  /\ ipc = IF filtered THEN "back" ELSE "buckets"
        /\ IF end > 0 THEN taken' = With(SubSeq(bb, 1, end - 1)) /\ ipc' = "done" /\ outcome' = "ok"
           ELSE taken' = With(bb) /\ ipc' = "idle" /\ UNCHANGED outcome
        /\ UNCHANGED <<text, filtered, blocking, sent, pstream, bb, again, lost>>

\* A read that would have waited is tried again, any other failure ends it.
HandlerFails ==
    /\ ipc = "error"
    /\ IF again <= MaxAgain THEN ipc' = "idle" /\ UNCHANGED outcome
       ELSE ipc' = "done" /\ outcome' = "bad request"
    /\ UNCHANGED <<text, filtered, blocking, sent, pstream, bb, again, lost, taken>>

Filter == TakeBucket \/ ConvertBody
Handler == HandlerCalls \/ HandlerTakes \/ HandlerFails
Below ==
    \/ \E n \in 1 .. Len(body), end \in BOOLEAN : ReadBelow(n, end)
    \/ ReadEnd \/ ReadFails \/ WouldWait \/ BucketFails
    \/ \E fails \in BOOLEAN : AskAgain(fails)

BodyNext == Filter \/ Handler \/ Below
=============================================================================
