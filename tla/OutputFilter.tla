---------------------------- MODULE OutputFilter ----------------------------
(***************************************************************************)
(* fjt_out_filter of mod_fjt.c over the life of one response.  The content *)
(* handler passes brigades of buckets to it, as many and cut as it likes;  *)
(* the filter either hands each brigade on untouched or collects the body  *)
(* in a memstream and converts it whole when EOS arrives.  The headers     *)
(* leave with the first brigade that reaches the filters below.            *)
(*                                                                         *)
(* The body is a sequence of chunks, one to a data bucket, numbered in the *)
(* order the handler sends them.  What the conversion makes of a chunk is  *)
(* not modelled here, only which chunks it was given.                      *)
(***************************************************************************)
EXTENDS Naturals, FiniteSets, Sequences, SequencesExt

CONSTANTS Requests,        \* the requests considered: see RequestType
          MaxChunks,       \* bound on the data buckets of a response
          MaxMeta,         \* bound on the metadata buckets of a response
          MaxBuckets       \* bound on the buckets of one brigade

RequestType ==
    [handler : {"fjt", "fjtapi", "proxy"},   \* r->handler
     status : {200, 302, 304, 404},          \* the origin server's
     location : {"none", "origin"},          \* its Location header
     oldurl : BOOLEAN,                       \* OLDURL is set in subprocess_env
     notConvert404 : BOOLEAN,                \* dc->m_iNotConvert404
     convertible : BOOLEAN,                  \* a text type, not css, not a font
     charset : {"none", "short", "long"}]    \* of Content-Type: has a charset, and
                                             \* if so, is it longer than 100

ASSUME RequestAssumption == Requests \subseteq RequestType
ASSUME BoundsAssumption == MaxChunks \in Nat /\ MaxMeta \in Nat /\ MaxBuckets \in Nat

VARIABLES
    req,                              \* the request
    sent, metas, finished,            \* handler: chunks and metadata sent, EOS sent
    status, location, length,         \* r->status, Location, has Content-Length
    processed, ms_out,                \* ctx->processed, the memstream of the body
    pc, bb,                           \* where the filter is, its brigade's rest
    down,                             \* what was passed to the next filter
    headers,                          \* the headers the client got
    eos_sent,                         \* r->eos_sent
    notFound,                         \* history: addUrlNotFound was called
    broken,                           \* history: the next filter returned an error
    lost,                             \* history: chunks of brigades given up
    cutOff                            \* history: EOS was among what was given up

handlerVars == <<sent, metas, finished>>
headerVars  == <<status, location, length>>
ctxVars     == <<processed, ms_out>>
downVars    == <<down, headers, eos_sent>>
history     == <<notFound, broken, lost, cutOff>>
vars == <<req, handlerVars, headerVars, ctxVars, pc, bb, downVars, history>>

NotSent == [status |-> 0, location |-> "none", length |-> FALSE]

Data(k) == [kind |-> "data", chunk |-> k]
Meta    == [kind |-> "meta"]
Eos     == [kind |-> "eos"]

ChunksOf(brigade) ==
    FlattenSeq([k \in DOMAIN brigade |-> IF brigade[k].kind = "data"
                                         THEN <<brigade[k].chunk>> ELSE <<>>])

-----------------------------------------------------------------------------
Init ==
    /\ req \in Requests
    /\ sent = 0 /\ metas = 0 /\ finished = FALSE
    /\ status = req.status /\ location = req.location /\ length = TRUE
    /\ processed = FALSE /\ ms_out = <<>>
    /\ pc = "idle" /\ bb = <<>>
    /\ down = <<>> /\ headers = NotSent /\ eos_sent = FALSE
    /\ notFound = FALSE /\ broken = FALSE /\ lost = <<>> /\ cutOff = FALSE

-----------------------------------------------------------------------------
(* The content handler and httpd around it *)

\* The handler passes a brigade with the data and metadata buckets of shape,
\* TRUE for data, and EOS if it is the last one.  ap_pass_brigade takes note of
\* an EOS as it hands it to the first filter, not when the last one has it.
SendBrigade(shape, last) ==
    LET before(k) == Cardinality({i \in 1 .. k : shape[i]})
    IN  /\ pc = "idle" /\ ~finished
        /\ shape # <<>> \/ last
        /\ bb' = [k \in DOMAIN shape |-> IF shape[k] THEN Data(sent + before(k)) ELSE Meta]
                    \o (IF last THEN <<Eos>> ELSE <<>>)
        /\ sent' = sent + before(Len(shape)) /\ sent' <= MaxChunks
        /\ metas' = metas + Len(shape) - before(Len(shape)) /\ metas' <= MaxMeta
        /\ finished' = last /\ eos_sent' = (eos_sent \/ last)
        /\ pc' = "enter"
        /\ UNCHANGED <<req, headerVars, ctxVars, down, headers, history>>

\* The handler is done; ap_finalize_request_protocol sends the EOS it did not.
Finalize ==
    /\ pc = "idle" /\ ~eos_sent
    /\ finished' = TRUE /\ eos_sent' = TRUE
    /\ bb' = <<Eos>> /\ pc' = "enter"
    /\ UNCHANGED <<req, sent, metas, headerVars, ctxVars, down, headers, history>>

\* ap_pass_brigade(f->next, ...): the first brigade takes the headers along,
\* as they are by then.  (Written after what a step does to the headers.)
PassOn(brigade, as) ==
    /\ down' = Append(down, [as |-> as, chunks |-> ChunksOf(brigade),
                             eos |-> Contains(brigade, Eos)])
    /\ headers' = IF headers # NotSent THEN headers
                  ELSE [status |-> status', location |-> location', length |-> length']
    /\ eos_sent' = (eos_sent \/ Contains(brigade, Eos))

-----------------------------------------------------------------------------
(* fjt_out_filter *)

\* return ap_pass_brigade(f->next, bb)
PassUntouched ==
    /\ PassOn(bb, "raw")
    /\ bb' = <<>> /\ pc' = "idle"
    /\ UNCHANGED <<req, handlerVars, ms_out, broken, lost, cutOff>>

Entering == pc = "enter"
IsRedirect == status \in {301, 302}

EnterOwnPage ==                                \* a page of fjt_handler's own
    /\ Entering /\ req.handler = "fjt"
    /\ UNCHANGED <<headerVars, processed, notFound>>
    /\ PassUntouched

\* Wrong variant: the status is left at 404.
EnterFallbackKeeps404 ==
    /\ Entering /\ req.handler # "fjt" /\ status = 404 /\ req.oldurl
    /\ notFound' = TRUE
    /\ location' = "oldurl"
    /\ UNCHANGED <<status, length, processed>>
    /\ PassUntouched

\* The rewritten URL does not exist: go to the one it was rewritten from.
EnterFallback ==
    /\ Entering /\ req.handler # "fjt" /\ status = 404 /\ req.oldurl
    /\ notFound' = TRUE
    /\ status' = 302 /\ location' = "oldurl"
    /\ UNCHANGED <<length, processed>>
    /\ PassUntouched

EnterPlain404 ==
    /\ Entering /\ req.handler # "fjt"
    /\ \/ status = 404 /\ ~req.oldurl /\ req.notConvert404
       \/ status = 304
    /\ UNCHANGED <<headerVars, processed, notFound>>
    /\ PassUntouched

EnterRedirect ==                               \* ChangeUrl may rewrite Location
    /\ Entering /\ req.handler # "fjt" /\ IsRedirect
    /\ location' \in IF location = "none" THEN {"none"} ELSE {location, "changed"}
    /\ UNCHANGED <<status, length, processed, notFound>>
    /\ PassUntouched

\* None of the returns on the status applied.
Ordinary ==
    /\ Entering /\ req.handler # "fjt"
    /\ status # 304 /\ ~IsRedirect
    /\ status = 404 => ~req.oldurl /\ ~req.notConvert404

shouldDo == req.convertible \/ req.handler = "fjtapi"

EnterNotText ==
    /\ Ordinary /\ ~shouldDo
    /\ UNCHANGED <<headerVars, processed, notFound>>
    /\ PassUntouched

\* Wrong variant: with any charset, not only with one too long.
EnterLongTypeUnchecked ==
    /\ Ordinary /\ shouldDo /\ ~processed /\ req.charset # "none"
    /\ processed' = TRUE /\ length' = FALSE
    /\ UNCHANGED <<status, location, notFound>>
    /\ PassUntouched

\* The first brigade of a Content-Type that does not fit in newct: an error to
\* the code, which hands this brigade, and only this one, on.
EnterLongType ==
    /\ Ordinary /\ shouldDo /\ ~processed /\ req.charset = "long"
    /\ processed' = TRUE /\ length' = FALSE
    /\ UNCHANGED <<status, location, notFound>>
    /\ PassUntouched

\* Wrong variant: Content-Length is only dropped with a charset to rewrite.
EnterTextKeepsLength ==
    /\ Ordinary /\ shouldDo
    /\ processed \/ req.charset # "long"
    /\ processed' = TRUE /\ length' = (length /\ req.charset # "short")
    /\ pc' = "loop"
    /\ UNCHANGED <<req, handlerVars, status, location, ms_out, bb, downVars, history>>

EnterText ==
    /\ Ordinary /\ shouldDo
    /\ processed \/ req.charset # "long"
    /\ processed' = TRUE /\ length' = (processed /\ length)
    /\ pc' = "loop"
    /\ UNCHANGED <<req, handlerVars, status, location, ms_out, bb, downVars, history>>

\* A data bucket goes to the memstream.
TakeData ==
    /\ pc = "loop" /\ bb # <<>> /\ Head(bb).kind = "data"
    /\ ms_out' = Append(ms_out, Head(bb).chunk)
    /\ bb' = Tail(bb)
    /\ UNCHANGED <<req, handlerVars, headerVars, processed, pc, downVars, history>>

\* apr_bucket_read fails: the loop ends, and with the call the brigade's rest.
ReadFails ==
    /\ pc = "loop" /\ bb # <<>> /\ Head(bb).kind = "data"
    /\ lost' = lost \o ChunksOf(bb)
    /\ cutOff' = (cutOff \/ Contains(bb, Eos))
    /\ bb' = <<>> /\ pc' = "idle"
    /\ UNCHANGED <<req, handlerVars, headerVars, ctxVars, downVars, notFound, broken>>

\* A metadata bucket overtakes the data.
SendMeta ==
    /\ pc = "loop" /\ bb # <<>> /\ Head(bb).kind = "meta"
    /\ UNCHANGED <<req, handlerVars, headerVars, ctxVars, pc, history>>
    /\ PassOn(<<Head(bb)>>, "meta")
    /\ bb' = Tail(bb)

\* The next filter refuses it: done, with what is there so far; the rest of
\* this brigade is given up.
SendMetaFails ==
    /\ pc = "loop" /\ bb # <<>> /\ Head(bb).kind = "meta"
    /\ UNCHANGED <<req, handlerVars, headerVars, ctxVars, notFound, cutOff>>
    /\ PassOn(<<Head(bb)>>, "meta")
    /\ broken' = TRUE
    /\ lost' = lost \o ChunksOf(bb)
    /\ bb' = <<>> /\ pc' = "convert"

\* Wrong variant: converts what is there at the end of each brigade.
EndOfBrigadeConverts ==
    /\ pc = "loop" /\ bb = <<>>
    /\ pc' = "convert"
    /\ UNCHANGED <<req, handlerVars, headerVars, ctxVars, bb, downVars, history>>

EndOfBrigade ==                                \* no EOS yet
    /\ pc = "loop" /\ bb = <<>>
    /\ pc' = "idle"
    /\ UNCHANGED <<req, handlerVars, headerVars, ctxVars, bb, downVars, history>>

\* Wrong variant: EOS stays in the brigade.
EndOfBodyKeepsEos ==
    /\ pc = "loop" /\ bb # <<>> /\ Head(bb) = Eos
    /\ pc' = "convert"
    /\ UNCHANGED <<req, handlerVars, headerVars, ctxVars, bb, downVars, history>>

EndOfBody ==
    /\ pc = "loop" /\ bb # <<>> /\ Head(bb) = Eos
    /\ bb' = <<>> /\ pc' = "convert"
    /\ UNCHANGED <<req, handlerVars, headerVars, ctxVars, downVars, history>>

\* Wrong variant: the memstream is not emptied.
ConvertAllKeeps ==
    /\ pc = "convert"
    /\ UNCHANGED <<req, handlerVars, headerVars, ctxVars, bb, history>>
    /\ PassOn([k \in DOMAIN ms_out |-> Data(ms_out[k])], "converted")
    /\ pc' = "eos"

\* The body is taken out of the memstream, converted and sent.
ConvertAll ==
    /\ pc = "convert"
    /\ UNCHANGED <<req, handlerVars, headerVars, processed, bb, history>>
    /\ PassOn([k \in DOMAIN ms_out |-> Data(ms_out[k])], "converted")
    /\ ms_out' = <<>>
    /\ pc' = "eos"

\* Wrong variant: returns without an EOS when the body was empty.
SendEosUnlessEmpty ==
    /\ pc = "eos"
    /\ IF Last(down).chunks = <<>>
       THEN UNCHANGED downVars ELSE PassOn(<<Eos>>, "eos")
    /\ pc' = "idle"
    /\ UNCHANGED <<req, handlerVars, headerVars, ctxVars, bb, history>>

SendEos ==
    /\ pc = "eos"
    /\ UNCHANGED <<req, handlerVars, headerVars, ctxVars, bb, history>>
    /\ PassOn(<<Eos>>, "eos")
    /\ pc' = "idle"

Filter == \/ EnterOwnPage \/ EnterFallback \/ EnterPlain404 \/ EnterRedirect
          \/ EnterNotText \/ EnterLongType \/ EnterText
          \/ TakeData \/ ReadFails \/ SendMeta \/ SendMetaFails \/ EndOfBrigade
          \/ EndOfBody \/ ConvertAll \/ SendEos

Shapes == UNION {[1 .. n -> BOOLEAN] : n \in 0 .. MaxBuckets}

Next == \/ \E shape \in Shapes, last \in BOOLEAN : SendBrigade(shape, last)
        \/ Finalize
        \/ Filter

\* The filter runs when it is called, and httpd finalizes every request.
Spec == Init /\ [][Next]_vars /\ WF_vars(Filter) /\ WF_vars(Finalize)

-----------------------------------------------------------------------------
(* Properties *)

\* Every variable keeps its type.
TypeOK ==
    /\ req \in Requests
    /\ sent \in 0 .. MaxChunks /\ metas \in 0 .. MaxMeta /\ finished \in BOOLEAN
    /\ status \in {200, 302, 304, 404}
    /\ location \in {"none", "origin", "changed", "oldurl"} /\ length \in BOOLEAN
    /\ processed \in BOOLEAN /\ ms_out \in Seq(1 .. MaxChunks)
    /\ pc \in {"idle", "enter", "loop", "convert", "eos"}
    /\ pc \in {"idle", "convert", "eos"} => bb = <<>>
    /\ {eos_sent, broken, notFound, cutOff} \subseteq BOOLEAN

Passed == FlattenSeq([k \in DOMAIN down |-> down[k].chunks])

\* However the handler cuts the body into brigades, and wherever metadata or
\* EOS stands among them, each chunk is passed on or waiting exactly once and
\* in the order it was sent; only a failed read or a refused metadata bucket
\* loses any.
NothingLost ==
    Passed \o ms_out \o ChunksOf(bb)
        = FlattenSeq([k \in 1 .. sent |-> IF Contains(lost, k) THEN <<>> ELSE <<k>>])

\* A response is converted whole or not at all, unless its Content-Type is
\* longer than the filter's buffer for it.
WholeOrNotAtAll ==
    req.charset # "long" =>
        ~(/\ \E i \in DOMAIN down : down[i].as = "raw"
          /\ \E i \in DOMAIN down : down[i].as = "converted")

\* The client is never told the length of the body before the conversion when
\* it gets the body after it (mod_fjt.c:296).
NoStaleLength ==
    (\E i \in DOMAIN down : down[i].as = "converted") => ~headers.length

\* A client whose rewritten URL was not found is sent to the original one, and
\* the URL is remembered; no later call for the same response, which finds a
\* redirect in r->status, changes that.
FallbackIsClean ==
    headers # NotSent /\ req.handler # "fjt" /\ req.status = 404 /\ req.oldurl =>
        /\ headers.status = 302 /\ headers.location = "oldurl" /\ notFound
        /\ \A i \in DOMAIN down : down[i].as = "raw"

\* EOS is the last thing passed on, once, unless the next filter has failed.
EosEndsIt ==
    ~broken => \A i \in DOMAIN down : down[i].eos => i = Len(down)

\* The end of the response reaches the client, whatever was refused or given up,
\* unless the bucket that could not be read came in one brigade with EOS.
EosComesOut ==
    finished ~> cutOff \/ \E i \in DOMAIN down : down[i].eos
=============================================================================
