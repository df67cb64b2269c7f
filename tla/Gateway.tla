------------------------------ MODULE Gateway ------------------------------
(***************************************************************************)
(* The way of a request through the module, for several workers that share *)
(* the cache of URLs not found.  find_code_page looks the URL up that      *)
(* mod_rewrite made of the request and takes the older one, OLDURL, for    *)
(* one that is known to be missing; mod_proxy fetches what is left in      *)
(* r->filename; and when the origin answers 404, fjt_out_filter has the    *)
(* URL remembered and sends the client to OLDURL.                          *)
(*                                                                         *)
(* The cache is taken as LruCache promises it, each call one step: see     *)
(* CacheRefinement in NotFoundUrls.  All else a worker does is its own, so *)
(* a request is split only at the cache and at the origin.                 *)
(***************************************************************************)
EXTENDS Naturals, FiniteSets, Sequences

CONSTANTS Workers,
          Requests,            \* the requests considered: see RequestType
          Names,               \* of what the origin server may have
          NULL,
          MAX_CACHE_SIZE

\* A URL is a name and what the module looks for in the text of the URL:
\* "-ifbase", a query, one too long to convert.  "converted" is a query that
\* was converted.
Forms == {"plain", "ifbase", "query", "longquery", "converted"}
Urls  == [name : Names, form : Forms]

RequestType ==
    [api : BOOLEAN,                            \* dc->m_iApi
     proxyreq : BOOLEAN,                       \* and "proxy:" before the URL
     domain : {"allowed", "friendly", "other"},
     url : Urls,                               \* r->filename + 6
     OLDURL : Urls \cup {NULL},                \* in subprocess_env
     baseurl : {"unset", "conf", "env"},       \* m_pcConfBaseUrl or BASEURL
     sameEncode : BOOLEAN]                     \* FromEncode = ToEncode

ASSUME RequestAssumption == Requests \subseteq RequestType
\* OLDURL is another URL: a rewrite rule that gave the URL itself for it would
\* have every 404 end in another 404.
ASSUME OldUrlAssumption ==
    \A q \in Requests : q.OLDURL # NULL => q.OLDURL.name # q.url.name
ASSUME WorkersAssumption == IsFiniteSet(Workers)
ASSUME SizeAssumption == MAX_CACHE_SIZE \in Nat /\ MAX_CACHE_SIZE >= 2

VARIABLES
    cache, answer,         \* the cache of LruCache
    exists,                \* what the origin server has
    r,                     \* r[w]: the request worker w is at, and where with it
    refused,               \* history: URLs asked for that the origin did not have
    tries                  \* history: how often so, since the URL was last pruned

vars == <<cache, answer, exists, r, refused, tries>>

Cache == INSTANCE LruCache

\* The fields are those of request_rec, but for ORIG_URL, in subprocess_env,
\* and m_pcCurrentUrl, in the session.
Idle == [pc |-> "idle"]
RequestRec(q) ==
    [pc |-> "fixup", req |-> q, status |-> 200, handler |-> "proxy-server",
     filename |-> q.url, ORIG_URL |-> NULL, m_pcCurrentUrl |-> NULL]

Set(w, rec) == r' = [r EXCEPT ![w] = rec]

Init ==
    /\ Cache!Init
    /\ exists \in SUBSET Names
    /\ r = [w \in Workers |-> Idle]
    /\ refused = {} /\ tries = [u \in Urls |-> 0]

\* Files come and go on the origin server.
OriginChanges ==
    /\ exists' \in SUBSET Names
    /\ UNCHANGED <<cache, answer, r, refused, tries>>

Accept(w, q) ==
    /\ r[w] = Idle
    /\ Set(w, RequestRec(q))
    /\ UNCHANGED <<cache, answer, exists, refused, tries>>

-----------------------------------------------------------------------------
(* find_code_page *)

At(w, where) == r[w].pc = where
Local == UNCHANGED <<cache, answer, exists, refused, tries>>

\* A request that is answered without the origin server: by apiHandler, by
\* another module, by fjt_handler.
Api(w) ==
    /\ At(w, "fixup") /\ r[w].req.api
    /\ Set(w, [r[w] EXCEPT !.handler = "fjtapi", !.pc = "answer"])
    /\ Local

Decline(w) ==
    /\ At(w, "fixup") /\ ~r[w].req.api /\ ~r[w].req.proxyreq
    /\ Set(w, [r[w] EXCEPT !.handler = "other", !.pc = "answer"])
    /\ Local

OtherDomain(w) ==
    /\ At(w, "fixup") /\ ~r[w].req.api /\ r[w].req.proxyreq
    /\ r[w].req.domain # "allowed"
    /\ Set(w, [r[w] EXCEPT !.status = IF r[w].req.domain = "friendly" THEN 302 ELSE 506,
                           !.handler = "fjt", !.filename = NULL, !.pc = "answer"])
    /\ Local

\* isUrlNotFound is asked only if there is another URL.
Looking(w) ==
    /\ At(w, "fixup") /\ ~r[w].req.api /\ r[w].req.proxyreq
    /\ r[w].req.domain = "allowed"

LookupNone(w) ==
    /\ Looking(w) /\ r[w].req.OLDURL = NULL
    /\ Set(w, [r[w] EXCEPT !.ORIG_URL = r[w].filename, !.pc = "base"])
    /\ Local

\* Wrong variant: the answer is not looked at.
LookupMissTakesOld(w) ==
    /\ Looking(w) /\ r[w].req.OLDURL # NULL
    /\ Cache!LookupMiss(r[w].filename)
    /\ Set(w, [r[w] EXCEPT !.ORIG_URL = r[w].filename,
                           !.filename = r[w].req.OLDURL, !.pc = "base"])
    /\ UNCHANGED <<exists, refused, tries>>

LookupMiss(w) ==
    /\ Looking(w) /\ r[w].req.OLDURL # NULL
    /\ Cache!LookupMiss(r[w].filename)
    /\ Set(w, [r[w] EXCEPT !.ORIG_URL = r[w].filename, !.pc = "base"])
    /\ UNCHANGED <<exists, refused, tries>>

\* Wrong variant: asked whether or not there is another URL.
LookupHitWithoutOld(w) ==
    /\ Looking(w)
    /\ Cache!LookupHit(r[w].filename)
    /\ Set(w, [r[w] EXCEPT !.ORIG_URL = r[w].filename,
                           !.filename = r[w].req.OLDURL, !.pc = "base"])
    /\ UNCHANGED <<exists, refused, tries>>

LookupHit(w) ==
    /\ Looking(w) /\ r[w].req.OLDURL # NULL
    /\ Cache!LookupHit(r[w].filename)
    /\ Set(w, [r[w] EXCEPT !.ORIG_URL = r[w].filename,
                           !.filename = r[w].req.OLDURL, !.pc = "base"])
    /\ UNCHANGED <<exists, refused, tries>>

\* The base of relative URLs, when r->filename will be fetched as u.
FetchWithBase(w, u) ==
    Set(w, [r[w] EXCEPT !.filename = u, !.pc = "fetch",
                        !.m_pcCurrentUrl = IF r[w].req.baseurl = "unset"
                                           THEN u ELSE r[w].req.baseurl])

HasForm(w, form) == r[w].filename.form = form

\* UnChangeChinese turns the names back and removes the mark, unless the URL is
\* longer than 2048.
FetchDecoded(w) ==
    /\ At(w, "base") /\ HasForm(w, "ifbase")
    /\ \E form \in {"plain", "ifbase"} :
          FetchWithBase(w, [r[w].filename EXCEPT !.form = form])
    /\ Local

\* No query, or one that does not fit in tembuf.
FetchAsItIs(w) ==
    /\ At(w, "base") /\ ~r[w].req.sameEncode
    /\ HasForm(w, "plain") \/ HasForm(w, "longquery")
    /\ FetchWithBase(w, r[w].filename)
    /\ Local

FetchConverted(w) ==
    /\ At(w, "base") /\ ~r[w].req.sameEncode
    /\ HasForm(w, "query")
    /\ FetchWithBase(w, [r[w].filename EXCEPT !.form = "converted"])
    /\ Local

FetchSameEncode(w) ==          \* and no base is set
    /\ At(w, "base") /\ r[w].req.sameEncode /\ ~HasForm(w, "ifbase")
    /\ Set(w, [r[w] EXCEPT !.pc = "fetch"])
    /\ Local

-----------------------------------------------------------------------------
(* The origin server, and fjt_out_filter on the way back *)

\* The URL asked for was not replaced by OLDURL.
Own(w) == r[w].filename.name = r[w].ORIG_URL.name

OriginAnswers(w) ==
    /\ At(w, "fetch")
    /\ LET found  == r[w].filename.name \in exists
           missed == ~found /\ Own(w) /\ r[w].req.OLDURL # NULL
           u      == r[w].ORIG_URL
       IN  /\ Set(w, [r[w] EXCEPT !.status = IF found THEN 200 ELSE 404, !.pc = "answer"])
           /\ refused' = IF missed THEN refused \cup {u} ELSE refused
           /\ tries' = IF missed THEN [tries EXCEPT ![u] = @ + 1] ELSE tries
    /\ UNCHANGED <<cache, answer, exists>>

NotThere(w) ==
    /\ At(w, "answer") /\ r[w].handler # "fjt" /\ r[w].status = 404
    /\ r[w].req.OLDURL # NULL

\* Wrong variant: the URL that was fetched is remembered.
FallbackByFilename(w) ==
    /\ NotThere(w)
    /\ Cache!AddKnown(r[w].filename) \/ Cache!AddNew(r[w].filename)
    /\ Set(w, Idle)
    /\ tries' = [u \in Urls |-> IF u \in Cache!Held /\ u \notin Cache!Held'
                                THEN 0 ELSE tries[u]]
    /\ UNCHANGED <<exists, refused>>

\* addUrlNotFound; the client is sent to OLDURL.
Fallback(w) ==
    /\ NotThere(w)
    /\ Cache!AddKnown(r[w].ORIG_URL) \/ Cache!AddNew(r[w].ORIG_URL)
    /\ Set(w, Idle)
    /\ tries' = [u \in Urls |-> IF u \in Cache!Held /\ u \notin Cache!Held'
                                THEN 0 ELSE tries[u]]
    /\ UNCHANGED <<exists, refused>>

\* Any other answer has no effect on later requests.
Answer(w) ==
    /\ At(w, "answer") /\ ~NotThere(w)
    /\ Set(w, Idle)
    /\ Local

find_code_page(w) == \/ Api(w) \/ Decline(w) \/ OtherDomain(w)
                     \/ LookupNone(w) \/ LookupMiss(w) \/ LookupHit(w)
                     \/ FetchDecoded(w) \/ FetchAsItIs(w) \/ FetchConverted(w)
                     \/ FetchSameEncode(w)

Next ==
    \/ OriginChanges
    \/ \E w \in Workers :
          \/ \E q \in Requests : Accept(w, q)
          \/ find_code_page(w)
          \/ OriginAnswers(w) \/ Fallback(w) \/ Answer(w)

Spec == Init /\ [][Next]_vars

-----------------------------------------------------------------------------
(* Properties *)

\* Every variable keeps its type; a request that is fetched has a URL.
TypeOK ==
    /\ cache \in Seq(Urls) /\ exists \subseteq Names
    /\ refused \subseteq Urls /\ tries \in [Urls -> Nat]
    /\ \A w \in Workers : r[w] # Idle =>
          /\ r[w].req \in Requests /\ r[w].status \in {200, 302, 404, 506}
          /\ r[w].pc \in {"fixup", "base", "fetch", "answer"}
          /\ r[w].pc \in {"base", "fetch"} => {r[w].filename, r[w].ORIG_URL} \subseteq Urls

\* What the origin server is asked for on behalf of a request is the URL
\* requested or, when the request has another one and the origin server did not
\* have the first, that one.  The other workers, whose 404s this one acts on, may
\* prune the URL or learn of it again at any time in between.
FetchJustified ==
    \A w \in Workers : At(w, "fetch") =>
        LET q == r[w].req
        IN  /\ q.domain = "allowed"
            /\ \/ r[w].filename.name = q.url.name
               \/ q.OLDURL # NULL /\ r[w].filename.name = q.OLDURL.name /\ q.url \in refused

\* Between two prunings of a URL that is not there, the origin server is asked
\* for it at most once by each worker: whatever the module makes of the URL, it
\* remembers it under the name it looks it up by.
MissesBounded == \A u \in Urls : tries[u] <= Cardinality(Workers)
=============================================================================
