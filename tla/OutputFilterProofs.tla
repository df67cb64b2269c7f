------------------------- MODULE OutputFilterProofs -------------------------
(***************************************************************************)
(* Proofs about fjt_out_filter (module OutputFilter), for any requests and *)
(* any bounds.                                                             *)
(***************************************************************************)
EXTENDS OutputFilter, SequenceLemmas, FiniteSetTheorems, TLAPS

Bucket == {Meta, Eos} \cup {Data(k) : k \in 1 .. MaxChunks}

Types ==
    /\ req \in Requests
    /\ sent \in 0 .. MaxChunks /\ metas \in 0 .. MaxMeta /\ finished \in BOOLEAN
    /\ status \in {200, 302, 304, 404}
    /\ location \in {"none", "origin", "changed", "oldurl"} /\ length \in BOOLEAN
    /\ processed \in BOOLEAN /\ ms_out \in Seq(1 .. MaxChunks)
    /\ pc \in {"idle", "enter", "loop", "convert", "eos"}
    /\ bb \in Seq(Bucket)
    /\ eos_sent \in BOOLEAN /\ broken \in BOOLEAN
    /\ notFound \in BOOLEAN /\ cutOff \in BOOLEAN
    /\ Len(down) \in Nat /\ DOMAIN down = 1 .. Len(down)

\* The responses the filter hands on untouched, by what it looks at before the
\* memstream is used.
Aside ==
    \/ req.handler = "fjt"
    \/ status \in {302, 304}
    \/ status = 404 /\ (req.oldurl \/ req.notConvert404)
    \/ ~shouldDo

HeadersWithFirst == headers = NotSent <=> down = <<>>

AsideUntouched ==
    Aside => /\ pc \in {"idle", "enter"} /\ ~processed
             /\ \A i \in DOMAIN down : down[i].as = "raw"

Converting ==
    /\ pc \in {"loop", "convert", "eos"} => processed
    /\ processed => ~length
    /\ ~processed => ms_out = <<>>
    /\ headers.length => Aside
    /\ req.charset # "long" /\ ~Aside => \A i \in DOMAIN down : down[i].as # "raw"

FallingBack ==
    req.handler # "fjt" /\ req.status = 404 /\ req.oldurl =>
        \/ status = 404 /\ down = <<>>
        \/ /\ status = 302 /\ notFound
           /\ headers.status = 302 /\ headers.location = "oldurl"

Ending ==
    /\ finished => eos_sent
    /\ pc \in {"idle", "convert", "eos"} => bb = <<>>
    /\ \A i \in DOMAIN bb : bb[i] = Eos => finished /\ i = Len(bb)
    /\ ~broken /\ pc \in {"convert", "eos"} => finished
    /\ ~broken => \A i \in DOMAIN down :
                     down[i].eos => i = Len(down) /\ pc = "idle" /\ finished

Inv == Types /\ HeadersWithFirst /\ AsideUntouched /\ Converting /\ FallingBack /\ Ending

LEMMA Requested ==
    ASSUME NEW r \in Requests
    PROVE  /\ r.handler \in {"fjt", "fjtapi", "proxy"}
           /\ r.status \in {200, 302, 304, 404}
           /\ r.location \in {"none", "origin"}
           /\ r.oldurl \in BOOLEAN /\ r.notConvert404 \in BOOLEAN
           /\ r.convertible \in BOOLEAN
           /\ r.charset \in {"none", "short", "long"}
<1>1. r \in RequestType
    BY RequestAssumption
<1>2. QED BY <1>1 DEF RequestType

LEMMA InvInit ==
    ASSUME Init
    PROVE  Inv
<1>1. Types
    <2>1. req \in Requests /\ req.status \in {200, 302, 304, 404}
          /\ req.location \in {"none", "origin"}
        BY Requested DEF Init
    <2>2. /\ bb \in Seq(Bucket) /\ ms_out \in Seq(1 .. MaxChunks)
          /\ Len(down) \in Nat /\ DOMAIN down = 1 .. Len(down)
        BY DEF Init
    <2>3. sent \in 0 .. MaxChunks /\ metas \in 0 .. MaxMeta
        BY BoundsAssumption DEF Init
    <2> HIDE DEF Bucket
    <2>4. QED BY <2>1, <2>2, <2>3 DEF Init, Types
<1>2. HeadersWithFirst /\ AsideUntouched /\ Converting /\ Ending
    BY DEF Init, HeadersWithFirst, AsideUntouched, Converting, Ending, NotSent
<1>3. FallingBack
    BY DEF Init, FallingBack
<1>4. QED BY <1>1, <1>2, <1>3 DEF Inv

-----------------------------------------------------------------------------
(* What the steps have in common *)

LEMMA NextCases ==
    ASSUME [Next]_vars
    PROVE  \/ \E shape \in Shapes, last \in BOOLEAN : SendBrigade(shape, last)
           \/ Finalize
           \/ EnterOwnPage \/ EnterFallback \/ EnterPlain404 \/ EnterRedirect
           \/ EnterNotText \/ EnterLongType \/ EnterText
           \/ TakeData \/ ReadFails \/ SendMeta \/ SendMetaFails \/ EndOfBrigade
           \/ EndOfBody \/ ConvertAll \/ SendEos
           \/ UNCHANGED vars
BY DEF Next, Filter

LEMMA PassOnAppends ==
    ASSUME Types, NEW brigade, NEW as, PassOn(brigade, as)
    PROVE  /\ Len(down') = Len(down) + 1 /\ DOMAIN down' = 1 .. Len(down')
           /\ down' # <<>>
           /\ \A i \in DOMAIN down' : i \in DOMAIN down \/ i = Len(down) + 1
           /\ \A i \in DOMAIN down : down'[i] = down[i]
           /\ down'[Len(down) + 1].as = as
           /\ down'[Len(down) + 1].eos = Contains(brigade, Eos)
           /\ eos_sent' = (eos_sent \/ Contains(brigade, Eos))
<1>1. Len(down) \in Nat /\ DOMAIN down = 1 .. Len(down)
    BY DEF Types
<1> DEFINE part == [as |-> as, chunks |-> ChunksOf(brigade), eos |-> Contains(brigade, Eos)]
<1>2. part.as = as /\ part.eos = Contains(brigade, Eos)
    OBVIOUS
<1>3. down' = Append(down, part) /\ eos_sent' = (eos_sent \/ Contains(brigade, Eos))
    BY DEF PassOn
<1> HIDE DEF part
<1>4. /\ Len(down') = Len(down) + 1 /\ DOMAIN down' = 1 .. Len(down')
      /\ \A i \in DOMAIN down : down'[i] = down[i]
      /\ down'[Len(down) + 1] = part
    BY <1>1, <1>3
<1>5. down' # <<>> /\ \A i \in DOMAIN down' : i \in DOMAIN down \/ i = Len(down) + 1
    BY <1>1, <1>4
<1>6. QED BY <1>2, <1>3, <1>4, <1>5

LEMMA PassOnTyped ==
    ASSUME Types, NEW brigade, NEW as, PassOn(brigade, as)
    PROVE  Len(down') \in Nat /\ DOMAIN down' = 1 .. Len(down') /\ eos_sent' \in BOOLEAN
<1>1. Len(down') \in Nat /\ DOMAIN down' = 1 .. Len(down')
    <2>1. Len(down) \in Nat
        BY DEF Types
    <2>2. QED BY <2>1, PassOnAppends
<1>2. eos_sent' \in BOOLEAN
    BY DEF PassOn
<1>3. QED BY <1>1, <1>2

LEMMA PassOnHeaders ==
    ASSUME HeadersWithFirst, NEW brigade, NEW as, PassOn(brigade, as)
    PROVE  /\ down # <<>> => headers' = headers
           /\ down = <<>> => /\ headers'.status = status'
                             /\ headers'.location = location'
                             /\ headers'.length = length'
<1>1. headers' = IF headers # NotSent THEN headers
                 ELSE [status |-> status', location |-> location', length |-> length']
    BY DEF PassOn
<1>2. CASE down # <<>>
    BY <1>1, <1>2 DEF HeadersWithFirst
<1>3. CASE down = <<>>
    BY <1>1, <1>3 DEF HeadersWithFirst
<1>4. QED BY <1>2, <1>3

-----------------------------------------------------------------------------
(* The brigades of the handler *)

Before(shape, k) == Cardinality({i \in 1 .. k : shape[i]})

\* The chunks of a brigade are counted one at a time.
LEMMA BeforeStep ==
    ASSUME NEW shape, NEW k \in Nat
    PROVE  /\ Before(shape, 0) = 0
           /\ Before(shape, k) \in Nat
           /\ Before(shape, k + 1) = Before(shape, k) + (IF shape[k + 1] THEN 1 ELSE 0)
<1> DEFINE upTo(n) == {i \in 1 .. n : shape[i]}
<1>1. IsFiniteSet(upTo(k))
    <2>1. IsFiniteSet(1 .. k)
        BY FS_Interval
    <2>2. upTo(k) \subseteq 1 .. k
        OBVIOUS
    <2>3. QED BY <2>1, <2>2, FS_Subset
<1>2. upTo(0) = {}
    OBVIOUS
<1>3. upTo(k + 1) = IF shape[k + 1] THEN upTo(k) \cup {k + 1} ELSE upTo(k)
    OBVIOUS
<1>4. k + 1 \notin upTo(k)
    OBVIOUS
<1> HIDE DEF upTo
<1>5. Cardinality(upTo(0)) = 0
    BY <1>2, FS_EmptySet
<1>6. Cardinality(upTo(k)) \in Nat
    BY <1>1, FS_CardinalityType
<1>7. Cardinality(upTo(k + 1)) = Cardinality(upTo(k)) + (IF shape[k + 1] THEN 1 ELSE 0)
    <2>1. Cardinality(upTo(k) \cup {k + 1}) = Cardinality(upTo(k)) + 1
        BY <1>1, <1>4, FS_AddElement
    <2>2. CASE shape[k + 1]
        BY <1>3, <2>1, <2>2
    <2>3. CASE ~shape[k + 1]
        BY <1>3, <1>6, <2>3
    <2>4. QED BY <2>2, <2>3
<1>8. QED BY <1>5, <1>6, <1>7 DEF Before, upTo

LEMMA BeforeGrows ==
    ASSUME NEW shape, NEW n \in Nat, NEW k \in 0 .. n
    PROVE  Before(shape, k) <= Before(shape, n)
<1> DEFINE T == {d \in Nat : Before(shape, k) <= Before(shape, k + d)}
<1>1. 0 \in T
    BY BeforeStep
<1>2. ASSUME NEW d \in T
      PROVE  d + 1 \in T
    <2>1. d \in Nat /\ k + d \in Nat /\ Before(shape, k) <= Before(shape, k + d)
        OBVIOUS
    <2>2. k + (d + 1) = (k + d) + 1
        BY <2>1
    <2>3. /\ Before(shape, k) \in Nat /\ Before(shape, k + d) \in Nat
          /\ \/ Before(shape, (k + d) + 1) = Before(shape, k + d)
             \/ Before(shape, (k + d) + 1) = Before(shape, k + d) + 1
        BY <2>1, BeforeStep
    <2>4. Before(shape, k) <= Before(shape, k + (d + 1))
        BY <2>1, <2>2, <2>3
    <2>5. QED BY <2>1, <2>4
<1>3. T \in SUBSET Nat
    OBVIOUS
<1> HIDE DEF T
<1>4. T = Nat
    BY <1>1, <1>2, <1>3, AllNumbers
<1>5. n - k \in Nat /\ k + (n - k) = n
    OBVIOUS
<1>6. QED BY <1>4, <1>5 DEF T

\* The brigade of the step, without the EOS it may end with.
Buckets(shape, from) ==
    [k \in DOMAIN shape |-> IF shape[k] THEN Data(from + Before(shape, k)) ELSE Meta]

LEMMA SentInBrigade ==
    ASSUME Types, NEW shape \in Shapes, NEW last \in BOOLEAN, SendBrigade(shape, last)
    PROVE  /\ bb' = Buckets(shape, sent) \o (IF last THEN <<Eos>> ELSE <<>>)
           /\ sent' = sent + Before(shape, Len(shape)) /\ sent' \in 0 .. MaxChunks
           /\ metas' \in 0 .. MaxMeta
           /\ Len(shape) \in Nat /\ DOMAIN shape = 1 .. Len(shape)
           /\ shape \in [1 .. Len(shape) -> BOOLEAN]
<1>1. PICK n \in 0 .. MaxBuckets : shape \in [1 .. n -> BOOLEAN]
    BY DEF Shapes
<1>2. n \in Nat /\ Len(shape) = n
    BY <1>1, BoundsAssumption
<1>3. Before(shape, n) \in Nat /\ Before(shape, n) <= n
    <2>1. {i \in 1 .. n : shape[i]} \subseteq 1 .. n
        OBVIOUS
    <2>2. IsFiniteSet(1 .. n) /\ Cardinality(1 .. n) = n
        BY <1>2, FS_Interval
    <2>3. Cardinality({i \in 1 .. n : shape[i]}) <= n
        BY <2>1, <2>2, FS_Subset
    <2>4. QED BY <1>2, <2>3, BeforeStep DEF Before
<1>4. /\ bb' = Buckets(shape, sent) \o (IF last THEN <<Eos>> ELSE <<>>)
      /\ sent' = sent + Before(shape, Len(shape)) /\ sent' <= MaxChunks
      /\ metas' = metas + Len(shape) - Before(shape, Len(shape)) /\ metas' <= MaxMeta
    BY DEF SendBrigade, Buckets, Before
<1>5. sent' \in 0 .. MaxChunks /\ metas' \in 0 .. MaxMeta
    <2> DEFINE chunks == Before(shape, n)
    <2>1. sent \in Nat /\ metas \in Nat /\ MaxChunks \in Nat /\ MaxMeta \in Nat
        BY BoundsAssumption DEF Types
    <2>2. n \in Nat /\ chunks \in Nat /\ chunks <= n
        BY <1>2, <1>3
    <2>3. /\ sent' = sent + chunks /\ sent' <= MaxChunks
          /\ metas' = metas + n - chunks /\ metas' <= MaxMeta
        BY <1>2, <1>4
    <2> HIDE DEF chunks
    <2>4. QED BY <2>1, <2>2, <2>3
<1>6. QED BY <1>1, <1>2, <1>4, <1>5

LEMMA BrigadeTyped ==
    ASSUME Types, NEW shape \in Shapes, NEW last \in BOOLEAN, SendBrigade(shape, last)
    PROVE  /\ bb' \in Seq(Bucket)
           /\ \A i \in DOMAIN bb' : bb'[i] = Eos => last /\ i = Len(bb')
<1> DEFINE data == Buckets(shape, sent)
           n == Len(shape)
<1>1. n \in Nat /\ DOMAIN shape = 1 .. n /\ sent \in Nat
      /\ sent + Before(shape, n) \in 0 .. MaxChunks
    BY SentInBrigade DEF Types
<1>2. ASSUME NEW k \in 1 .. n, shape[k]
      PROVE  sent + Before(shape, k) \in 1 .. MaxChunks
    <2>1. k - 1 \in Nat /\ (k - 1) + 1 = k /\ k \in 0 .. n
        BY <1>1
    <2>2. Before(shape, k - 1) \in Nat /\ Before(shape, k) = Before(shape, k - 1) + 1
        BY <1>2, <2>1, BeforeStep
    <2>3. Before(shape, k) <= Before(shape, n) /\ Before(shape, n) \in Nat
        BY <1>1, <2>1, BeforeGrows, BeforeStep
    <2>4. QED BY <1>1, <2>2, <2>3, BoundsAssumption
<1>3. ASSUME NEW k \in 1 .. n
      PROVE  data[k] \in Bucket /\ data[k] # Eos
    <2>1. data[k] = IF shape[k] THEN Data(sent + Before(shape, k)) ELSE Meta
        BY <1>1 DEF Buckets
    <2>2. Data(sent + Before(shape, k)) # Eos /\ Meta # Eos
        BY DEF Data, Meta, Eos
    <2>3. QED BY <1>2, <2>1, <2>2 DEF Bucket
<1>4. data \in Seq(Bucket) /\ Len(data) = n
    <2>1. data \in [1 .. n -> Bucket]
        BY <1>1, <1>3 DEF Buckets
    <2> HIDE DEF data
    <2>2. QED BY <1>1, <2>1
<1>5. <<Eos>> \in Seq(Bucket) /\ <<>> \in Seq(Bucket)
    BY DEF Bucket
<1> HIDE DEF data
<1>6. bb' = data \o (IF last THEN <<Eos>> ELSE <<>>)
    BY SentInBrigade DEF data
<1>7. CASE last
    <2>1. bb' = Append(data, Eos)
        BY <1>4, <1>6, <1>7, <1>5, AppendIsConcat DEF Bucket
    <2>2. Eos \in Bucket
        BY DEF Bucket
    <2>3. /\ bb' \in Seq(Bucket) /\ Len(bb') = n + 1
          /\ \A i \in 1 .. n : bb'[i] = data[i]
        BY <1>4, <2>1, <2>2, AppendProperties
    <2>4. QED BY <1>1, <1>3, <1>7, <2>3
<1>8. CASE ~last
    <2>1. bb' = data
        BY <1>4, <1>6, <1>8, ConcatEmptySeq
    <2>2. QED BY <1>1, <1>3, <1>4, <2>1
<1>9. QED BY <1>7, <1>8

-----------------------------------------------------------------------------
(* The invariant is kept *)

\* What is left of the brigade is still one, and EOS stands last in it.
LEMMA RestTyped ==
    ASSUME Types, bb # <<>>
    PROVE  /\ Head(bb) \in Bucket /\ Tail(bb) \in Seq(Bucket)
           /\ DOMAIN Tail(bb) = 1 .. Len(Tail(bb))
           /\ Len(bb) = Len(Tail(bb)) + 1
           /\ Head(bb) = bb[1] /\ 1 \in DOMAIN bb
           /\ \A i \in DOMAIN Tail(bb) : i + 1 \in DOMAIN bb /\ Tail(bb)[i] = bb[i + 1]
<1>1. bb \in Seq(Bucket)
    BY DEF Types
<1> HIDE DEF Bucket
<1>2. QED BY <1>1, HeadTailProperties

LEMMA TypesNext ==
    ASSUME Inv, [Next]_vars
    PROVE  Types'
<1>0. Types
    BY DEF Inv
<1>1. ASSUME NEW shape \in Shapes, NEW last \in BOOLEAN, SendBrigade(shape, last)
      PROVE  Types'
    <2>1. sent' \in 0 .. MaxChunks /\ metas' \in 0 .. MaxMeta /\ bb' \in Seq(Bucket)
        BY <1>0, <1>1, SentInBrigade, BrigadeTyped
    <2> HIDE DEF Bucket
    <2>2. QED BY <1>0, <1>1, <2>1 DEF Types, SendBrigade, headerVars, ctxVars, history
<1>2. ASSUME Finalize
      PROVE  Types'
    <2>1. bb' \in Seq(Bucket)
        BY <1>2 DEF Finalize, Bucket
    <2> HIDE DEF Bucket
    <2>2. QED BY <1>0, <1>2, <2>1 DEF Types, Finalize, headerVars, ctxVars, history
<1>3. ASSUME PassUntouched, status' \in {status, 302}, location' \in {location, "oldurl", "changed"},
             length' \in BOOLEAN, processed' \in BOOLEAN, notFound' \in BOOLEAN
      PROVE  Types'
    <2>1. /\ Len(down') \in Nat /\ DOMAIN down' = 1 .. Len(down')
          /\ eos_sent' \in BOOLEAN
        BY <1>0, <1>3, PassOnTyped DEF PassUntouched
    <2>2. bb' \in Seq(Bucket)
        BY <1>3 DEF PassUntouched
    <2> HIDE DEF Bucket
    <2>3. QED BY <1>0, <1>3, <2>1, <2>2 DEF Types, PassUntouched, handlerVars
<1>4. ASSUME EnterOwnPage \/ EnterFallback \/ EnterPlain404 \/ EnterRedirect
             \/ EnterNotText \/ EnterLongType
      PROVE  Types'
    <2>1. PassUntouched
        BY <1>4 DEF EnterOwnPage, EnterFallback, EnterPlain404, EnterRedirect,
                    EnterNotText, EnterLongType
    <2>2. /\ status' \in {status, 302} /\ location' \in {location, "oldurl", "changed"}
          /\ length' \in BOOLEAN /\ processed' \in BOOLEAN /\ notFound' \in BOOLEAN
        <3>1. CASE EnterOwnPage \/ EnterPlain404 \/ EnterNotText
            BY <1>0, <3>1 DEF EnterOwnPage, EnterPlain404, EnterNotText, Types, headerVars
        <3>2. CASE EnterFallback
            BY <1>0, <3>2 DEF EnterFallback, Types
        <3>3. CASE EnterRedirect
            BY <1>0, <3>3 DEF EnterRedirect, Types
        <3>4. CASE EnterLongType
            BY <1>0, <3>4 DEF EnterLongType, Types
        <3>5. QED BY <1>4, <3>1, <3>2, <3>3, <3>4
    <2>3. QED BY <1>3, <2>1, <2>2
<1>5. ASSUME EnterText
      PROVE  Types'
    BY <1>0, <1>5 DEF Types, EnterText, handlerVars, downVars, history
<1>6. ASSUME TakeData
      PROVE  Types'
    <2>1. bb' \in Seq(Bucket) /\ Head(bb) \in Bucket /\ Head(bb).kind = "data"
        BY <1>0, <1>6, RestTyped DEF TakeData
    <2>2. Head(bb).chunk \in 1 .. MaxChunks
        BY <2>1 DEF Bucket, Data, Meta, Eos
    <2> HIDE DEF Bucket
    <2>3. ms_out' \in Seq(1 .. MaxChunks)
        BY <1>0, <1>6, <2>2, AppendProperties DEF TakeData, Types
    <2>4. QED BY <1>0, <1>6, <2>1, <2>3 DEF Types, TakeData, handlerVars, headerVars, downVars, history
<1>7. ASSUME ReadFails
      PROVE  Types'
    <2>1. bb' \in Seq(Bucket) /\ cutOff' \in BOOLEAN
        BY <1>0, <1>7 DEF ReadFails, Contains, Types
    <2> HIDE DEF Bucket
    <2>2. QED BY <1>0, <1>7, <2>1 DEF Types, ReadFails, handlerVars, headerVars, ctxVars, downVars
<1>8. ASSUME SendMeta \/ SendMetaFails
      PROVE  Types'
    <2>1. PassOn(<<Head(bb)>>, "meta")
        BY <1>8 DEF SendMeta, SendMetaFails
    <2>2. /\ Len(down') \in Nat /\ DOMAIN down' = 1 .. Len(down')
          /\ eos_sent' \in BOOLEAN
        BY <1>0, <2>1, PassOnTyped
    <2> HIDE DEF Bucket
    <2>3. bb' \in Seq(Bucket) /\ pc' \in {pc, "convert"} /\ broken' \in BOOLEAN
        <3>1. Tail(bb) \in Seq(Bucket) /\ <<>> \in Seq(Bucket)
            BY <1>0, <1>8, RestTyped DEF SendMeta, SendMetaFails
        <3>2. bb' \in {Tail(bb), <<>>} /\ pc' \in {pc, "convert"} /\ broken' \in {broken, TRUE}
            BY <1>8 DEF SendMeta, SendMetaFails, history
        <3>3. QED BY <1>0, <3>1, <3>2 DEF Types
    <2>4. UNCHANGED <<req, handlerVars, headerVars, ctxVars, notFound, cutOff>>
        BY <1>8 DEF SendMeta, SendMetaFails, history
    <2>5. QED BY <1>0, <2>2, <2>3, <2>4 DEF Types, handlerVars, headerVars, ctxVars
<1>9. ASSUME EndOfBrigade \/ EndOfBody
      PROVE  Types'
    <2> HIDE DEF Bucket
    <2>1. bb' \in {bb, <<>>} /\ <<>> \in Seq(Bucket) /\ pc' \in {"idle", "convert"}
        BY <1>9 DEF EndOfBrigade, EndOfBody
    <2>2. UNCHANGED <<req, handlerVars, headerVars, ctxVars, downVars, history>>
        BY <1>9 DEF EndOfBrigade, EndOfBody
    <2>3. bb' \in Seq(Bucket)
        BY <1>0, <2>1 DEF Types
    <2>4. QED BY <1>0, <2>1, <2>2, <2>3 DEF Types, handlerVars, headerVars, ctxVars, downVars, history
<1>10. ASSUME ConvertAll \/ SendEos
       PROVE  Types'
    <2>1. /\ Len(down') \in Nat /\ DOMAIN down' = 1 .. Len(down')
          /\ eos_sent' \in BOOLEAN
        <3>1. CASE ConvertAll
            BY <1>0, <3>1, PassOnTyped DEF ConvertAll
        <3>2. CASE SendEos
            BY <1>0, <3>2, PassOnTyped DEF SendEos
        <3>3. QED BY <1>10, <3>1, <3>2
    <2> HIDE DEF Bucket
    <2>2. ms_out' \in Seq(1 .. MaxChunks) /\ pc' \in {"eos", "idle"}
        <3>1. ms_out' \in {<<>>, ms_out} /\ pc' \in {"eos", "idle"}
            BY <1>10 DEF ConvertAll, SendEos, ctxVars
        <3>2. <<>> \in Seq(1 .. MaxChunks)
            OBVIOUS
        <3>3. QED BY <1>0, <3>1, <3>2 DEF Types
    <2>3. UNCHANGED <<req, handlerVars, headerVars, processed, bb, history>>
        BY <1>10 DEF ConvertAll, SendEos, ctxVars
    <2>4. QED BY <1>0, <2>1, <2>2, <2>3 DEF Types, handlerVars, headerVars, history
<1>11. CASE UNCHANGED vars
    <2> HIDE DEF Bucket
    <2>1. QED BY <1>0, <1>11 DEF Types, vars, handlerVars, headerVars, ctxVars, downVars, history
<1>12. QED
    BY <1>1, <1>2, <1>4, <1>5, <1>6, <1>7, <1>8, <1>9, <1>10, <1>11, NextCases

Untouched == \/ EnterOwnPage \/ EnterFallback \/ EnterPlain404 \/ EnterRedirect
             \/ EnterNotText \/ EnterLongType

\* What makes a response one that is handed on untouched never changes.
LEMMA AsideFixed ==
    ASSUME Types, [Next]_vars
    PROVE  Aside' = Aside
<1>1. ASSUME EnterFallback
      PROVE  Aside /\ Aside'
    BY <1>1 DEF EnterFallback, PassUntouched, Aside
<1>2. ASSUME ~EnterFallback
      PROVE  req' = req /\ status' = status
    <2>1. CASE \E shape \in Shapes, last \in BOOLEAN : SendBrigade(shape, last)
        BY <2>1 DEF SendBrigade, headerVars
    <2>2. CASE Finalize \/ EnterText
        BY <2>2 DEF Finalize, EnterText, headerVars
    <2>3. CASE EnterOwnPage \/ EnterPlain404 \/ EnterNotText
        BY <2>3 DEF EnterOwnPage, EnterPlain404, EnterNotText, PassUntouched, headerVars
    <2>4. CASE EnterRedirect \/ EnterLongType
        BY <2>4 DEF EnterRedirect, EnterLongType, PassUntouched
    <2>5. CASE TakeData \/ ReadFails \/ SendMeta \/ SendMetaFails
        BY <2>5 DEF TakeData, ReadFails, SendMeta, SendMetaFails, headerVars
    <2>6. CASE EndOfBrigade \/ EndOfBody \/ ConvertAll \/ SendEos \/ UNCHANGED vars
        BY <2>6 DEF EndOfBrigade, EndOfBody, ConvertAll, SendEos, vars, headerVars
    <2>7. QED BY <1>2, <2>1, <2>2, <2>3, <2>4, <2>5, <2>6, NextCases
<1>3. CASE EnterFallback
    BY <1>1, <1>3 DEF Aside
<1>4. CASE ~EnterFallback
    BY <1>2, <1>4 DEF Aside, shouldDo
<1>5. QED BY <1>3, <1>4

\* A brigade is handed on untouched when the response is, and once for a
\* Content-Type that is too long.
LEMMA UntouchedSteps ==
    ASSUME Types, Untouched
    PROVE  /\ pc = "enter" /\ PassOn(bb, "raw") /\ bb' = <<>> /\ pc' = "idle"
           /\ UNCHANGED <<req, finished, ms_out, broken, lost>>
           /\ \/ Aside /\ processed' = processed /\ length' = length
              \/ ~Aside /\ processed' /\ ~length' /\ req.charset = "long" /\ ~processed
<1>1. /\ pc = "enter" /\ PassOn(bb, "raw") /\ bb' = <<>> /\ pc' = "idle"
      /\ UNCHANGED <<req, finished, ms_out, broken, lost>>
    <2>1. PassUntouched /\ Entering
        BY DEF Untouched, EnterOwnPage, EnterFallback, EnterPlain404, EnterRedirect,
               EnterNotText, EnterLongType, Ordinary
    <2>2. QED BY <2>1 DEF PassUntouched, Entering, handlerVars
<1>2. CASE EnterOwnPage \/ EnterFallback \/ EnterPlain404
    BY <1>1, <1>2 DEF EnterOwnPage, EnterFallback, EnterPlain404, Aside, headerVars
<1>3. CASE EnterRedirect \/ EnterNotText
    BY <1>1, <1>3 DEF EnterRedirect, IsRedirect, EnterNotText, Aside, headerVars, Types
<1>4. CASE EnterLongType
    BY <1>1, <1>4 DEF EnterLongType, Ordinary, IsRedirect, Aside
<1>5. QED BY <1>2, <1>3, <1>4 DEF Untouched

LEMMA StepCases ==
    ASSUME [Next]_vars
    PROVE  \/ \E shape \in Shapes, last \in BOOLEAN : SendBrigade(shape, last)
           \/ Finalize
           \/ Untouched
           \/ EnterText
           \/ TakeData \/ ReadFails \/ SendMeta \/ SendMetaFails \/ EndOfBrigade
           \/ EndOfBody \/ ConvertAll \/ SendEos
           \/ UNCHANGED vars
BY NextCases DEF Untouched

\* The headers leave with the first brigade, and with no other.
LEMMA HeadersNext ==
    ASSUME Inv, Types', [Next]_vars
    PROVE  HeadersWithFirst'
<1>0. HeadersWithFirst /\ Types
    BY DEF Inv
<1>1. ASSUME NEW brigade, NEW as, PassOn(brigade, as)
      PROVE  HeadersWithFirst'
    <2>1. down' # <<>>
        BY <1>0, <1>1, PassOnAppends
    <2>2. headers' # NotSent
        <3>1. CASE down # <<>>
            BY <1>0, <1>1, <3>1, PassOnHeaders DEF HeadersWithFirst
        <3>2. CASE down = <<>>
            <4>1. headers'.status = status'
                BY <1>0, <1>1, <3>2, PassOnHeaders
            <4>2. status' # 0
                BY DEF Types
            <4>3. QED BY <4>1, <4>2 DEF NotSent
        <3>3. QED BY <3>1, <3>2
    <2>3. QED BY <2>1, <2>2 DEF HeadersWithFirst
<1>2. CASE \E shape \in Shapes, last \in BOOLEAN : SendBrigade(shape, last)
    BY <1>0, <1>2 DEF SendBrigade, HeadersWithFirst
<1>3. CASE Finalize \/ EnterText \/ TakeData \/ ReadFails \/ EndOfBrigade \/ EndOfBody
           \/ UNCHANGED vars
    BY <1>0, <1>3 DEF Finalize, EnterText, TakeData, ReadFails, EndOfBrigade, EndOfBody,
                      vars, downVars, HeadersWithFirst
<1>4. CASE Untouched
    BY <1>0, <1>1, <1>4, UntouchedSteps
<1>5. CASE SendMeta \/ SendMetaFails
    BY <1>1, <1>5 DEF SendMeta, SendMetaFails
<1>6. CASE ConvertAll
    BY <1>1, <1>6 DEF ConvertAll
<1>7. CASE SendEos
    BY <1>1, <1>7 DEF SendEos
<1>8. QED BY <1>2, <1>3, <1>4, <1>5, <1>6, <1>7, StepCases

LEMMA AsideNext ==
    ASSUME Inv, [Next]_vars
    PROVE  AsideUntouched'
<1>0. AsideUntouched /\ Types /\ Converting
    BY DEF Inv
<1>1. SUFFICES ASSUME Aside'
               PROVE  /\ pc' \in {"idle", "enter"} /\ ~processed'
                      /\ \A i \in DOMAIN down' : down'[i].as = "raw"
    BY DEF AsideUntouched
<1>2. Aside /\ pc \in {"idle", "enter"} /\ ~processed
      /\ \A i \in DOMAIN down : down[i].as = "raw"
    BY <1>0, <1>1, AsideFixed DEF AsideUntouched
<1>3. CASE \E shape \in Shapes, last \in BOOLEAN : SendBrigade(shape, last)
    BY <1>2, <1>3 DEF SendBrigade, ctxVars
<1>4. CASE Finalize
    BY <1>2, <1>4 DEF Finalize, ctxVars
<1>5. CASE Untouched
    <2>1. PassOn(bb, "raw") /\ pc' = "idle" /\ processed' = processed
        BY <1>0, <1>2, <1>5, UntouchedSteps
    <2>2. \A i \in DOMAIN down' : i \in DOMAIN down \/ i = Len(down) + 1
        BY <1>0, <2>1, PassOnAppends DEF Types
    <2>3. QED BY <1>0, <1>2, <2>1, <2>2, PassOnAppends
<1>6. CASE EnterText
    <2>1. ~Aside
        BY <1>0, <1>6 DEF EnterText, Ordinary, IsRedirect, Aside
    <2>2. QED BY <1>2, <2>1
<1>7. CASE TakeData \/ ReadFails \/ SendMeta \/ SendMetaFails \/ EndOfBrigade \/ EndOfBody
    BY <1>2, <1>7 DEF TakeData, ReadFails, SendMeta, SendMetaFails, EndOfBrigade, EndOfBody
<1>8. CASE ConvertAll \/ SendEos
    BY <1>2, <1>8 DEF ConvertAll, SendEos
<1>9. CASE UNCHANGED vars
    BY <1>2, <1>9 DEF vars, ctxVars, downVars
<1>10. QED BY <1>3, <1>4, <1>5, <1>6, <1>7, <1>8, <1>9, StepCases

\* Only the steps that leave the conversion out pass on the body as it came.
LEMMA RawParts ==
    ASSUME Types, Converting, NEW brigade, NEW as, PassOn(brigade, as), Aside' = Aside,
           req' = req, as # "raw"
    PROVE  req'.charset # "long" /\ ~Aside' => \A i \in DOMAIN down' : down'[i].as # "raw"
BY PassOnAppends DEF Converting

LEMMA ConvertingNext ==
    ASSUME Inv, Types', [Next]_vars
    PROVE  Converting'
<1>0. Converting /\ Types /\ HeadersWithFirst /\ AsideUntouched /\ Aside' = Aside
    BY AsideFixed DEF Inv
<1>1. CASE \E shape \in Shapes, last \in BOOLEAN : SendBrigade(shape, last)
    BY <1>0, <1>1 DEF SendBrigade, Converting, headerVars, ctxVars
<1>2. CASE Finalize \/ ReadFails \/ EndOfBrigade \/ EndOfBody \/ UNCHANGED vars
    BY <1>0, <1>2 DEF Finalize, ReadFails, EndOfBrigade, EndOfBody, vars, Converting,
                      headerVars, ctxVars, downVars
<1>3. CASE Untouched
    <2>1. /\ PassOn(bb, "raw") /\ pc' = "idle"
          /\ UNCHANGED <<req, ms_out>>
          /\ \/ Aside /\ processed' = processed /\ length' = length
             \/ ~Aside /\ processed' /\ ~length' /\ req.charset = "long" /\ ~processed
        BY <1>0, <1>3, UntouchedSteps
    <2>2. headers'.length => Aside'
        <3>1. CASE down # <<>>
            BY <1>0, <2>1, <3>1, PassOnHeaders DEF Converting
        <3>2. CASE down = <<>>
            <4>1. headers'.length = length'
                BY <1>0, <2>1, <3>2, PassOnHeaders
            <4>2. QED BY <1>0, <2>1, <4>1
        <3>3. QED BY <3>1, <3>2
    <2>3. QED BY <1>0, <2>1, <2>2 DEF Converting
<1>4. CASE EnterText
    BY <1>0, <1>4 DEF EnterText, Converting, downVars
<1>5. CASE TakeData
    BY <1>0, <1>5 DEF TakeData, Converting, headerVars, downVars
<1>6. ASSUME NEW brigade, NEW as, PassOn(brigade, as), as # "raw",
             processed, UNCHANGED <<req, status, location, length, processed>>
      PROVE  Converting'
    <2>1. ~Aside
        BY <1>0, <1>6 DEF AsideUntouched
    <2>2. headers'.length => Aside'
        <3>1. CASE down # <<>>
            BY <1>0, <1>6, <3>1, PassOnHeaders DEF Converting
        <3>2. CASE down = <<>>
            <4>1. headers'.length = length'
                BY <1>0, <1>6, <3>2, PassOnHeaders
            <4>2. QED BY <1>0, <1>6, <4>1 DEF Converting
        <3>3. QED BY <3>1, <3>2
    <2>3. req'.charset # "long" /\ ~Aside' => \A i \in DOMAIN down' : down'[i].as # "raw"
        BY <1>0, <1>6, RawParts
    <2>4. QED BY <1>0, <1>6, <2>2, <2>3 DEF Converting
<1>7. CASE SendMeta \/ SendMetaFails
    <2>1. PassOn(<<Head(bb)>>, "meta") /\ processed /\ UNCHANGED <<req, status, location, length, processed>>
        BY <1>0, <1>7 DEF SendMeta, SendMetaFails, Converting, headerVars, ctxVars
    <2>2. QED BY <1>6, <2>1
<1>8. CASE ConvertAll
    <2>1. processed /\ UNCHANGED <<req, status, location, length, processed>>
        BY <1>0, <1>8 DEF ConvertAll, Converting, headerVars
    <2>2. QED BY <1>6, <1>8, <2>1 DEF ConvertAll
<1>9. CASE SendEos
    <2>1. processed /\ UNCHANGED <<req, status, location, length, processed>>
        BY <1>0, <1>9 DEF SendEos, Converting, headerVars, ctxVars
    <2>2. QED BY <1>6, <1>9, <2>1 DEF SendEos
<1>10. QED BY <1>1, <1>2, <1>3, <1>4, <1>5, <1>7, <1>8, <1>9, StepCases

LEMMA FallingBackNext ==
    ASSUME Inv, Types', [Next]_vars
    PROVE  FallingBack'
<1>0. FallingBack /\ Types /\ HeadersWithFirst /\ AsideUntouched /\ Aside' = Aside
    BY AsideFixed DEF Inv
<1>1. req' = req
    <2>1. CASE Untouched
        BY <1>0, <2>1, UntouchedSteps
    <2>2. CASE ~Untouched
        BY <2>2, StepCases DEF SendBrigade, Finalize, EnterText, TakeData, ReadFails, SendMeta,
           SendMetaFails, EndOfBrigade, EndOfBody, ConvertAll, SendEos, vars
    <2>3. QED BY <2>1, <2>2
<1>2. SUFFICES ASSUME req.handler # "fjt", req.status = 404, req.oldurl
               PROVE  \/ status' = 404 /\ down' = <<>>
                      \/ /\ status' = 302 /\ notFound'
                         /\ headers'.status = 302 /\ headers'.location = "oldurl"
    BY <1>1 DEF FallingBack
<1>3. \/ status = 404 /\ down = <<>>
      \/ /\ status = 302 /\ notFound
         /\ headers.status = 302 /\ headers.location = "oldurl"
    BY <1>0, <1>2 DEF FallingBack
<1>4. Aside /\ pc \in {"idle", "enter"} /\ (down = <<>> => headers = NotSent)
    BY <1>0, <1>2, <1>3 DEF AsideUntouched, HeadersWithFirst, Aside
<1>5. CASE \E shape \in Shapes, last \in BOOLEAN : SendBrigade(shape, last)
    BY <1>3, <1>5 DEF SendBrigade, headerVars, history
<1>6. CASE Finalize
    BY <1>3, <1>6 DEF Finalize, headerVars, history
<1>7. CASE EnterFallback
    <2>1. down = <<>> /\ status' = 302 /\ location' = "oldurl" /\ notFound' /\ PassOn(bb, "raw")
        BY <1>3, <1>7 DEF EnterFallback, PassUntouched
    <2>2. QED BY <1>0, <2>1, PassOnHeaders
<1>8. CASE Untouched /\ ~EnterFallback
    <2>1. status = 302 /\ PassOn(bb, "raw") /\ status' = status /\ notFound' = notFound
        <3>1. status # 404
            BY <1>2, <1>8 DEF Untouched, EnterOwnPage, EnterPlain404, EnterRedirect, IsRedirect,
               EnterNotText, EnterLongType, Ordinary
        <3>2. EnterRedirect
            BY <1>2, <1>3, <1>8, <3>1 DEF Untouched, EnterOwnPage, EnterPlain404,
               EnterNotText, EnterLongType, Ordinary, IsRedirect
        <3>3. QED BY <1>3, <3>1, <3>2 DEF EnterRedirect, PassUntouched
    <2>2. down # <<>>
        BY <1>3, <1>4, <2>1 DEF NotSent
    <2>3. headers' = headers
        BY <1>0, <2>1, <2>2, PassOnHeaders
    <2>4. QED BY <1>3, <2>1, <2>3
<1>9. CASE EnterText
    BY <1>4, <1>9 DEF EnterText, Ordinary, IsRedirect, Aside
<1>10. CASE TakeData \/ ReadFails \/ SendMeta \/ SendMetaFails \/ EndOfBrigade \/ EndOfBody
    BY <1>4, <1>10 DEF TakeData, ReadFails, SendMeta, SendMetaFails, EndOfBrigade, EndOfBody
<1>11. CASE ConvertAll \/ SendEos
    BY <1>4, <1>11 DEF ConvertAll, SendEos
<1>12. CASE UNCHANGED vars
    BY <1>3, <1>12 DEF vars, headerVars, downVars, history
<1>13. QED BY <1>5, <1>6, <1>7, <1>8, <1>9, <1>10, <1>11, <1>12, StepCases

LEMMA EndingNext ==
    ASSUME Inv, [Next]_vars
    PROVE  Ending'
<1>0. Ending /\ Types
    BY DEF Inv
<1>1. ASSUME NEW shape \in Shapes, NEW last \in BOOLEAN, SendBrigade(shape, last)
      PROVE  Ending'
    <2>1. \A i \in DOMAIN bb' : bb'[i] = Eos => last /\ i = Len(bb')
        BY <1>0, <1>1, BrigadeTyped
    <2>2. /\ pc = "idle" /\ ~finished /\ finished' = last /\ eos_sent' = (eos_sent \/ last)
          /\ pc' = "enter" /\ UNCHANGED <<down, broken>>
        BY <1>1 DEF SendBrigade, history
    <2>3. QED BY <1>0, <2>1, <2>2 DEF Ending
<1>2. CASE Finalize
    <2>1. \A i \in DOMAIN bb' : i = Len(bb')
        BY <1>2 DEF Finalize
    <2>2. /\ pc = "idle" /\ ~finished /\ finished' /\ eos_sent' /\ pc' = "enter"
          /\ UNCHANGED <<down, broken>>
        BY <1>0, <1>2 DEF Finalize, history, Ending
    <2>3. QED BY <1>0, <2>1, <2>2 DEF Ending
<1>3. CASE Untouched
    <2>1. /\ pc = "enter" /\ PassOn(bb, "raw") /\ bb' = <<>> /\ pc' = "idle"
          /\ UNCHANGED <<finished, broken>>
        BY <1>0, <1>3, UntouchedSteps
    <2>2. Contains(bb, Eos) => finished
        BY <1>0 DEF Contains, Ending, Types
    <2>3. eos_sent' = (eos_sent \/ Contains(bb, Eos))
        BY <1>0, <2>1, PassOnAppends
    <2>4. ~broken => \A i \in DOMAIN down' : down'[i].eos => i = Len(down') /\ finished
        <3>1. ~broken => \A i \in DOMAIN down : ~down[i].eos
            BY <1>0, <2>1 DEF Ending
        <3>2. QED BY <1>0, <2>1, <2>2, <3>1, PassOnAppends
    <2>5. DOMAIN bb' = {}
        BY <2>1
    <2>6. finished => eos_sent'
        BY <1>0, <2>3 DEF Ending
    <2>7. QED BY <2>1, <2>4, <2>5, <2>6 DEF Ending
<1>4. CASE EnterText
    BY <1>0, <1>4 DEF EnterText, Entering, Ordinary, Ending, handlerVars, downVars, history
<1>5. ASSUME bb # <<>>
      PROVE  \A i \in DOMAIN Tail(bb) : Tail(bb)[i] = Eos => finished /\ i = Len(Tail(bb))
    <2>1. \A i \in DOMAIN bb : bb[i] = Eos => finished /\ i = Len(bb)
        BY <1>0 DEF Ending
    <2>2. Len(Tail(bb)) \in Nat /\ DOMAIN Tail(bb) = 1 .. Len(Tail(bb))
        BY <1>0, <1>5, RestTyped
    <2>3. QED BY <1>0, <1>5, <2>1, <2>2, RestTyped
<1>6. CASE TakeData
    <2>1. bb # <<>> /\ bb' = Tail(bb) /\ pc = "loop"
          /\ UNCHANGED <<finished, eos_sent, down, broken, pc>>
        BY <1>6 DEF TakeData, handlerVars, downVars, history
    <2>2. QED BY <1>0, <1>5, <2>1 DEF Ending
<1>7. CASE ReadFails
    BY <1>0, <1>7 DEF ReadFails, Ending, handlerVars, downVars
<1>8. CASE SendMeta
    <2>1. /\ pc = "loop" /\ bb # <<>> /\ Head(bb).kind = "meta" /\ bb' = Tail(bb)
          /\ PassOn(<<Head(bb)>>, "meta") /\ UNCHANGED <<finished, broken, pc>>
        BY <1>8 DEF SendMeta, handlerVars, history
    <2>2. ~Contains(<<Head(bb)>>, Eos)
        BY <2>1 DEF Contains, Eos
    <2>3. eos_sent' = eos_sent
        BY <1>0, <2>1, <2>2, PassOnAppends DEF Types
    <2>4. ~broken => \A i \in DOMAIN down' : ~down'[i].eos
        <3>1. ~broken => \A i \in DOMAIN down : ~down[i].eos
            BY <1>0, <2>1 DEF Ending
        <3>2. QED BY <1>0, <2>1, <2>2, <3>1, PassOnAppends
    <2>5. QED BY <1>0, <1>5, <2>1, <2>3, <2>4 DEF Ending
<1>9. CASE SendMetaFails
    <2>1. /\ bb' = <<>> /\ pc' = "convert" /\ broken' /\ finished' = finished
          /\ PassOn(<<Head(bb)>>, "meta")
        BY <1>9 DEF SendMetaFails, handlerVars
    <2>2. eos_sent => eos_sent'
        BY <1>0, <2>1, PassOnAppends
    <2>3. QED BY <1>0, <2>1, <2>2 DEF Ending
<1>10. CASE EndOfBrigade
    BY <1>0, <1>10 DEF EndOfBrigade, Ending, handlerVars, downVars, history
<1>11. CASE EndOfBody
    <2>1. finished
        BY <1>0, <1>11, RestTyped DEF EndOfBody, Ending
    <2>2. QED BY <1>0, <1>11, <2>1 DEF EndOfBody, Ending, handlerVars, downVars, history
<1>12. CASE ConvertAll
    <2>1. /\ pc = "convert" /\ pc' = "eos" /\ UNCHANGED <<bb, finished, broken>>
        BY <1>12 DEF ConvertAll, handlerVars, history
    <2> DEFINE body == [k \in DOMAIN ms_out |-> Data(ms_out[k])]
    <2>2. PassOn(body, "converted")
        BY <1>12 DEF ConvertAll
    <2>3. ~Contains(body, Eos)
        <3>1. \A i \in DOMAIN body : body[i] # Eos
            BY DEF Data, Eos
        <3>2. Len(body) = Len(ms_out) /\ DOMAIN body = 1 .. Len(ms_out)
            BY <1>0 DEF Types
        <3>3. QED BY <3>1, <3>2 DEF Contains
    <2>4. eos_sent => eos_sent'
        BY <1>0, <2>2, PassOnAppends
    <2>5. ~broken => \A i \in DOMAIN down' : ~down'[i].eos
        <3>1. ~broken => \A i \in DOMAIN down : ~down[i].eos
            BY <1>0, <2>1 DEF Ending
        <3>2. QED BY <1>0, <2>2, <2>3, <3>1, PassOnAppends
    <2>6. QED BY <1>0, <2>1, <2>4, <2>5 DEF Ending
<1>13. CASE SendEos
    <2>1. /\ pc = "eos" /\ pc' = "idle" /\ UNCHANGED <<bb, finished, broken>>
          /\ PassOn(<<Eos>>, "eos")
        BY <1>13 DEF SendEos, handlerVars, history
    <2>2. eos_sent => eos_sent'
        BY <1>0, <2>1, PassOnAppends
    <2>3. ~broken => finished /\ \A i \in DOMAIN down : ~down[i].eos
        BY <1>0, <2>1 DEF Ending
    <2>4. ~broken => \A i \in DOMAIN down' : down'[i].eos => i = Len(down')
        BY <1>0, <2>1, <2>3, PassOnAppends
    <2>5. QED BY <1>0, <2>1, <2>2, <2>3, <2>4 DEF Ending
<1>14. CASE UNCHANGED vars
    BY <1>0, <1>14 DEF vars, Ending, handlerVars, downVars, history
<1>15. QED BY <1>1, <1>2, <1>3, <1>4, <1>6, <1>7, <1>8, <1>9, <1>10, <1>11, <1>12, <1>13,
              <1>14, StepCases

LEMMA InvNext ==
    ASSUME Inv, [Next]_vars
    PROVE  Inv'
<1>1. Types'
    BY TypesNext
<1>2. QED
    BY <1>1, HeadersNext, AsideNext, ConvertingNext, FallingBackNext, EndingNext DEF Inv

LEMMA InvAlways == Spec => []Inv
<1>1. Init => Inv
    BY InvInit
<1>2. Inv /\ [Next]_vars => Inv'
    BY InvNext
<1>3. QED BY <1>1, <1>2, PTL DEF Spec

-----------------------------------------------------------------------------
(* The theorems *)

\* Every variable of the filter and of what surrounds it keeps its type; in
\* particular nothing is left of a brigade when the filter is not at work on one.
THEOREM Typed == Spec => []TypeOK
<1>1. Inv => TypeOK
    BY DEF Inv, Types, Ending, TypeOK
<1>2. QED BY <1>1, InvAlways, PTL

\* A response is converted whole or handed on as it came, however the handler
\* cuts it into brigades: the returns on handler, status and Content-Type decide
\* alike for every brigade (mod_fjt.c, fjt_out_filter).
THEOREM AllOrNothing == Spec => []WholeOrNotAtAll
<1>1. Inv => WholeOrNotAtAll
    <2>1. SUFFICES ASSUME Inv, req.charset # "long",
                          NEW i \in DOMAIN down, down[i].as = "raw",
                          NEW j \in DOMAIN down, down[j].as = "converted"
                   PROVE  FALSE
        BY DEF WholeOrNotAtAll
    <2>2. CASE Aside
        BY <2>1, <2>2 DEF Inv, AsideUntouched
    <2>3. CASE ~Aside
        BY <2>1, <2>3 DEF Inv, Converting
    <2>4. QED BY <2>2, <2>3
<1>2. QED BY <1>1, InvAlways, PTL

\* Content-Length is gone before the headers leave with the first brigade of a
\* response that is converted (mod_fjt.c:296).
THEOREM LengthDropped == Spec => []NoStaleLength
<1>1. Inv => NoStaleLength
    BY DEF Inv, NoStaleLength, Converting, AsideUntouched
<1>2. QED BY <1>1, InvAlways, PTL

\* Who asked for a rewritten URL that does not exist is redirected to the
\* original, with a body nobody converted, and the URL is remembered.
THEOREM FallsBackClean == Spec => []FallbackIsClean
<1>1. Inv => FallbackIsClean
    <2>1. SUFFICES ASSUME Inv, headers # NotSent, req.handler # "fjt", req.status = 404, req.oldurl
                   PROVE  /\ headers.status = 302 /\ headers.location = "oldurl" /\ notFound
                          /\ \A i \in DOMAIN down : down[i].as = "raw"
        BY DEF FallbackIsClean
    <2>2. status = 302 /\ notFound /\ headers.status = 302 /\ headers.location = "oldurl"
        BY <2>1 DEF Inv, FallingBack, HeadersWithFirst
    <2>3. Aside
        BY <2>2 DEF Aside
    <2>4. QED BY <2>1, <2>2, <2>3 DEF Inv, AsideUntouched
<1>2. QED BY <1>1, InvAlways, PTL

\* EOS reaches the next filter once, after everything else, as long as that
\* filter has not refused anything.
THEOREM EosComesLast == Spec => []EosEndsIt
<1>1. Inv => EosEndsIt
    BY DEF Inv, Ending, EosEndsIt
<1>2. QED BY <1>1, InvAlways, PTL

-----------------------------------------------------------------------------
(* Nothing of the body is lost *)

Numbers(a, b) == [k \in 1 .. (b - a) |-> a + k]

LEMMA NumbersStep ==
    ASSUME NEW a \in Nat, NEW b \in Nat, a <= b
    PROVE  /\ Numbers(a, b) \in Seq(Nat) /\ Len(Numbers(a, b)) = b - a
           /\ Numbers(a, b + 1) = Append(Numbers(a, b), b + 1)
           /\ Numbers(a, b + 1) = <<a + 1>> \o Numbers(a + 1, b + 1)
           /\ Numbers(a, a) = <<>>
<1>1. Numbers(a, b) \in Seq(Nat) /\ Len(Numbers(a, b)) = b - a
    BY DEF Numbers
<1>2. Numbers(a, b + 1) = Append(Numbers(a, b), b + 1)
    BY DEF Numbers
<1>3. Numbers(a, b + 1) = <<a + 1>> \o Numbers(a + 1, b + 1)
    BY DEF Numbers
<1>4. Numbers(a, a) = <<>>
    BY DEF Numbers
<1>5. QED BY <1>1, <1>2, <1>3, <1>4

Kept(gone, m) == FlattenSeq([k \in 1 .. m |-> IF Contains(gone, k) THEN <<>> ELSE <<k>>])

LEMMA KeptStep ==
    ASSUME NEW gone, NEW m \in Nat
    PROVE  /\ Kept(gone, 0) = <<>>
           /\ Kept(gone, m) \in Seq(Nat)
           /\ Kept(gone, m + 1) = Kept(gone, m) \o (IF Contains(gone, m + 1) THEN <<>> ELSE <<m + 1>>)
<1> DEFINE piece(k) == IF Contains(gone, k) THEN <<>> ELSE <<k>>
           pieces(n) == [k \in 1 .. n |-> piece(k)]
<1>1. ASSUME NEW n \in Nat PROVE piece(n) \in Seq(Nat)
    OBVIOUS
<1> HIDE DEF piece
<1>2. pieces(0) = <<>> /\ pieces(m) \in Seq(Seq(Nat)) /\ pieces(m + 1) = Append(pieces(m), piece(m + 1))
    BY <1>1
<1>3. piece(m + 1) \in Seq(Nat)
    BY <1>1
<1> HIDE DEF pieces
<1>4. /\ FlattenSeq(pieces(0)) = <<>> /\ FlattenSeq(pieces(m)) \in Seq(Nat)
      /\ FlattenSeq(pieces(m + 1)) = FlattenSeq(pieces(m)) \o piece(m + 1)
    BY <1>2, <1>3, FlattenEmpty, FlattenType, FlattenAppend
<1>5. QED BY <1>4 DEF Kept, pieces, piece

LEMMA KeptMore ==
    ASSUME NEW gone, NEW a \in Nat, NEW b \in Nat, a <= b,
           \A k \in a + 1 .. b : ~Contains(gone, k)
    PROVE  Kept(gone, b) = Kept(gone, a) \o Numbers(a, b)
<1> DEFINE T == {d \in Nat : a + d <= b => Kept(gone, a + d) = Kept(gone, a) \o Numbers(a, a + d)}
<1>1. 0 \in T
    <2>1. a + 0 = a
        OBVIOUS
    <2>2. Numbers(a, a) = <<>>
        BY NumbersStep
    <2>3. Kept(gone, a) \in Seq(Nat)
        BY KeptStep
    <2>4. Kept(gone, a) \o <<>> = Kept(gone, a)
        BY <2>3, ConcatEmptySeq
    <2>5. Kept(gone, a + 0) = Kept(gone, a) \o Numbers(a, a + 0)
        BY <2>1, <2>2, <2>4
    <2>6. QED BY <2>5
<1>2. ASSUME NEW d \in T
      PROVE  d + 1 \in T
    <2>1. d \in Nat /\ (a + d <= b => Kept(gone, a + d) = Kept(gone, a) \o Numbers(a, a + d))
        OBVIOUS
    <2> DEFINE c == a + d
    <2>2. SUFFICES ASSUME c + 1 <= b
                   PROVE  Kept(gone, c + 1) = Kept(gone, a) \o Numbers(a, c + 1)
        BY <2>1
    <2>3. c \in Nat /\ a <= c /\ c + 1 \in a + 1 .. b
        BY <2>1, <2>2
    <2>4. Kept(gone, c) = Kept(gone, a) \o Numbers(a, c)
        BY <2>1, <2>2
    <2> HIDE DEF c, T
    <2>5. Kept(gone, c + 1) = Kept(gone, c) \o <<c + 1>>
        BY <2>3, KeptStep
    <2> DEFINE x == Kept(gone, a)
               y == Numbers(a, c)
    <2>6. y \in Seq(Nat) /\ Numbers(a, c + 1) = Append(y, c + 1)
        BY <2>3, NumbersStep
    <2>7. x \in Seq(Nat)
        BY KeptStep
    <2>8. c + 1 \in Nat /\ <<c + 1>> \in Seq(Nat)
        BY <2>3
    <2> HIDE DEF x, y
    <2>9. Numbers(a, c + 1) = y \o <<c + 1>>
        BY <2>6, <2>8, AppendIsConcat
    <2>10. (x \o y) \o <<c + 1>> = x \o (y \o <<c + 1>>)
        BY <2>6, <2>7, <2>8, ConcatAssociative, SMTT(30)
    <2>11. QED BY <2>4, <2>5, <2>9, <2>10 DEF x, y
<1>3. T \in SUBSET Nat
    OBVIOUS
<1> HIDE DEF T
<1>4. T = Nat
    BY <1>1, <1>2, <1>3, AllNumbers
<1>5. b - a \in T /\ a + (b - a) = b /\ a + (b - a) <= b
    BY <1>4
<1>6. QED BY <1>5 DEF T

LEMMA KeptNoMore ==
    ASSUME NEW gone, NEW a \in Nat, NEW b \in Nat, a <= b,
           \A k \in a + 1 .. b : Contains(gone, k)
    PROVE  Kept(gone, b) = Kept(gone, a)
<1> DEFINE T == {d \in Nat : a + d <= b => Kept(gone, a + d) = Kept(gone, a)}
<1>1. 0 \in T
    OBVIOUS
<1>2. ASSUME NEW d \in T
      PROVE  d + 1 \in T
    <2>1. d \in Nat /\ (a + d <= b => Kept(gone, a + d) = Kept(gone, a))
        OBVIOUS
    <2> DEFINE c == a + d
    <2>2. SUFFICES ASSUME c + 1 <= b
                   PROVE  Kept(gone, c + 1) = Kept(gone, a)
        BY <2>1
    <2>3. c \in Nat /\ c + 1 \in a + 1 .. b /\ Kept(gone, c) = Kept(gone, a)
        BY <2>1, <2>2
    <2> HIDE DEF c, T
    <2>4. Kept(gone, c + 1) = Kept(gone, c) \o <<>> /\ Kept(gone, c) \in Seq(Nat)
        BY <2>3, KeptStep
    <2>5. QED BY <2>3, <2>4, ConcatEmptySeq
<1>3. T \in SUBSET Nat
    OBVIOUS
<1> HIDE DEF T
<1>4. T = Nat
    BY <1>1, <1>2, <1>3, AllNumbers
<1>5. b - a \in T /\ a + (b - a) = b /\ a + (b - a) <= b
    BY <1>4
<1>6. QED BY <1>5 DEF T

-----------------------------------------------------------------------------
(* The chunks of a brigade *)

Piece(bucket) == IF bucket.kind = "data" THEN <<bucket.chunk>> ELSE <<>>

LEMMA PieceType ==
    ASSUME NEW bucket \in Bucket
    PROVE  Piece(bucket) \in Seq(Nat)
<1>1. CASE bucket \in {Meta, Eos}
    BY <1>1 DEF Piece, Meta, Eos
<1>2. CASE bucket \in {Data(k) : k \in 1 .. MaxChunks}
    <2>1. PICK k \in 1 .. MaxChunks : bucket = Data(k)
        BY <1>2
    <2>2. k \in Nat /\ bucket.chunk = k /\ bucket.kind = "data"
        BY <2>1, BoundsAssumption DEF Data
    <2>3. QED BY <2>2 DEF Piece
<1>3. QED BY <1>1, <1>2 DEF Bucket

Pieces(brigade) == [k \in DOMAIN brigade |-> Piece(brigade[k])]

LEMMA PiecesType ==
    ASSUME NEW brigade \in Seq(Bucket)
    PROVE  /\ Pieces(brigade) \in Seq(Seq(Nat))
           /\ Len(Pieces(brigade)) = Len(brigade)
           /\ ChunksOf(brigade) = FlattenSeq(Pieces(brigade))
           /\ ChunksOf(brigade) \in Seq(Nat)
<1>1. Len(brigade) \in Nat /\ DOMAIN brigade = 1 .. Len(brigade)
    OBVIOUS
<1>2. \A k \in 1 .. Len(brigade) : Piece(brigade[k]) \in Seq(Nat)
    BY PieceType
<1>3. Pieces(brigade) \in [1 .. Len(brigade) -> Seq(Nat)]
    BY <1>1, <1>2 DEF Pieces
<1>4. Pieces(brigade) \in Seq(Seq(Nat)) /\ Len(Pieces(brigade)) = Len(brigade)
    BY <1>1, <1>3
<1>5. ChunksOf(brigade) = FlattenSeq(Pieces(brigade))
    BY DEF ChunksOf, Pieces, Piece
<1>6. QED BY <1>4, <1>5, FlattenType

LEMMA ChunksStep ==
    ASSUME NEW brigade \in Seq(Bucket), brigade # <<>>
    PROVE  ChunksOf(brigade) = Piece(Head(brigade)) \o ChunksOf(Tail(brigade))
<1>1. /\ Tail(brigade) \in Seq(Bucket) /\ Len(Tail(brigade)) = Len(brigade) - 1
      /\ Len(brigade) \in Nat \ {0} /\ Head(brigade) = brigade[1]
      /\ \A i \in 1 .. Len(Tail(brigade)) : Tail(brigade)[i] = brigade[i + 1]
    BY HeadTailProperties
<1>2. /\ Pieces(brigade) \in Seq(Seq(Nat)) /\ Pieces(brigade) # <<>>
      /\ Len(Pieces(brigade)) = Len(brigade)
    BY <1>1, PiecesType
<1>3. Head(Pieces(brigade)) = Piece(Head(brigade))
    BY <1>1, <1>2 DEF Pieces
<1>4. Tail(Pieces(brigade)) = Pieces(Tail(brigade))
    <2> DEFINE r == Tail(Pieces(brigade))
               t == Pieces(Tail(brigade))
    <2>1. /\ r \in Seq(Seq(Nat)) /\ Len(r) = Len(brigade) - 1
          /\ \A i \in 1 .. Len(r) : r[i] = Pieces(brigade)[i + 1]
        BY <1>2, HeadTailProperties
    <2>2. t \in Seq(Seq(Nat)) /\ Len(t) = Len(brigade) - 1
        BY <1>1, PiecesType
    <2>3. ASSUME NEW i \in 1 .. Len(r)
          PROVE  r[i] = t[i]
        <3>1. /\ i \in 1 .. Len(Tail(brigade)) /\ i + 1 \in 1 .. Len(brigade)
              /\ DOMAIN brigade = 1 .. Len(brigade)
              /\ DOMAIN Tail(brigade) = 1 .. Len(Tail(brigade))
            BY <1>1, <2>1
        <3>2. r[i] = Piece(brigade[i + 1])
            BY <2>1, <3>1 DEF Pieces
        <3>3. t[i] = Piece(Tail(brigade)[i])
            BY <3>1 DEF Pieces
        <3>4. QED BY <1>1, <3>1, <3>2, <3>3
    <2> HIDE DEF r, t
    <2>4. r = t
        BY <2>1, <2>2, <2>3, SeqEqual
    <2>5. QED BY <2>4 DEF r, t
<1>5. FlattenSeq(Pieces(brigade)) = Head(Pieces(brigade)) \o FlattenSeq(Tail(Pieces(brigade)))
    BY <1>2, FlattenHeadTail
<1>6. QED BY <1>1, <1>3, <1>4, <1>5, PiecesType

LEMMA ChunksAppend ==
    ASSUME NEW brigade \in Seq(Bucket), NEW bucket \in Bucket
    PROVE  ChunksOf(Append(brigade, bucket)) = ChunksOf(brigade) \o Piece(bucket)
<1>1. Append(brigade, bucket) \in Seq(Bucket)
    OBVIOUS
<1>2. Pieces(Append(brigade, bucket)) = Append(Pieces(brigade), Piece(bucket))
    BY DEF Pieces
<1>3. Pieces(brigade) \in Seq(Seq(Nat)) /\ Piece(bucket) \in Seq(Nat)
    BY PiecesType, PieceType
<1>4. FlattenSeq(Append(Pieces(brigade), Piece(bucket))) = FlattenSeq(Pieces(brigade)) \o Piece(bucket)
    BY <1>3, FlattenAppend
<1>5. QED BY <1>1, <1>2, <1>4, PiecesType

LEMMA ChunksOfFew ==
    /\ ChunksOf(<<>>) = <<>>
    /\ ChunksOf(<<Eos>>) = <<>>
    /\ \A bucket \in Bucket : bucket.kind = "meta" => ChunksOf(<<bucket>>) = <<>>
<1>1. ChunksOf(<<>>) = <<>>
    BY FlattenEmpty DEF ChunksOf
<1>2. ASSUME NEW bucket \in Bucket, bucket.kind # "data"
      PROVE  ChunksOf(<<bucket>>) = <<>>
    <2>1. <<bucket>> = Append(<<>>, bucket) /\ <<>> \in Seq(Bucket)
        OBVIOUS
    <2>2. Piece(bucket) = <<>>
        BY <1>2 DEF Piece
    <2>3. ChunksOf(<<bucket>>) = ChunksOf(<<>>) \o <<>>
        BY <2>1, <2>2, ChunksAppend
    <2>4. QED BY <1>1, <2>3
<1>3. Eos \in Bucket /\ Eos.kind # "data"
    BY DEF Bucket, Eos
<1>4. QED BY <1>1, <1>2, <1>3

LEMMA ChunksOfBody ==
    ASSUME NEW body \in Seq(1 .. MaxChunks)
    PROVE  ChunksOf([k \in DOMAIN body |-> Data(body[k])]) = body
<1> DEFINE brigade == [k \in DOMAIN body |-> Data(body[k])]
<1>1. DOMAIN brigade = DOMAIN body
    OBVIOUS
<1>2. [k \in DOMAIN brigade |-> IF brigade[k].kind = "data" THEN <<brigade[k].chunk>> ELSE <<>>]
        = [k \in DOMAIN body |-> <<body[k]>>]
    BY DEF Data
<1>3. QED BY <1>2, FlattenSingles DEF ChunksOf

\* The handler numbers the chunks of a brigade on from what it sent before.
LEMMA ChunksOfShape ==
    ASSUME NEW from \in Nat, NEW n \in Nat, NEW shape \in [1 .. n -> BOOLEAN]
    PROVE  FlattenSeq([k \in 1 .. n |-> IF shape[k] THEN <<from + Before(shape, k)>> ELSE <<>>])
               = Numbers(from, from + Before(shape, n))
<1> DEFINE piece(k) == IF shape[k] THEN <<from + Before(shape, k)>> ELSE <<>>
           pieces(m) == [k \in 1 .. m |-> piece(k)]
           T == {m \in Nat : m <= n =>
                               FlattenSeq(pieces(m)) = Numbers(from, from + Before(shape, m))}
<1>1. 0 \in T
    <2>1. pieces(0) = <<>>
        OBVIOUS
    <2>2. Before(shape, 0) = 0 /\ from + 0 = from
        BY BeforeStep
    <2>3. Numbers(from, from) = <<>>
        BY DEF Numbers
    <2> HIDE DEF pieces
    <2>4. FlattenSeq(pieces(0)) = Numbers(from, from + Before(shape, 0))
        BY <2>1, <2>2, <2>3, FlattenEmpty
    <2>5. QED BY <2>4
<1>2. ASSUME NEW k \in Nat
      PROVE  piece(k) \in Seq(Nat)
    <2>1. Before(shape, k) \in Nat
        BY BeforeStep
    <2>2. QED BY <2>1
<1> HIDE DEF piece
<1>3. ASSUME NEW m \in T
      PROVE  m + 1 \in T
    <2>1. m \in Nat /\ (m <= n => FlattenSeq(pieces(m)) = Numbers(from, from + Before(shape, m)))
        OBVIOUS
    <2>2. SUFFICES ASSUME m + 1 <= n
                   PROVE  FlattenSeq(pieces(m + 1)) = Numbers(from, from + Before(shape, m + 1))
        BY <2>1
    <2>3. /\ pieces(m) \in Seq(Seq(Nat)) /\ piece(m + 1) \in Seq(Nat)
          /\ pieces(m + 1) = Append(pieces(m), piece(m + 1))
        <3>1. \A k \in 1 .. m + 1 : piece(k) \in Seq(Nat)
            BY <1>2, <2>1
        <3> HIDE DEF piece
        <3>2. pieces(m) \in Seq(Seq(Nat)) /\ Len(pieces(m)) = m
            BY <2>1, <3>1
        <3>3. piece(m + 1) \in Seq(Nat)
            BY <2>1, <3>1
        <3>4. pieces(m + 1) = Append(pieces(m), piece(m + 1))
            BY <2>1, <3>1
        <3>5. QED BY <3>2, <3>3, <3>4
    <2> DEFINE b == from + Before(shape, m)
    <2>4. b \in Nat /\ from <= b
        <3>1. Before(shape, m) \in Nat
            BY <2>1, BeforeStep
        <3>2. QED BY <3>1
    <2>5. Before(shape, m + 1) = Before(shape, m) + (IF shape[m + 1] THEN 1 ELSE 0)
        BY <2>1, BeforeStep
    <2>6. FlattenSeq(pieces(m)) = Numbers(from, b)
        BY <2>1, <2>2
    <2> HIDE DEF T, pieces
    <2>7. FlattenSeq(pieces(m + 1)) = Numbers(from, b) \o piece(m + 1)
        BY <2>3, <2>6, FlattenAppend
    <2>8. Before(shape, m) \in Nat
        BY <2>1, BeforeStep
    <2>9. CASE shape[m + 1]
        <3>1. from + Before(shape, m + 1) = b + 1
            BY <2>5, <2>8, <2>9
        <3> HIDE DEF b
        <3>2. piece(m + 1) = <<b + 1>>
            BY <2>9, <3>1 DEF piece
        <3>3. Numbers(from, b) \in Seq(Nat) /\ Numbers(from, b + 1) = Append(Numbers(from, b), b + 1)
            BY <2>4, NumbersStep
        <3>4. Append(Numbers(from, b), b + 1) = Numbers(from, b) \o <<b + 1>>
            BY <2>4, <3>3, AppendIsConcat
        <3>5. QED BY <2>7, <3>1, <3>2, <3>3, <3>4
    <2>10. CASE ~shape[m + 1]
        <3>1. from + Before(shape, m + 1) = b /\ piece(m + 1) = <<>>
            BY <2>5, <2>8, <2>10 DEF piece
        <3> HIDE DEF b
        <3>2. Numbers(from, b) \in Seq(Nat)
            BY <2>4, NumbersStep
        <3>3. QED BY <2>7, <3>1, <3>2, ConcatEmptySeq
    <2>11. QED BY <2>9, <2>10
<1>4. T \in SUBSET Nat
    OBVIOUS
<1> HIDE DEF T
<1>5. T = Nat
    BY <1>1, <1>3, <1>4, AllNumbers
<1>6. n \in T /\ n <= n
    BY <1>5
<1>7. FlattenSeq(pieces(n)) = Numbers(from, from + Before(shape, n))
    BY <1>6 DEF T
<1>8. QED BY <1>7 DEF pieces, piece

LEMMA ChunksOfBrigade ==
    ASSUME Types, NEW shape \in Shapes, NEW last \in BOOLEAN, SendBrigade(shape, last)
    PROVE  ChunksOf(bb') = Numbers(sent, sent')
<1> DEFINE n == Len(shape)
           data == Buckets(shape, sent)
<1>1. /\ n \in Nat /\ shape \in [1 .. n -> BOOLEAN] /\ DOMAIN shape = 1 .. n
      /\ sent \in Nat /\ sent' = sent + Before(shape, n)
      /\ bb' = data \o (IF last THEN <<Eos>> ELSE <<>>)
    BY SentInBrigade, BoundsAssumption DEF Types
<1>2. DOMAIN data = 1 .. n
    BY <1>1 DEF Buckets
<1>3. ChunksOf(data) = Numbers(sent, sent')
    <2>1. [k \in DOMAIN data |-> IF data[k].kind = "data" THEN <<data[k].chunk>> ELSE <<>>]
            = [k \in 1 .. n |-> IF shape[k] THEN <<sent + Before(shape, k)>> ELSE <<>>]
        <3>1. ASSUME NEW k \in 1 .. n
              PROVE  (IF data[k].kind = "data" THEN <<data[k].chunk>> ELSE <<>>)
                        = (IF shape[k] THEN <<sent + Before(shape, k)>> ELSE <<>>)
            <4>1. data[k] = IF shape[k] THEN Data(sent + Before(shape, k)) ELSE Meta
                BY <1>1 DEF Buckets
            <4> HIDE DEF data
            <4>2. QED BY <4>1 DEF Data, Meta
        <3> HIDE DEF data
        <3>2. QED BY <1>2, <3>1
    <2>2. QED BY <1>1, <2>1, ChunksOfShape DEF ChunksOf
<1>4. data \in Seq(Bucket) /\ Eos \in Bucket
    <2>1. bb' \in Seq(Bucket)
        BY BrigadeTyped
    <2>2. \A i \in 1 .. n : data[i] = bb'[i] /\ i \in 1 .. Len(bb')
        <3> HIDE DEF data
        <3>1. Len(data) = n
            BY <1>1, <1>2
        <3>2. CASE last
            BY <1>1, <1>2, <3>1, <3>2
        <3>3. CASE ~last
            BY <1>1, <1>2, <3>1, <3>3
        <3>4. QED BY <3>2, <3>3
    <2>3. \A i \in 1 .. n : data[i] \in Bucket
        <3> HIDE DEF data, Bucket
        <3>1. QED BY <2>1, <2>2
    <2>4. data \in [1 .. n -> Bucket]
        BY <1>1, <2>3 DEF Buckets
    <2> HIDE DEF data
    <2>5. data \in Seq(Bucket)
        <3>1. n \in Nat
            BY <1>1
        <3> HIDE DEF Bucket, n
        <3>2. QED BY <2>4, <3>1, SeqDef
    <2>6. Eos \in Bucket
        BY DEF Bucket
    <2>7. QED BY <2>5, <2>6
<1> HIDE DEF data
<1>5. CASE last
    <2>1. bb' = Append(data, Eos)
        BY <1>1, <1>4, <1>5, AppendIsConcat
    <2>2. Piece(Eos) = <<>>
        BY DEF Piece, Eos
    <2>3. ChunksOf(bb') = ChunksOf(data) \o <<>>
        BY <1>4, <2>1, <2>2, ChunksAppend
    <2>4. QED BY <1>3, <1>4, <2>3, PiecesType, ConcatEmptySeq
<1>6. CASE ~last
    <2>1. bb' = data
        BY <1>1, <1>4, <1>6, ConcatEmptySeq
    <2>2. QED BY <1>3, <2>1
<1>7. QED BY <1>5, <1>6

-----------------------------------------------------------------------------
(* Counting the chunks *)

ChunksTyped == \A i \in DOMAIN down : down[i].chunks \in Seq(Nat)

\* The filter is done with chunks 1 to t of those sent: they are passed on, in the
\* memstream or lost, and what is left of the brigade are the others.
DoneWith(t) ==
    /\ ChunksOf(bb) = Numbers(t, sent)
    /\ Passed \o ms_out = Kept(lost, t)
    /\ lost \in Seq(1 .. t)

Counting == ChunksTyped /\ \E t \in 0 .. sent : DoneWith(t)

LEMMA PassedType ==
    ASSUME Types, ChunksTyped
    PROVE  Passed \in Seq(Nat) /\ ms_out \in Seq(Nat)
<1> DEFINE parts == [k \in DOMAIN down |-> down[k].chunks]
<1>1. Len(down) \in Nat /\ DOMAIN down = 1 .. Len(down)
    BY DEF Types
<1>2. parts \in [1 .. Len(down) -> Seq(Nat)]
    BY <1>1 DEF ChunksTyped
<1> HIDE DEF parts
<1>3. parts \in Seq(Seq(Nat))
    BY <1>1, <1>2
<1>4. FlattenSeq(parts) \in Seq(Nat)
    BY <1>3, FlattenType
<1>5. ms_out \in Seq(Nat)
    <2>1. ms_out \in Seq(1 .. MaxChunks) /\ 1 .. MaxChunks \subseteq Nat
        BY DEF Types
    <2>2. QED BY <2>1, SeqMonotonic
<1>6. QED BY <1>4, <1>5 DEF Passed, parts

LEMMA PassedAppends ==
    ASSUME Types, ChunksTyped, NEW brigade, NEW as, PassOn(brigade, as),
           ChunksOf(brigade) \in Seq(Nat)
    PROVE  ChunksTyped' /\ Passed' = Passed \o ChunksOf(brigade)
<1> DEFINE parts == [k \in DOMAIN down |-> down[k].chunks]
           part == [as |-> as, chunks |-> ChunksOf(brigade), eos |-> Contains(brigade, Eos)]
<1>1. Len(down) \in Nat /\ DOMAIN down = 1 .. Len(down)
    BY DEF Types
<1>2. down' = Append(down, part) /\ part.chunks = ChunksOf(brigade)
    BY DEF PassOn
<1> HIDE DEF part
<1>3. /\ Len(down') = Len(down) + 1 /\ DOMAIN down' = 1 .. Len(down) + 1
      /\ \A i \in 1 .. Len(down) : down'[i] = down[i]
      /\ down'[Len(down) + 1] = part
    BY <1>1, <1>2
<1>4. ChunksTyped'
    BY <1>1, <1>2, <1>3 DEF ChunksTyped
<1>5. parts \in Seq(Seq(Nat)) /\ Len(parts) = Len(down)
    <2>1. parts \in [1 .. Len(down) -> Seq(Nat)]
        BY <1>1 DEF ChunksTyped
    <2> HIDE DEF parts
    <2>2. QED BY <1>1, <2>1
<1>6. [k \in DOMAIN down' |-> down'[k].chunks] = Append(parts, ChunksOf(brigade))
    BY <1>1, <1>2, <1>3
<1> HIDE DEF parts
<1>7. FlattenSeq(Append(parts, ChunksOf(brigade))) = FlattenSeq(parts) \o ChunksOf(brigade)
    BY <1>5, FlattenAppend
<1>8. QED BY <1>4, <1>6, <1>7 DEF Passed, parts

\* Nothing left of the brigade: the filter is done with all that was sent.
LEMMA NoneLeft ==
    ASSUME NEW t \in Nat, NEW n \in Nat, t <= n, Numbers(t, n) = <<>>
    PROVE  t = n
<1>1. Len(Numbers(t, n)) = n - t
    BY NumbersStep
<1>2. QED BY <1>1

LEMMA NumbersEnd ==
    ASSUME NEW n \in Nat
    PROVE  Numbers(n, n) = <<>>
BY DEF Numbers

\* The rest of the brigade is given up.
LEMMA GivenUp ==
    ASSUME NEW t \in Nat, NEW n \in Nat, t <= n, NEW gone \in Seq(1 .. t)
    PROVE  /\ gone \o Numbers(t, n) \in Seq(1 .. n)
           /\ Kept(gone \o Numbers(t, n), n) = Kept(gone, t)
<1> DEFINE more == gone \o Numbers(t, n)
<1>1. /\ Numbers(t, n) \in Seq(1 .. n) /\ Len(Numbers(t, n)) = n - t
      /\ \A i \in 1 .. n - t : Numbers(t, n)[i] = t + i
    BY DEF Numbers
<1>2. gone \in Seq(1 .. n)
    <2>1. 1 .. t \subseteq 1 .. n
        OBVIOUS
    <2>2. QED BY <2>1, SeqMonotonic
<1>3. /\ more \in Seq(1 .. n) /\ Len(more) = Len(gone) + (n - t) /\ Len(gone) \in Nat
      /\ \A i \in 1 .. Len(gone) : more[i] = gone[i]
      /\ \A i \in 1 .. n - t : more[Len(gone) + i] = t + i
    <2> DEFINE rest == Numbers(t, n)
    <2> HIDE DEF rest
    <2>1. rest \in Seq(1 .. n) /\ Len(rest) = n - t /\ \A i \in 1 .. n - t : rest[i] = t + i
        BY <1>1 DEF rest
    <2>2. /\ gone \o rest \in Seq(1 .. n) /\ Len(gone \o rest) = Len(gone) + Len(rest)
          /\ \A i \in 1 .. Len(gone) + Len(rest) :
                (gone \o rest)[i] = IF i <= Len(gone) THEN gone[i] ELSE rest[i - Len(gone)]
        BY <1>2, <2>1, ConcatProperties
    <2>3. Len(gone) \in Nat
        OBVIOUS
    <2>4. ASSUME NEW i \in 1 .. Len(gone)
          PROVE  (gone \o rest)[i] = gone[i]
        BY <2>1, <2>2, <2>3
    <2>5. ASSUME NEW i \in 1 .. n - t
          PROVE  (gone \o rest)[Len(gone) + i] = t + i
        <3>1. Len(gone) + i \in 1 .. Len(gone) + Len(rest) /\ ~ (Len(gone) + i <= Len(gone))
              /\ (Len(gone) + i) - Len(gone) = i
            BY <2>1, <2>3
        <3>2. QED BY <2>1, <2>2, <3>1
    <2>6. QED BY <2>1, <2>2, <2>3, <2>4, <2>5 DEF rest
<1> HIDE DEF more
<1>4. ASSUME NEW k \in 1 .. t
      PROVE  Contains(more, k) <=> Contains(gone, k)
    <2>1. ASSUME NEW i \in 1 .. Len(more), more[i] = k
          PROVE  i \in 1 .. Len(gone)
        <3>1. CASE i > Len(gone)
            <4>1. i - Len(gone) \in 1 .. n - t /\ Len(gone) + (i - Len(gone)) = i
                BY <1>3, <3>1
            <4>2. more[i] = t + (i - Len(gone))
                BY <1>3, <4>1
            <4>3. QED BY <2>1, <4>1, <4>2
        <3>2. QED BY <1>3, <3>1
    <2>2. \A i \in 1 .. Len(gone) : i \in 1 .. Len(more)
        BY <1>3
    <2>3. QED BY <1>3, <2>1, <2>2 DEF Contains
<1>5. ASSUME NEW k \in t + 1 .. n
      PROVE  Contains(more, k)
    <2>1. PICK j \in 1 .. n - t : t + j = k
        <3>1. k - t \in 1 .. n - t /\ t + (k - t) = k
            OBVIOUS
        <3>2. QED BY <3>1
    <2>2. more[Len(gone) + j] = k
        BY <1>3, <2>1
    <2>3. Len(gone) + j \in 1 .. Len(more)
        BY <1>3
    <2>4. QED BY <2>2, <2>3 DEF Contains
<1>6. Kept(more, n) = Kept(more, t)
    BY <1>5, KeptNoMore
<1>7. Kept(more, t) = Kept(gone, t)
    BY <1>4 DEF Kept
<1>8. QED BY <1>3, <1>6, <1>7 DEF more

\* Of what is left of the brigade nothing is lost yet.
LEMMA StillThere ==
    ASSUME NEW t \in Nat, NEW n \in Nat, NEW gone \in Seq(1 .. t)
    PROVE  \A k \in t + 1 .. n : ~Contains(gone, k)
<1>1. \A i \in 1 .. Len(gone) : gone[i] \in 1 .. t
    OBVIOUS
<1>2. QED BY <1>1 DEF Contains

LEMMA FirstNumber ==
    ASSUME NEW t \in Nat, NEW n \in Nat, t <= n, NEW c \in Nat, NEW rest \in Seq(Nat),
           <<c>> \o rest = Numbers(t, n)
    PROVE  t < n /\ c = t + 1 /\ rest = Numbers(t + 1, n)
<1>1. Len(<<c>> \o rest) = 1 + Len(rest) /\ Len(rest) \in Nat
    OBVIOUS
<1>2. Len(Numbers(t, n)) = n - t
    BY NumbersStep
<1>3. t < n /\ Len(rest) = n - (t + 1)
    BY <1>1, <1>2
<1>4. (<<c>> \o rest)[1] = c /\ \A i \in 1 .. Len(rest) : (<<c>> \o rest)[i + 1] = rest[i]
    OBVIOUS
<1>5. \A i \in 1 .. n - t : Numbers(t, n)[i] = t + i
    BY DEF Numbers
<1>6. c = t + 1
    BY <1>3, <1>4, <1>5
<1>7. \A i \in 1 .. Len(rest) : rest[i] = (t + 1) + i
    <2>1. ASSUME NEW i \in 1 .. Len(rest)
          PROVE  rest[i] = (t + 1) + i
        <3>1. i + 1 \in 1 .. n - t
            BY <1>3
        <3>2. QED BY <1>4, <1>5, <3>1
    <2>2. QED BY <2>1
<1>8. rest = Numbers(t + 1, n)
    BY <1>3, <1>7 DEF Numbers
<1>9. QED BY <1>3, <1>6, <1>8

LEMMA CountingInit ==
    ASSUME Init
    PROVE  Counting
<1>1. ChunksTyped /\ 0 \in 0 .. sent
    BY DEF Init, ChunksTyped
<1>2. ChunksOf(bb) = Numbers(0, sent)
    BY ChunksOfFew, NumbersEnd DEF Init
<1>3. Passed = <<>> /\ ms_out = <<>>
    <2>1. [k \in DOMAIN down |-> down[k].chunks] = <<>>
        BY DEF Init
    <2>2. QED BY <2>1, FlattenEmpty DEF Passed, Init
<1>4. Kept(lost, 0) = <<>> /\ lost \in Seq(1 .. 0)
    <2>1. lost = <<>> /\ <<>> \in Seq(1 .. 0)
        BY DEF Init
    <2>2. QED BY <2>1, KeptStep
<1>5. QED BY <1>1, <1>2, <1>3, <1>4 DEF Counting, DoneWith

LEMMA CountingNext ==
    ASSUME Inv, Counting, [Next]_vars
    PROVE  Counting'
<1>0. Types /\ ChunksTyped /\ sent \in Nat /\ Ending
    BY DEF Inv, Counting, Types
<1>1. PICK t \in 0 .. sent : DoneWith(t)
    BY DEF Counting
<1>2. t \in Nat /\ t <= sent /\ ChunksOf(bb) = Numbers(t, sent)
      /\ Passed \o ms_out = Kept(lost, t) /\ lost \in Seq(1 .. t)
    BY <1>0, <1>1 DEF DoneWith
<1>3. Passed \in Seq(Nat) /\ ms_out \in Seq(Nat)
    BY <1>0, PassedType
<1>4. bb = <<>> => t = sent
    BY <1>0, <1>2, ChunksOfFew, NoneLeft
<1>5. ASSUME NEW shape \in Shapes, NEW last \in BOOLEAN, SendBrigade(shape, last)
      PROVE  Counting'
    <2>1. ChunksOf(bb') = Numbers(sent, sent')
        BY <1>0, <1>5, ChunksOfBrigade
    <2>2. t = sent /\ UNCHANGED <<ms_out, down, lost>>
        BY <1>0, <1>4, <1>5 DEF SendBrigade, ctxVars, history, Ending
    <2>3. sent' \in Nat /\ sent <= sent'
        <3>1. sent' = sent + Before(shape, Len(shape)) /\ Len(shape) \in Nat
            BY <1>0, <1>5, SentInBrigade
        <3>2. Before(shape, Len(shape)) \in Nat
            BY <3>1, BeforeStep
        <3>3. QED BY <1>0, <3>1, <3>2
    <2>4. Passed' = Passed /\ ChunksTyped'
        BY <1>0, <2>2 DEF Passed, ChunksTyped
    <2>5. t \in 0 .. sent' /\ DoneWith(t)'
        BY <1>2, <2>1, <2>2, <2>3, <2>4 DEF DoneWith
    <2>6. QED BY <2>4, <2>5 DEF Counting
<1>6. ASSUME UNCHANGED <<sent, ms_out, down, lost>>, ChunksOf(bb') = ChunksOf(bb)
      PROVE  Counting'
    <2>1. Passed' = Passed /\ ChunksTyped'
        BY <1>0, <1>6 DEF Passed, ChunksTyped
    <2>2. t \in 0 .. sent' /\ DoneWith(t)'
        BY <1>2, <1>6, <2>1 DEF DoneWith
    <2>3. QED BY <2>1, <2>2 DEF Counting
<1>7. CASE Finalize
    <2>1. bb = <<>> /\ bb' = <<Eos>> /\ UNCHANGED <<sent, ms_out, down, lost>>
        BY <1>0, <1>7 DEF Finalize, ctxVars, history, Ending
    <2>2. QED BY <1>6, <2>1, ChunksOfFew
<1>8. CASE Untouched
    <2>1. /\ PassOn(bb, "raw") /\ bb' = <<>> /\ UNCHANGED <<ms_out, lost>>
          /\ ~processed
        BY <1>0, <1>8, UntouchedSteps DEF Inv, AsideUntouched
    <2>2. ms_out = <<>> /\ sent' = sent
        <3>1. ms_out = <<>>
            BY <2>1 DEF Inv, Converting
        <3>2. sent' = sent
            BY <1>8 DEF Untouched, EnterOwnPage, EnterFallback, EnterPlain404, EnterRedirect,
               EnterNotText, EnterLongType, PassUntouched, handlerVars
        <3>3. QED BY <3>1, <3>2
    <2>3. ChunksTyped' /\ Passed' = Passed \o Numbers(t, sent)
        <3>1. Numbers(t, sent) \in Seq(Nat)
            BY <1>0, <1>2, NumbersStep
        <3>2. QED BY <1>0, <1>2, <2>1, <3>1, PassedAppends
    <2>4. Passed = Kept(lost, t)
        BY <1>2, <1>3, <2>2, ConcatEmptySeq
    <2>5. Kept(lost, sent) = Kept(lost, t) \o Numbers(t, sent)
        <3>1. \A k \in t + 1 .. sent : ~Contains(lost, k)
            BY <1>0, <1>2, StillThere
        <3>2. QED BY <1>0, <1>2, <3>1, KeptMore
    <2>6. Passed' \o ms_out' = Kept(lost, sent)
        <3>1. Kept(lost, sent) \in Seq(Nat)
            BY <1>0, KeptStep
        <3>2. QED BY <2>1, <2>2, <2>3, <2>4, <2>5, <3>1, ConcatEmptySeq
    <2>7. lost \in Seq(1 .. sent)
        <3>1. 1 .. t \subseteq 1 .. sent
            BY <1>0, <1>2
        <3>2. QED BY <1>2, <3>1, SeqMonotonic
    <2>8. ChunksOf(bb') = Numbers(sent, sent)
        BY <1>0, <2>1, ChunksOfFew, NumbersEnd
    <2>9. DoneWith(sent)'
        BY <2>1, <2>2, <2>6, <2>7, <2>8 DEF DoneWith
    <2>10. sent' \in 0 .. sent'
        BY <1>0, <2>2
    <2>11. QED BY <2>2, <2>3, <2>9, <2>10 DEF Counting
<1>9. CASE EnterText \/ EndOfBrigade \/ UNCHANGED vars
    <2>1. UNCHANGED <<sent, ms_out, down, lost, bb>>
        BY <1>9 DEF EnterText, EndOfBrigade, vars, handlerVars, ctxVars, downVars, history
    <2>2. QED BY <1>6, <2>1
<1>10. CASE EndOfBody
    <2>1. /\ bb # <<>> /\ Head(bb) = Eos /\ bb' = <<>> /\ UNCHANGED <<sent, ms_out, down, lost>>
        BY <1>10 DEF EndOfBody, handlerVars, ctxVars, downVars, history
    <2>2. bb = <<Eos>>
        <3>1. bb[1] = Eos /\ 1 \in DOMAIN bb /\ bb \in Seq(Bucket)
            BY <1>0, <2>1, RestTyped DEF Types
        <3>2. Len(bb) = 1
            BY <1>0, <3>1 DEF Ending
        <3> HIDE DEF Bucket
        <3>3. QED BY <3>1, <3>2
    <2>3. QED BY <1>6, <2>1, <2>2, ChunksOfFew
<1>11. CASE TakeData
    <2> DEFINE c == Head(bb).chunk
               rest == ChunksOf(Tail(bb))
    <2>1. /\ bb # <<>> /\ Head(bb).kind = "data" /\ bb' = Tail(bb) /\ ms_out' = Append(ms_out, c)
          /\ UNCHANGED <<sent, down, lost>>
        BY <1>11 DEF TakeData, handlerVars, downVars, history
    <2>2. bb \in Seq(Bucket) /\ Head(bb) \in Bucket /\ Tail(bb) \in Seq(Bucket)
        BY <1>0, <2>1, RestTyped DEF Types
    <2>3. c \in Nat
        <3>1. c \in 1 .. MaxChunks
            BY <2>1, <2>2 DEF Bucket, Data, Meta, Eos
        <3>2. QED BY <3>1, BoundsAssumption
    <2>4. rest \in Seq(Nat)
        BY <2>2, PiecesType
    <2>5. <<c>> \o rest = Numbers(t, sent)
        <3>1. Piece(Head(bb)) = <<c>>
            BY <2>1 DEF Piece
        <3>2. ChunksOf(bb) = Piece(Head(bb)) \o rest
            BY <2>1, <2>2, ChunksStep
        <3>3. QED BY <1>2, <3>1, <3>2
    <2> HIDE DEF c, rest
    <2>6. t < sent /\ c = t + 1 /\ rest = Numbers(t + 1, sent)
        BY <1>0, <1>2, <2>3, <2>4, <2>5, FirstNumber
    <2>7. ~Contains(lost, t + 1)
        <3>1. t + 1 \in t + 1 .. sent
            BY <1>0, <1>2, <2>6
        <3>2. QED BY <1>0, <1>2, <3>1, StillThere
    <2>8. Kept(lost, t + 1) = Kept(lost, t) \o <<t + 1>>
        BY <1>2, <2>7, KeptStep
    <2>9. Passed \o Append(ms_out, c) = (Passed \o ms_out) \o <<c>>
        <3> DEFINE x == Passed
        <3>1. x \in Seq(Nat) /\ <<c>> \in Seq(Nat)
            BY <1>3, <2>3
        <3> HIDE DEF x
        <3>2. Append(ms_out, c) = ms_out \o <<c>>
            BY <1>3, <2>3, AppendIsConcat
        <3>3. (x \o ms_out) \o <<c>> = x \o (ms_out \o <<c>>)
            BY <1>3, <3>1, ConcatAssociative, SMTT(30)
        <3>4. QED BY <3>2, <3>3 DEF x
    <2>10. Passed' = Passed /\ ChunksTyped'
        BY <1>0, <2>1 DEF Passed, ChunksTyped
    <2>11. Passed' \o ms_out' = Kept(lost, t + 1)
        BY <1>2, <2>1, <2>6, <2>8, <2>9, <2>10
    <2>12. lost \in Seq(1 .. t + 1)
        <3>1. 1 .. t \subseteq 1 .. t + 1
            BY <1>2
        <3>2. QED BY <1>2, <3>1, SeqMonotonic
    <2>13. t + 1 \in 0 .. sent' /\ DoneWith(t + 1)'
        <3>1. sent' = sent /\ lost' = lost /\ ChunksOf(bb') = rest
            BY <2>1 DEF rest
        <3>2. t + 1 \in 0 .. sent'
            BY <1>0, <1>2, <2>6, <3>1
        <3>3. ChunksOf(bb') = Numbers(t + 1, sent')
            BY <2>6, <3>1
        <3>4. lost' \in Seq(1 .. t + 1)
            BY <2>12, <3>1
        <3>5. Kept(lost', t + 1) = Kept(lost, t + 1)
            BY <3>1
        <3>6. QED BY <2>11, <3>2, <3>3, <3>4, <3>5 DEF DoneWith
    <2>14. QED BY <2>10, <2>13 DEF Counting
<1>12. ASSUME UNCHANGED <<sent, ms_out>>, Passed' = Passed, ChunksTyped', bb' = <<>>,
              lost' = lost \o ChunksOf(bb)
       PROVE  Counting'
    <2>1. /\ lost' \in Seq(1 .. sent)
          /\ Kept(lost', sent) = Kept(lost, t)
        BY <1>0, <1>2, <1>12, GivenUp
    <2>2. ChunksOf(bb') = Numbers(sent, sent)
        BY <1>0, <1>12, ChunksOfFew, NumbersEnd
    <2>3. sent' \in 0 .. sent' /\ DoneWith(sent)'
        BY <1>0, <1>2, <1>12, <2>1, <2>2 DEF DoneWith
    <2>4. QED BY <1>12, <2>3 DEF Counting
<1>13. CASE ReadFails
    <2>1. UNCHANGED <<sent, ms_out, down>> /\ bb' = <<>> /\ lost' = lost \o ChunksOf(bb)
        BY <1>13 DEF ReadFails, handlerVars, ctxVars, downVars
    <2>2. Passed' = Passed /\ ChunksTyped'
        BY <1>0, <2>1 DEF Passed, ChunksTyped
    <2>3. QED BY <1>12, <2>1, <2>2
<1>14. ASSUME bb # <<>>, Head(bb).kind = "meta", PassOn(<<Head(bb)>>, "meta")
       PROVE  ChunksTyped' /\ Passed' = Passed /\ ChunksOf(Tail(bb)) = ChunksOf(bb)
    <2>1. bb \in Seq(Bucket) /\ Head(bb) \in Bucket /\ Tail(bb) \in Seq(Bucket)
        BY <1>0, <1>14, RestTyped DEF Types
    <2>2. ChunksOf(<<Head(bb)>>) = <<>>
        BY <1>14, <2>1, ChunksOfFew
    <2>3. ChunksTyped' /\ Passed' = Passed \o <<>>
        <3>1. <<>> \in Seq(Nat)
            OBVIOUS
        <3>2. QED BY <1>0, <1>14, <2>2, <3>1, PassedAppends
    <2>4. ChunksOf(bb) = ChunksOf(Tail(bb))
        <3>1. Piece(Head(bb)) = <<>>
            BY <1>14 DEF Piece
        <3>2. ChunksOf(bb) = <<>> \o ChunksOf(Tail(bb)) /\ ChunksOf(Tail(bb)) \in Seq(Nat)
            BY <1>14, <2>1, <3>1, ChunksStep, PiecesType
        <3>3. QED BY <3>2, ConcatEmptySeq
    <2>5. QED BY <1>3, <2>3, <2>4, ConcatEmptySeq
<1>15. CASE SendMeta
    <2>1. /\ bb # <<>> /\ Head(bb).kind = "meta" /\ PassOn(<<Head(bb)>>, "meta")
          /\ bb' = Tail(bb) /\ UNCHANGED <<sent, ms_out, lost>>
        BY <1>15 DEF SendMeta, handlerVars, ctxVars, history
    <2>2. ChunksTyped' /\ Passed' = Passed /\ ChunksOf(bb') = ChunksOf(bb)
        BY <1>14, <2>1
    <2>3. t \in 0 .. sent' /\ DoneWith(t)'
        BY <1>2, <2>1, <2>2 DEF DoneWith
    <2>4. QED BY <2>2, <2>3 DEF Counting
<1>16. CASE SendMetaFails
    <2>1. /\ bb # <<>> /\ Head(bb).kind = "meta" /\ PassOn(<<Head(bb)>>, "meta")
          /\ bb' = <<>> /\ lost' = lost \o ChunksOf(bb) /\ UNCHANGED <<sent, ms_out>>
        BY <1>16 DEF SendMetaFails, handlerVars, ctxVars
    <2>2. QED BY <1>12, <1>14, <2>1
<1>17. CASE ConvertAll
    <2> DEFINE body == [k \in DOMAIN ms_out |-> Data(ms_out[k])]
    <2>1. PassOn(body, "converted") /\ ms_out' = <<>> /\ UNCHANGED <<sent, bb, lost>>
        BY <1>17 DEF ConvertAll, handlerVars, history
    <2>2. ChunksOf(body) = ms_out
        BY <1>0, ChunksOfBody DEF Types
    <2> HIDE DEF body
    <2>3. ChunksTyped' /\ Passed' = Passed \o ms_out
        BY <1>0, <1>3, <2>1, <2>2, PassedAppends
    <2>4. Passed' \o ms_out' = Kept(lost, t)
        <3>1. Kept(lost, t) \in Seq(Nat)
            BY <1>2, KeptStep
        <3>2. QED BY <1>2, <2>1, <2>3, <3>1, ConcatEmptySeq
    <2>5. t \in 0 .. sent' /\ DoneWith(t)'
        BY <1>2, <2>1, <2>4 DEF DoneWith
    <2>6. QED BY <2>3, <2>5 DEF Counting
<1>18. CASE SendEos
    <2>1. PassOn(<<Eos>>, "eos") /\ UNCHANGED <<sent, ms_out, bb, lost>>
        BY <1>18 DEF SendEos, handlerVars, ctxVars, history
    <2>2. ChunksTyped' /\ Passed' = Passed \o <<>>
        <3>1. ChunksOf(<<Eos>>) = <<>> /\ <<>> \in Seq(Nat)
            BY ChunksOfFew
        <3>2. QED BY <1>0, <2>1, <3>1, PassedAppends
    <2>3. Passed' = Passed
        BY <1>3, <2>2, ConcatEmptySeq
    <2>4. t \in 0 .. sent' /\ DoneWith(t)'
        BY <1>2, <2>1, <2>3 DEF DoneWith
    <2>5. QED BY <2>2, <2>4 DEF Counting
<1>19. QED BY <1>5, <1>7, <1>8, <1>9, <1>10, <1>11, <1>13, <1>15, <1>16, <1>17, <1>18, StepCases

\* Each chunk of the body is passed on, waiting or lost exactly once and in order,
\* in whatever brigades it comes and wherever metadata buckets stand among it.
THEOREM EveryChunkOnce == Spec => []NothingLost
<1>1. Init => Counting
    BY CountingInit
<1>2. Inv /\ Counting /\ [Next]_vars => Counting'
    BY CountingNext
<1>3. Inv /\ Counting => NothingLost
    <2>1. SUFFICES ASSUME Inv, Counting
                   PROVE  NothingLost
        OBVIOUS
    <2>2. sent \in Nat /\ Types
        BY <2>1 DEF Inv, Types
    <2>3. PICK t \in 0 .. sent : DoneWith(t)
        BY <2>1 DEF Counting
    <2>4. t \in Nat /\ t <= sent /\ ChunksOf(bb) = Numbers(t, sent)
          /\ Passed \o ms_out = Kept(lost, t) /\ lost \in Seq(1 .. t)
        BY <2>2, <2>3 DEF DoneWith
    <2>5. \A k \in t + 1 .. sent : ~Contains(lost, k)
        BY <2>2, <2>4, StillThere
    <2>6. Kept(lost, sent) = (Passed \o ms_out) \o ChunksOf(bb)
        BY <2>2, <2>4, <2>5, KeptMore
    <2>7. QED BY <2>6 DEF NothingLost, Kept
<1>4. QED BY <1>1, <1>2, <1>3, InvAlways, PTL DEF Spec
=============================================================================
