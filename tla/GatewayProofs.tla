--------------------------- MODULE GatewayProofs ---------------------------
(***************************************************************************)
(* What is asked for through the gateway, and what passes through it.      *)
(*                                                                         *)
(* For every number of workers, all requests and every size of the cache:  *)
(* what is fetched for a request is the URL requested, or its older one    *)
(* and then because the first was not there; and between two prunings of a *)
(* URL no worker asks for it twice in vain.  For every text, however it is *)
(* cut: the body of a request arrives converted, once.  For every page and *)
(* configuration: the page is put out whole.                               *)
(***************************************************************************)
EXTENDS Gateway, Browse, SequenceLemmas, FiniteSetTheorems

-----------------------------------------------------------------------------
(* The inductive invariant *)

Records ==
    [pc : {"fixup", "base", "fetch", "answer"}, req : Requests,
     status : {200, 302, 404, 506}, handler : {"proxy-server", "fjtapi", "other", "fjt"},
     filename : Urls \cup {NULL}, ORIG_URL : Urls \cup {NULL},
     m_pcCurrentUrl : Urls \cup {NULL, "conf", "env"}]

Types ==
    /\ cache \in Seq(Urls) /\ exists \subseteq Names
    /\ refused \subseteq Urls /\ tries \in [Urls -> Nat]
    /\ r \in [Workers -> Records \cup {Idle}]

\* A request that has not been looked up is as mod_rewrite left it.
Fresh(x) ==
    x.pc = "fixup" => x.filename = x.req.url /\ x.status = 200 /\ x.handler # "fjt"

\* From the look-up until the origin server has answered, a request of an
\* allowed domain is under way for its own URL or its older one.
UnderWay(x) == x.pc \in {"base", "fetch"} \/ (x.pc = "answer" /\ x.status = 404)

Honest(x, known) ==
    UnderWay(x) =>
        /\ x.req.domain = "allowed" /\ x.handler # "fjt"
        /\ x.ORIG_URL = x.req.url /\ x.filename \in Urls
        /\ \/ x.filename.name = x.req.url.name
           \/ x.req.OLDURL # NULL /\ x.filename.name = x.req.OLDURL.name /\ x.req.url \in known

\* A 404 of a request that has another URL is about a URL known to be missing.
Missing(x, known) ==
    x.pc = "answer" /\ x.status = 404 /\ x.req.OLDURL # NULL => x.req.url \in known

RequestOK(x, known) == Fresh(x) /\ Honest(x, known) /\ Missing(x, known)

Requested == \A w \in Workers : r[w] # Idle => RequestOK(r[w], refused)

\* Only what the origin server did not have is in the cache.
CacheJustified == Cache!Held \subseteq refused

\* A worker that may still be told that u is missing, having looked it up in
\* vain; and one that has been told and will have u remembered.
MayMiss(x, u) ==
    x.pc \in {"base", "fetch"} /\ x.req.OLDURL # NULL /\ x.ORIG_URL = u
                               /\ x.filename.name = u.name
HasMissed(x, u) ==
    x.pc = "answer" /\ x.status = 404 /\ x.handler # "fjt" /\ x.req.OLDURL # NULL
                    /\ x.ORIG_URL = u

Late(s, u)    == {w \in Workers : MayMiss(s[w], u)}
Pending(s, u) == {w \in Workers : HasMissed(s[w], u)}

\* While u is in the cache nobody looks it up in vain, so each vain try leaves
\* one worker fewer to try; while it is not, whoever has tried has yet to add it.
TriesOf(s, n, held, u) ==
    IF held THEN n + Cardinality(Late(s, u)) <= Cardinality(Workers)
            ELSE n <= Cardinality(Pending(s, u))

Counted == \A u \in Urls : TriesOf(r, tries[u], u \in Cache!Held, u)

Inv == Types /\ Requested /\ CacheJustified /\ Counted

-----------------------------------------------------------------------------
(* The set of URLs held, under the operations of the cache *)

LEMMA HeldIsElements == Cache!Held = Elements(cache)
BY DEF Cache!Held, Elements

\* A look-up leaves the same URLs in the cache.
LEMMA LookupHeld ==
    ASSUME cache \in Seq(Urls), NEW u, Cache!LookupHit(u) \/ Cache!LookupMiss(u)
    PROVE  /\ cache' \in Seq(Urls) /\ Cache!Held' = Cache!Held
           /\ u \in Cache!Held <=> Cache!LookupHit(u)
<1>1. CASE Cache!LookupMiss(u)
  BY <1>1, HeldIsElements DEF Cache!LookupMiss, Cache!LookupHit, Cache!Held
<1>2. CASE Cache!LookupHit(u)
  <2>1. PICK i \in DOMAIN cache : cache[i] = u /\ cache' = Append(RemoveAt(cache, i), u)
    BY <1>2 DEF Cache!LookupHit, Cache!RemoveAt, RemoveAt
  <2>2. u \in Urls
    BY <2>1
  <2>3. /\ RemoveAt(cache, i) \in Seq(Urls)
        /\ Elements(RemoveAt(cache, i)) \cup {u} = Elements(cache)
    BY <2>1, RemoveAtElements
  <2>4. cache' \in Seq(Urls) /\ Elements(cache') = Elements(RemoveAt(cache, i)) \cup {u}
    BY <2>1, <2>2, <2>3, AppendElements
  <2>5. Cache!Held' = Elements(cache')
    BY DEF Cache!Held, Elements
  <2>6. Cache!Held' = Cache!Held
    BY <2>3, <2>4, <2>5, HeldIsElements
  <2> QED
    BY <1>2, <2>1, <2>4, <2>6 DEF Cache!Held
<1> QED
  BY <1>1, <1>2

\* Adding a URL leaves it in the cache, and nothing that was not there comes in.
LEMMA AddHeld ==
    ASSUME cache \in Seq(Urls), NEW u \in Urls, Cache!AddKnown(u) \/ Cache!AddNew(u)
    PROVE  /\ cache' \in Seq(Urls) /\ u \in Cache!Held'
           /\ Cache!Held' \subseteq Cache!Held \cup {u}
<1>1. CASE Cache!AddKnown(u)
  BY <1>1 DEF Cache!AddKnown, Cache!Held
<1>2. CASE Cache!AddNew(u)
  <2> DEFINE all == Append(cache, u)
  <2>1. all \in Seq(Urls) /\ Elements(all) = Elements(cache) \cup {u}
    BY AppendElements
  <2>2. Len(all) \in Nat /\ Len(all) = Len(cache) + 1 /\ Len(cache) \in Nat /\ all[Len(all)] = u /\ all # <<>>
    OBVIOUS
  <2>3. cache' = IF Len(all) >= MAX_CACHE_SIZE THEN Tail(all) ELSE all
    BY <1>2 DEF Cache!AddNew
  <2>4. Cache!Held' = Elements(cache')
    BY DEF Cache!Held, Elements
  <2> HIDE DEF all
  <2>5. CASE Len(all) >= MAX_CACHE_SIZE
    <3>1. Len(all) > 1
      BY <2>2, <2>5, SizeAssumption
    <3>2. /\ Tail(all) \in Seq(Urls) /\ Elements(Tail(all)) \subseteq Elements(all)
          /\ u \in Elements(Tail(all))
      BY <2>1, <2>2, <3>1, TailElements
    <3> QED
      BY <2>1, <2>3, <2>4, <2>5, <3>2, HeldIsElements
  <2>6. CASE ~(Len(all) >= MAX_CACHE_SIZE)
    BY <2>1, <2>3, <2>4, <2>6, HeldIsElements
  <2> QED
    BY <2>5, <2>6
<1> QED
  BY <1>1, <1>2

-----------------------------------------------------------------------------
(* What a step of one worker has to show *)

\* Knowing of more missing URLs makes no request wrong.
LEMMA MoreKnown ==
    ASSUME NEW x, NEW known, NEW more, known \subseteq more, RequestOK(x, known)
    PROVE  RequestOK(x, more)
BY DEF RequestOK, Fresh, Honest, Missing

LEMMA IdleAsksNothing ==
    ASSUME NEW u PROVE ~MayMiss(Idle, u) /\ ~HasMissed(Idle, u)
BY DEF MayMiss, HasMissed, Idle

LEMMA Finite ==
    ASSUME NEW s, NEW u
    PROVE  /\ IsFiniteSet(Late(s, u)) /\ Cardinality(Late(s, u)) \in Nat
           /\ IsFiniteSet(Pending(s, u)) /\ Cardinality(Pending(s, u)) \in Nat
           /\ Cardinality(Workers) \in Nat
           /\ Cardinality(Late(s, u)) + Cardinality(Pending(s, u)) <= Cardinality(Workers)
<1>1. /\ Late(s, u) \subseteq Workers /\ Pending(s, u) \subseteq Workers
      /\ Late(s, u) \cap Pending(s, u) = {}
  BY DEF Late, Pending, MayMiss, HasMissed
<1> DEFINE A == Late(s, u)
           B == Pending(s, u)
<1> HIDE DEF A, B
<1>2. /\ IsFiniteSet(A) /\ IsFiniteSet(B) /\ A \cup B \subseteq Workers /\ A \cap B = {}
      /\ IsFiniteSet(Workers)
  BY <1>1, WorkersAssumption, FS_Subset DEF A, B
<1>3. Cardinality(A) \in Nat /\ Cardinality(B) \in Nat /\ Cardinality(Workers) \in Nat
  BY <1>2, FS_CardinalityType
<1>4. Cardinality(A \cup B) = Cardinality(A) + Cardinality(B) - Cardinality(A \cap B)
  BY <1>2, FS_Union
<1>5. Cardinality(A \cap B) = 0
  BY <1>2, FS_EmptySet
<1>6. Cardinality(A \cup B) <= Cardinality(Workers)
  BY <1>2, FS_Subset
<1> QED
  BY <1>2, <1>3, <1>4, <1>5, <1>6 DEF A, B

\* A worker that does not become late for what is in the cache, and does not
\* cease to be pending for what is not, leaves the count right.
LEMMA SameTries ==
    ASSUME NEW s \in [Workers -> Records \cup {Idle}], NEW w \in Workers, NEW x,
           NEW u, NEW held, NEW n \in Nat, TriesOf(s, n, held, u),
           held => (MayMiss(x, u) => MayMiss(s[w], u)),
           ~held => (HasMissed(s[w], u) => HasMissed(x, u))
    PROVE  TriesOf([s EXCEPT ![w] = x], n, held, u)
<1> DEFINE t == [s EXCEPT ![w] = x]
<1>1. t[w] = x /\ \A v \in Workers \ {w} : t[v] = s[v]
  OBVIOUS
<1> HIDE DEF t
<1>2. CASE held
  <2>1. Late(t, u) \subseteq Late(s, u)
    BY <1>1, <1>2 DEF Late
  <2>2. Cardinality(Late(t, u)) <= Cardinality(Late(s, u))
    BY <2>1, Finite, FS_Subset
  <2> QED
    BY <1>2, <2>2, Finite DEF TriesOf, t
<1>3. CASE ~held
  <2>1. Pending(s, u) \subseteq Pending(t, u)
    BY <1>1, <1>3 DEF Pending
  <2>2. Cardinality(Pending(s, u)) <= Cardinality(Pending(t, u))
    BY <2>1, Finite, FS_Subset
  <2> QED
    BY <1>3, <2>2, Finite DEF TriesOf, t
<1> QED
  BY <1>2, <1>3

\* A miss is one more try and one worker fewer to try, or one more to add it.
LEMMA OneMoreTry ==
    ASSUME NEW s \in [Workers -> Records \cup {Idle}], NEW w \in Workers, NEW x,
           NEW u, NEW held, NEW n \in Nat, TriesOf(s, n, held, u),
           MayMiss(s[w], u), HasMissed(x, u)
    PROVE  TriesOf([s EXCEPT ![w] = x], n + 1, held, u)
<1> DEFINE t == [s EXCEPT ![w] = x]
<1>1. t[w] = x /\ \A v \in Workers \ {w} : t[v] = s[v]
  OBVIOUS
<1> HIDE DEF t
<1>2. ~MayMiss(x, u) /\ ~HasMissed(s[w], u)
  BY DEF MayMiss, HasMissed
<1>3. Late(t, u) = Late(s, u) \ {w} /\ w \in Late(s, u)
  BY <1>1, <1>2 DEF Late
<1>4. Cardinality(Late(t, u)) = Cardinality(Late(s, u)) - 1
  BY <1>3, Finite, FS_RemoveElement
<1>5. Pending(t, u) = Pending(s, u) \cup {w} /\ w \notin Pending(s, u)
  BY <1>1, <1>2 DEF Pending
<1>6. Cardinality(Pending(t, u)) = Cardinality(Pending(s, u)) + 1
  BY <1>5, Finite, FS_AddElement
<1>7. /\ Cardinality(Late(s, u)) \in Nat /\ Cardinality(Pending(s, u)) \in Nat
      /\ Cardinality(Workers) \in Nat
  BY Finite
<1>8. CASE held
  BY <1>4, <1>7, <1>8 DEF TriesOf, t
<1>9. CASE ~held
  BY <1>6, <1>7, <1>9 DEF TriesOf, t
<1> QED
  BY <1>8, <1>9

\* Whoever is pending is not late: a URL that comes into the cache has been
\* tried by nobody who may still try it.
LEMMA TriesWhenAdded ==
    ASSUME NEW s, NEW u, NEW n \in Nat, NEW held, TriesOf(s, n, held, u)
    PROVE  TriesOf(s, n, TRUE, u)
<1>1. /\ Cardinality(Late(s, u)) \in Nat /\ Cardinality(Pending(s, u)) \in Nat
      /\ Cardinality(Workers) \in Nat
      /\ Cardinality(Late(s, u)) + Cardinality(Pending(s, u)) <= Cardinality(Workers)
  BY Finite
<1>2. CASE held
  BY <1>2 DEF TriesOf
<1>3. CASE ~held
  BY <1>1, <1>3 DEF TriesOf
<1> QED
  BY <1>2, <1>3

LEMMA NoTries ==
    ASSUME NEW s, NEW u
    PROVE  TriesOf(s, 0, FALSE, u)
BY Finite DEF TriesOf

\* A step of one worker that leaves the contents of the cache and both histories
\* alone has to account for its own request only.
LEMMA OwnStep ==
    ASSUME Inv, NEW w \in Workers, NEW x \in Records \cup {Idle}, r' = [r EXCEPT ![w] = x],
           cache' \in Seq(Urls), Cache!Held' = Cache!Held,
           UNCHANGED <<exists, refused, tries>>,
           x # Idle => RequestOK(x, refused),
           \A u \in Urls : u \in Cache!Held => (MayMiss(x, u) => MayMiss(r[w], u)),
           \A u \in Urls : HasMissed(r[w], u) => HasMissed(x, u)
    PROVE  Inv'
<1>1. Types'
  BY DEF Inv, Types
<1>2. Requested'
  <2> SUFFICES ASSUME NEW v \in Workers, r'[v] # Idle PROVE RequestOK(r'[v], refused)
    BY DEF Requested
  <2>1. CASE v = w
    BY <2>1 DEF Inv, Types
  <2>2. CASE v # w
    BY <2>2 DEF Inv, Types, Requested
  <2> QED
    BY <2>1, <2>2
<1>3. CacheJustified'
  BY DEF Inv, CacheJustified
<1>4. Counted'
  <2> SUFFICES ASSUME NEW u \in Urls PROVE TriesOf(r', tries[u], u \in Cache!Held, u)
    BY DEF Counted
  <2>1. /\ r \in [Workers -> Records \cup {Idle}] /\ tries[u] \in Nat
        /\ TriesOf(r, tries[u], u \in Cache!Held, u)
    BY DEF Inv, Types, Counted
  <2> DEFINE held == u \in Cache!Held
  <2>2. /\ held => (MayMiss(x, u) => MayMiss(r[w], u))
        /\ ~held => (HasMissed(r[w], u) => HasMissed(x, u))
        /\ TriesOf(r, tries[u], held, u)
    BY <2>1
  <2> HIDE DEF held
  <2>3. TriesOf([r EXCEPT ![w] = x], tries[u], held, u)
    BY <2>1, <2>2, SameTries
  <2> QED
    BY <2>3 DEF held
<1> QED
  BY <1>1, <1>2, <1>3, <1>4 DEF Inv

\* A record of a request with its fields spelled out.
Rec(pc, req, status, handler, filename, ORIG_URL, current) ==
    [pc |-> pc, req |-> req, status |-> status, handler |-> handler,
     filename |-> filename, ORIG_URL |-> ORIG_URL, m_pcCurrentUrl |-> current]

LEMMA FieldTypes ==
    ASSUME NEW y \in Records
    PROVE  /\ y.pc \in {"fixup", "base", "fetch", "answer"} /\ y.req \in Requests
           /\ y.status \in {200, 302, 404, 506}
           /\ y.handler \in {"proxy-server", "fjtapi", "other", "fjt"}
           /\ y.filename \in Urls \cup {NULL} /\ y.ORIG_URL \in Urls \cup {NULL}
           /\ y.m_pcCurrentUrl \in Urls \cup {NULL, "conf", "env"}
BY DEF Records

\* What the steps make of a request y.
HandedOver(y, h) == [y EXCEPT !.handler = h, !.pc = "answer"]
TurnedAway(y, s) == [y EXCEPT !.status = s, !.handler = "fjt", !.filename = NULL, !.pc = "answer"]
LookedUp(y, o) == [y EXCEPT !.ORIG_URL = o, !.pc = "base"]
Replaced(y, o, f) == [y EXCEPT !.ORIG_URL = o, !.filename = f, !.pc = "base"]
Asked(y, f, b) == [y EXCEPT !.filename = f, !.pc = "fetch", !.m_pcCurrentUrl = b]
AskedAsItIs(y) == [y EXCEPT !.pc = "fetch"]
Answered(y, s) == [y EXCEPT !.status = s, !.pc = "answer"]

\* The fields that are set, and the others as they were.
LEMMA HandedOverFields ==
    ASSUME NEW y \in Records, NEW h \in {"proxy-server", "fjtapi", "other", "fjt"},
           NEW x, x = HandedOver(y, h)
    PROVE  x \in Records /\ x.pc = "answer" /\ x.status = y.status
<1>1. x = Rec("answer", y.req, y.status, h, y.filename, y.ORIG_URL, y.m_pcCurrentUrl)
  BY DEF Records, Rec, HandedOver
<1> QED
  BY <1>1, FieldTypes DEF Records, Rec

LEMMA TurnedAwayFields ==
    ASSUME NEW y \in Records, NEW s \in {200, 302, 404, 506},
           NEW x, x = TurnedAway(y, s)
    PROVE  x \in Records /\ x.pc = "answer" /\ x.status = s
<1>1. x = Rec("answer", y.req, s, "fjt", NULL, y.ORIG_URL, y.m_pcCurrentUrl)
  <2>1. PICK a, b, k, d, e, f, g : y = Rec(a, b, k, d, e, f, g)
    BY DEF Records, Rec
  <2>2. b = y.req /\ f = y.ORIG_URL /\ g = y.m_pcCurrentUrl
    BY <2>1 DEF Rec
  <2> DEFINE y1 == [y EXCEPT !.status = s]
             y2 == [y1 EXCEPT !.handler = "fjt"]
             y3 == [y2 EXCEPT !.filename = NULL]
             y4 == [y3 EXCEPT !.pc = "answer"]
  <2>3. TurnedAway(y, s) = y4
    BY DEF TurnedAway
  <2>4. y1 = Rec(a, b, s, d, e, f, g)
    BY <2>1 DEF Rec
  <2> HIDE DEF y1
  <2>5. y2 = Rec(a, b, s, "fjt", e, f, g)
    BY <2>4 DEF Rec
  <2> HIDE DEF y2
  <2>6. y3 = Rec(a, b, s, "fjt", NULL, f, g)
    BY <2>5 DEF Rec
  <2> HIDE DEF y3
  <2>7. y4 = Rec("answer", b, s, "fjt", NULL, f, g)
    BY <2>6 DEF Rec
  <2> HIDE DEF y4
  <2> QED
    BY <2>2, <2>3, <2>7
<1> QED
  BY <1>1, FieldTypes DEF Records, Rec

LEMMA LookedUpFields ==
    ASSUME NEW y \in Records, NEW o \in Urls,
           NEW x, x = LookedUp(y, o)
    PROVE  /\ x \in Records /\ x.pc = "base" /\ x.req = y.req /\ x.handler = y.handler
           /\ x.filename = y.filename /\ x.ORIG_URL = o
<1>1. x = Rec("base", y.req, y.status, y.handler, y.filename, o, y.m_pcCurrentUrl)
  BY DEF Records, Rec, LookedUp
<1> QED
  BY <1>1, FieldTypes DEF Records, Rec

LEMMA ReplacedFields ==
    ASSUME NEW y \in Records, NEW o \in Urls, NEW f \in Urls,
           NEW x, x = Replaced(y, o, f)
    PROVE  /\ x \in Records /\ x.pc = "base" /\ x.req = y.req /\ x.handler = y.handler
           /\ x.filename = f /\ x.ORIG_URL = o
<1>1. x = Rec("base", y.req, y.status, y.handler, f, o, y.m_pcCurrentUrl)
  BY DEF Records, Rec, Replaced
<1> QED
  BY <1>1, FieldTypes DEF Records, Rec

LEMMA AskedFields ==
    ASSUME NEW y \in Records, NEW f \in Urls, NEW b \in Urls \cup {NULL, "conf", "env"},
           NEW x, x = Asked(y, f, b)
    PROVE  /\ x \in Records /\ x.pc = "fetch" /\ x.req = y.req /\ x.handler = y.handler
           /\ x.filename = f /\ x.ORIG_URL = y.ORIG_URL
<1>1. x = Rec("fetch", y.req, y.status, y.handler, f, y.ORIG_URL, b)
  BY DEF Records, Rec, Asked
<1> QED
  BY <1>1, FieldTypes DEF Records, Rec

LEMMA AskedAsItIsFields ==
    ASSUME NEW y \in Records, NEW x, x = AskedAsItIs(y)
    PROVE  /\ x \in Records /\ x.pc = "fetch" /\ x.req = y.req /\ x.handler = y.handler
           /\ x.filename = y.filename /\ x.ORIG_URL = y.ORIG_URL
<1>1. x = Rec("fetch", y.req, y.status, y.handler, y.filename, y.ORIG_URL, y.m_pcCurrentUrl)
  BY DEF Records, Rec, AskedAsItIs
<1> QED
  BY <1>1, FieldTypes DEF Records, Rec

LEMMA AnsweredFields ==
    ASSUME NEW y \in Records, NEW s \in {200, 302, 404, 506},
           NEW x, x = Answered(y, s)
    PROVE  /\ x \in Records /\ x.pc = "answer" /\ x.req = y.req /\ x.status = s
           /\ x.handler = y.handler /\ x.filename = y.filename /\ x.ORIG_URL = y.ORIG_URL
<1>1. x = Rec("answer", y.req, s, y.handler, y.filename, y.ORIG_URL, y.m_pcCurrentUrl)
  BY DEF Records, Rec, Answered
<1> QED
  BY <1>1, FieldTypes DEF Records, Rec

\* The request of a worker that is not idle is a record, and in order.
LEMMA Busy ==
    ASSUME Inv, NEW w \in Workers, r[w].pc # "idle"
    PROVE  /\ r[w] \in Records /\ RequestOK(r[w], refused) /\ r[w].req \in RequestType
           /\ r[w].req.OLDURL # NULL => r[w].req.OLDURL.name # r[w].req.url.name
<1>1. r[w] # Idle /\ r[w] \in Records
  BY DEF Inv, Types, Idle
<1> QED
  BY <1>1, RequestAssumption, OldUrlAssumption DEF Inv, Requested, Records

LEMMA InvInit == Init => Inv
<1> SUFFICES ASSUME Init PROVE Inv
  OBVIOUS
<1>1. /\ cache = <<>> /\ exists \in SUBSET Names /\ refused = {} /\ tries = [u \in Urls |-> 0]
      /\ r = [w \in Workers |-> Idle]
  BY DEF Init, Cache!Init
<1>2. Types /\ Requested
  BY <1>1 DEF Types, Requested
<1>3. Cache!Held = {}
  BY <1>1 DEF Cache!Held
<1>4. Counted
  <2> SUFFICES ASSUME NEW u \in Urls PROVE TriesOf(r, tries[u], u \in Cache!Held, u)
    BY DEF Counted
  <2>1. tries[u] = 0 /\ u \notin Cache!Held
    BY <1>1, <1>3
  <2>2. 0 <= Cardinality(Pending(r, u))
    BY Finite
  <2> QED
    BY <2>1, <2>2 DEF TriesOf
<1> QED
  BY <1>2, <1>3, <1>4 DEF Inv, CacheJustified

LEMMA HeldSame == cache' = cache => Cache!Held' = Cache!Held
BY DEF Cache!Held

-----------------------------------------------------------------------------
(* find_code_page *)

LEMMA AcceptInv ==
    ASSUME Inv, NEW w \in Workers, NEW q \in Requests, Accept(w, q)
    PROVE  Inv'
<1> DEFINE x == RequestRec(q)
<1>1. /\ r[w] = Idle /\ r' = [r EXCEPT ![w] = x]
      /\ UNCHANGED <<cache, answer, exists, refused, tries>>
  BY DEF Accept, Set
<1>2. q.url \in Urls
  BY RequestAssumption DEF RequestType
<1>3. x \in Records /\ x.pc = "fixup" /\ RequestOK(x, refused)
  BY <1>2 DEF RequestRec, Records, RequestOK, Fresh, Honest, Missing, UnderWay
<1>4. \A u : ~MayMiss(x, u) /\ ~HasMissed(r[w], u)
  BY <1>1, <1>3, IdleAsksNothing DEF MayMiss
<1>5. cache' \in Seq(Urls) /\ Cache!Held' = Cache!Held
  BY <1>1, HeldSame DEF Inv, Types
<1> QED
  <2> HIDE DEF x
  <2> QED
    BY <1>1, <1>3, <1>4, <1>5, OwnStep

\* A request that is answered by somebody else is not under way.
Elsewhere(x) == x.pc = "answer" /\ x.status # 404

LEMMA ElsewhereInv ==
    ASSUME Inv, NEW w \in Workers, Api(w) \/ Decline(w) \/ OtherDomain(w)
    PROVE  Inv'
<1>1. /\ r[w].pc = "fixup" /\ UNCHANGED <<cache, answer, exists, refused, tries>>
  BY DEF Api, Decline, OtherDomain, At, Local
<1>2. r[w] \in Records /\ RequestOK(r[w], refused)
  BY <1>1, Busy
<1>3. PICK x \in Records : r' = [r EXCEPT ![w] = x] /\ Elsewhere(x)
  <2>1. ASSUME NEW h \in {"fjtapi", "other"}, Set(w, HandedOver(r[w], h))
        PROVE  \E x \in Records : r' = [r EXCEPT ![w] = x] /\ Elsewhere(x)
    <3>1. PICK x : x = HandedOver(r[w], h)
      OBVIOUS
    <3>2. x \in Records /\ x.pc = "answer" /\ x.status = r[w].status
      BY <1>2, <3>1, HandedOverFields
    <3>3. x \in Records /\ Elsewhere(x)
      BY <1>1, <1>2, <3>2 DEF RequestOK, Fresh, Elsewhere
    <3> QED
      BY <2>1, <3>1, <3>3 DEF Set
  <2>2. CASE Api(w) \/ Decline(w)
    BY <2>1, <2>2 DEF Api, Decline, HandedOver
  <2>3. ASSUME NEW s \in {302, 506}, Set(w, TurnedAway(r[w], s))
        PROVE  \E x \in Records : r' = [r EXCEPT ![w] = x] /\ Elsewhere(x)
    <3>1. PICK x : x = TurnedAway(r[w], s)
      OBVIOUS
    <3>2. x \in Records /\ x.pc = "answer" /\ x.status = s
      BY <1>2, <3>1, TurnedAwayFields
    <3>3. x \in Records /\ Elsewhere(x)
      BY <3>2 DEF Elsewhere
    <3> QED
      BY <2>3, <3>1, <3>3 DEF Set
  <2>4. CASE OtherDomain(w)
    <3>1. PICK s \in {302, 506} : Set(w, TurnedAway(r[w], s))
      BY <2>4 DEF OtherDomain, TurnedAway
    <3> QED
      BY <2>3, <3>1
  <2> QED
    BY <2>2, <2>4
<1>4. RequestOK(x, refused) /\ \A u : ~MayMiss(x, u) /\ ~HasMissed(r[w], u)
  BY <1>1, <1>3 DEF Elsewhere, RequestOK, Fresh, Honest, Missing, UnderWay, MayMiss, HasMissed
<1>5. cache' \in Seq(Urls) /\ Cache!Held' = Cache!Held
  BY <1>1, HeldSame DEF Inv, Types
<1> QED
  BY <1>1, <1>3, <1>4, <1>5, OwnStep

\* What a request is before its URL is looked up.
LEMMA LookingFor ==
    ASSUME Inv, NEW w \in Workers, Looking(w)
    PROVE  /\ r[w] \in Records /\ r[w].pc = "fixup" /\ r[w].req.domain = "allowed"
           /\ r[w].filename = r[w].req.url /\ r[w].filename \in Urls
           /\ r[w].status = 200 /\ r[w].handler # "fjt"
           /\ r[w].req.OLDURL \in Urls \cup {NULL}
           /\ r[w].req.OLDURL # NULL => r[w].req.OLDURL.name # r[w].req.url.name
           /\ \A u : ~HasMissed(r[w], u)
<1>1. r[w].pc = "fixup" /\ r[w].req.domain = "allowed"
  BY DEF Looking, At
<1>2. r[w] \in Records /\ RequestOK(r[w], refused) /\ r[w].req \in RequestType
  BY <1>1, Busy
<1> QED
  BY <1>1, <1>2, Busy DEF RequestOK, Fresh, RequestType, HasMissed

LEMMA LookupNoneInv ==
    ASSUME Inv, NEW w \in Workers, LookupNone(w)
    PROVE  Inv'
<1>0. PICK x : x = LookedUp(r[w], r[w].filename)
  OBVIOUS
<1>1. /\ Looking(w) /\ r[w].req.OLDURL = NULL /\ r' = [r EXCEPT ![w] = x]
      /\ UNCHANGED <<cache, answer, exists, refused, tries>>
  BY <1>0 DEF LookupNone, Set, LookedUp, Local
<1>2. x \in Records /\ x.req = r[w].req /\ RequestOK(x, refused)
  <2>1. r[w] \in Records /\ r[w].filename \in Urls
    BY <1>1, LookingFor
  <2>2. /\ x \in Records /\ x.req = r[w].req /\ x.pc = "base" /\ x.handler = r[w].handler
        /\ x.filename = r[w].filename /\ x.ORIG_URL = r[w].filename
    BY <1>0, <2>1, LookedUpFields
  <2>3. RequestOK(x, refused)
    BY <1>1, <2>2, LookingFor DEF RequestOK, Fresh, Honest, Missing
  <2> QED
    BY <2>2, <2>3
<1>3. \A u : ~MayMiss(x, u) /\ ~HasMissed(r[w], u)
  BY <1>1, <1>2, LookingFor DEF MayMiss
<1>4. cache' \in Seq(Urls) /\ Cache!Held' = Cache!Held
  BY <1>1, HeldSame DEF Inv, Types
<1> QED
  BY <1>1, <1>2, <1>3, <1>4, OwnStep

LEMMA LookupMissInv ==
    ASSUME Inv, NEW w \in Workers, LookupMiss(w)
    PROVE  Inv'
<1>0. PICK x : x = LookedUp(r[w], r[w].filename)
  OBVIOUS
<1>1. /\ Looking(w) /\ r' = [r EXCEPT ![w] = x] /\ Cache!LookupMiss(r[w].filename)
      /\ UNCHANGED <<exists, refused, tries>>
  BY <1>0 DEF LookupMiss, Set, LookedUp
<1>2. x \in Records /\ x.ORIG_URL = r[w].filename /\ RequestOK(x, refused)
  <2>1. r[w] \in Records /\ r[w].filename \in Urls
    BY <1>1, LookingFor
  <2>2. /\ x \in Records /\ x.req = r[w].req /\ x.pc = "base" /\ x.handler = r[w].handler
        /\ x.filename = r[w].filename /\ x.ORIG_URL = r[w].filename
    BY <1>0, <2>1, LookedUpFields
  <2>3. RequestOK(x, refused)
    BY <1>1, <2>2, LookingFor DEF RequestOK, Fresh, Honest, Missing
  <2> QED
    BY <2>2, <2>3
<1>3. r[w].filename \notin Cache!Held
  BY <1>1 DEF Cache!LookupMiss
<1>4. \A u \in Urls : u \in Cache!Held => ~MayMiss(x, u)
  BY <1>2, <1>3 DEF MayMiss
<1>5. cache' \in Seq(Urls) /\ Cache!Held' = Cache!Held
  BY <1>1, LookupHeld DEF Inv, Types
<1>6. \A u : ~HasMissed(r[w], u)
  BY <1>1, LookingFor
<1> QED
  BY <1>1, <1>2, <1>4, <1>5, <1>6, OwnStep

LEMMA LookupHitInv ==
    ASSUME Inv, NEW w \in Workers, LookupHit(w)
    PROVE  Inv'
<1>0. PICK x : x = Replaced(r[w], r[w].filename, r[w].req.OLDURL)
  OBVIOUS
<1>1. /\ Looking(w) /\ r' = [r EXCEPT ![w] = x] /\ Cache!LookupHit(r[w].filename)
      /\ r[w].req.OLDURL # NULL /\ UNCHANGED <<exists, refused, tries>>
  BY <1>0 DEF LookupHit, Set, Replaced
<1>2. cache' \in Seq(Urls) /\ Cache!Held' = Cache!Held /\ r[w].filename \in Cache!Held
  BY <1>1, LookupHeld DEF Inv, Types
<1>3. r[w].req.url \in refused
  BY <1>1, <1>2, LookingFor DEF Inv, CacheJustified
<1>4. /\ x \in Records /\ x.ORIG_URL = r[w].req.url /\ x.filename = r[w].req.OLDURL
      /\ RequestOK(x, refused)
  <2>1. r[w] \in Records /\ r[w].filename \in Urls /\ r[w].req.OLDURL \in Urls
    BY <1>1, LookingFor
  <2>2. /\ x \in Records /\ x.req = r[w].req /\ x.pc = "base" /\ x.handler = r[w].handler
        /\ x.filename = r[w].req.OLDURL /\ x.ORIG_URL = r[w].filename
    BY <1>0, <2>1, ReplacedFields
  <2>3. RequestOK(x, refused)
    BY <1>1, <1>3, <2>1, <2>2, LookingFor DEF RequestOK, Fresh, Honest, Missing
  <2> QED
    BY <1>1, <2>2, <2>3, LookingFor
<1>5. \A u : ~MayMiss(x, u) /\ ~HasMissed(r[w], u)
  BY <1>1, <1>4, LookingFor DEF MayMiss
<1> QED
  BY <1>1, <1>2, <1>4, <1>5, OwnStep

\* Whatever form the URL is fetched in, its name is the same.
LEMMA FetchInv ==
    ASSUME Inv, NEW w \in Workers,
           FetchDecoded(w) \/ FetchAsItIs(w) \/ FetchConverted(w) \/ FetchSameEncode(w)
    PROVE  Inv'
<1>1. r[w].pc = "base" /\ UNCHANGED <<cache, answer, exists, refused, tries>>
  BY DEF FetchDecoded, FetchAsItIs, FetchConverted, FetchSameEncode, At, Local
<1>2. r[w] \in Records /\ RequestOK(r[w], refused) /\ r[w].req \in RequestType
  BY <1>1, Busy
<1>3. r[w].filename \in Urls
  BY <1>1, <1>2 DEF RequestOK, Honest, UnderWay
<1>4. ASSUME NEW form \in Forms
      PROVE  /\ [r[w].filename EXCEPT !.form = form] \in Urls
             /\ [r[w].filename EXCEPT !.form = form].name = r[w].filename.name
  BY <1>3 DEF Urls
<1>5. PICK x \in Records :
         /\ r' = [r EXCEPT ![w] = x] /\ x.pc = "fetch" /\ x.req = r[w].req
         /\ x.handler = r[w].handler /\ x.ORIG_URL = r[w].ORIG_URL
         /\ x.filename \in Urls /\ x.filename.name = r[w].filename.name
  <2>1. ASSUME NEW u \in Urls, u.name = r[w].filename.name, FetchWithBase(w, u)
        PROVE  \E x \in Records :
                 /\ r' = [r EXCEPT ![w] = x] /\ x.pc = "fetch" /\ x.req = r[w].req
                 /\ x.handler = r[w].handler /\ x.ORIG_URL = r[w].ORIG_URL
                 /\ x.filename \in Urls /\ x.filename.name = r[w].filename.name
    <3>1. PICK base : base = IF r[w].req.baseurl = "unset" THEN u ELSE r[w].req.baseurl
      OBVIOUS
    <3>2. base \in Urls \cup {NULL, "conf", "env"}
      BY <1>2, <3>1 DEF RequestType
    <3>3. PICK x : x = Asked(r[w], u, base)
      OBVIOUS
    <3>4. r' = [r EXCEPT ![w] = x]
      BY <2>1, <3>1, <3>3 DEF FetchWithBase, Set, Asked
    <3>5. /\ x \in Records /\ x.pc = "fetch" /\ x.req = r[w].req
          /\ x.handler = r[w].handler /\ x.ORIG_URL = r[w].ORIG_URL /\ x.filename = u
      BY <1>2, <3>2, <3>3, AskedFields
    <3> QED
      BY <2>1, <3>4, <3>5
  <2>2. CASE FetchDecoded(w)
    <3>1. PICK form \in {"plain", "ifbase"} : FetchWithBase(w, [r[w].filename EXCEPT !.form = form])
      BY <2>2 DEF FetchDecoded
    <3>2. form \in Forms
      BY DEF Forms
    <3> QED
      BY <1>4, <2>1, <3>1, <3>2
  <2>3. CASE FetchAsItIs(w)
    BY <1>3, <2>1, <2>3 DEF FetchAsItIs
  <2>4. CASE FetchConverted(w)
    <3>1. "converted" \in Forms
      BY DEF Forms
    <3> QED
      BY <1>4, <2>1, <2>4, <3>1 DEF FetchConverted
  <2>5. CASE FetchSameEncode(w)
    <3>1. PICK x : x = AskedAsItIs(r[w])
      OBVIOUS
    <3>2. /\ x \in Records /\ x.pc = "fetch" /\ x.req = r[w].req
          /\ x.handler = r[w].handler /\ x.ORIG_URL = r[w].ORIG_URL /\ x.filename = r[w].filename
      BY <1>2, <3>1, AskedAsItIsFields
    <3>3. r' = [r EXCEPT ![w] = x]
      BY <2>5, <3>1 DEF FetchSameEncode, Set, AskedAsItIs
    <3> QED
      BY <1>3, <3>2, <3>3
  <2> QED
    BY <2>2, <2>3, <2>4, <2>5
<1>6. RequestOK(x, refused)
  BY <1>1, <1>2, <1>5 DEF RequestOK, Fresh, Honest, Missing, UnderWay
<1>7. \A u : (MayMiss(x, u) => MayMiss(r[w], u)) /\ ~HasMissed(r[w], u)
  BY <1>1, <1>5 DEF MayMiss, HasMissed
<1>8. cache' \in Seq(Urls) /\ Cache!Held' = Cache!Held
  BY <1>1, HeldSame DEF Inv, Types
<1> QED
  BY <1>1, <1>5, <1>6, <1>7, <1>8, OwnStep

-----------------------------------------------------------------------------
(* The origin server, and fjt_out_filter *)

LEMMA OriginAnswersInv ==
    ASSUME Inv, NEW w \in Workers, OriginAnswers(w)
    PROVE  Inv'
<1>1. r[w].pc = "fetch" /\ UNCHANGED <<cache, answer, exists>>
  BY DEF OriginAnswers, At
<1>2. r[w] \in Records /\ RequestOK(r[w], refused) /\ r[w].req \in RequestType
  BY <1>1, Busy
<1>3. /\ r[w].req.domain = "allowed" /\ r[w].handler # "fjt"
      /\ r[w].ORIG_URL = r[w].req.url /\ r[w].filename \in Urls /\ r[w].ORIG_URL \in Urls
      /\ \/ r[w].filename.name = r[w].req.url.name
         \/ /\ r[w].req.OLDURL # NULL /\ r[w].filename.name = r[w].req.OLDURL.name
            /\ r[w].req.url \in refused
  BY <1>1, <1>2 DEF RequestOK, Honest, UnderWay, RequestType
<1> DEFINE found == r[w].filename.name \in exists
           missed == ~found /\ Own(w) /\ r[w].req.OLDURL # NULL
           u == r[w].ORIG_URL
           s == IF found THEN 200 ELSE 404
<1>4. /\ r' = [r EXCEPT ![w] = Answered(r[w], s)]
      /\ refused' = IF missed THEN refused \cup {u} ELSE refused
      /\ tries' = IF missed THEN [tries EXCEPT ![u] = tries[u] + 1] ELSE tries
  BY DEF OriginAnswers, Answered, Set
<1>5. s \in {200, 404} /\ (missed <=> s = 404 /\ Own(w) /\ r[w].req.OLDURL # NULL)
  OBVIOUS
<1> HIDE DEF found, missed, s
<1>6. PICK x : x = Answered(r[w], s)
  OBVIOUS
<1>7. /\ x \in Records /\ x.pc = "answer" /\ x.req = r[w].req /\ x.status = s
      /\ x.handler = r[w].handler /\ x.filename = r[w].filename /\ x.ORIG_URL = r[w].ORIG_URL
      /\ r' = [r EXCEPT ![w] = x]
  BY <1>2, <1>4, <1>5, <1>6, AnsweredFields
<1>8. cache' \in Seq(Urls) /\ Cache!Held' = Cache!Held
  BY <1>1, HeldSame DEF Inv, Types
<1>9. CASE ~missed
  <2>1. UNCHANGED <<refused, tries>>
    BY <1>4, <1>9
  <2>2. x.status = 404 /\ x.req.OLDURL # NULL => x.req.url \in refused
    BY <1>3, <1>5, <1>7, <1>9 DEF Own
  <2>3. RequestOK(x, refused)
    BY <1>3, <1>7, <2>2 DEF RequestOK, Fresh, Honest, Missing
  <2>4. \A v : ~MayMiss(x, v) /\ ~HasMissed(r[w], v)
    BY <1>1, <1>7 DEF MayMiss, HasMissed
  <2> QED
    BY <1>1, <1>7, <1>8, <2>1, <2>3, <2>4, OwnStep
<1>10. CASE missed
  <2>1. /\ x.status = 404 /\ u = r[w].req.url /\ r[w].req.OLDURL # NULL
        /\ r[w].filename.name = u.name
        /\ refused' = refused \cup {u} /\ tries' = [tries EXCEPT ![u] = tries[u] + 1]
    BY <1>3, <1>4, <1>5, <1>7, <1>10 DEF Own
  <2>2. RequestOK(x, refused')
    BY <1>3, <1>7, <2>1 DEF RequestOK, Fresh, Honest, Missing
  <2>3. Types'
    <3>1. tries \in [Urls -> Nat] /\ refused \subseteq Urls /\ u \in Urls
      BY <1>3 DEF Inv, Types
    <3>2. tries[u] + 1 \in Nat
      BY <3>1
    <3>3. tries' \in [Urls -> Nat] /\ refused' \subseteq Urls
      BY <2>1, <3>1, <3>2
    <3> QED
      BY <1>1, <1>7, <1>8, <3>3 DEF Inv, Types
  <2>4. Requested'
    <3> SUFFICES ASSUME NEW v \in Workers, r'[v] # Idle PROVE RequestOK(r'[v], refused')
      BY DEF Requested
    <3>1. CASE v = w
      BY <1>7, <2>2, <3>1 DEF Inv, Types
    <3>2. CASE v # w
      <4>1. r'[v] = r[v] /\ RequestOK(r[v], refused) /\ refused \subseteq refused'
        BY <1>7, <2>1, <3>2 DEF Inv, Types, Requested
      <4> QED
        BY <4>1, MoreKnown
    <3> QED
      BY <3>1, <3>2
  <2>5. CacheJustified'
    BY <1>8, <2>1 DEF Inv, CacheJustified
  <2>6. Counted'
    <3> SUFFICES ASSUME NEW v \in Urls PROVE TriesOf(r', tries'[v], v \in Cache!Held, v)
      BY <1>8 DEF Counted
    <3>1. /\ r \in [Workers -> Records \cup {Idle}] /\ tries[v] \in Nat
          /\ TriesOf(r, tries[v], v \in Cache!Held, v) /\ tries \in [Urls -> Nat]
      BY DEF Inv, Types, Counted
    <3> DEFINE held == v \in Cache!Held
    <3>2. TriesOf(r, tries[v], held, v)
      BY <3>1
    <3> HIDE DEF held
    <3>3. CASE v = u
      <4>1. MayMiss(r[w], v) /\ HasMissed(x, v)
        BY <1>1, <1>3, <1>4, <1>7, <2>1, <3>3 DEF MayMiss, HasMissed
      <4>2. TriesOf([r EXCEPT ![w] = x], tries[v] + 1, held, v)
        BY <3>1, <3>2, <4>1, OneMoreTry
      <4>3. tries'[v] = tries[v] + 1
        BY <2>1, <3>1, <3>3
      <4> QED
        BY <1>7, <4>2, <4>3 DEF held
    <3>4. CASE v # u
      <4>1. ~MayMiss(x, v) /\ ~HasMissed(r[w], v)
        BY <1>1, <1>7 DEF MayMiss, HasMissed
      <4>2. TriesOf([r EXCEPT ![w] = x], tries[v], held, v)
        BY <3>1, <3>2, <4>1, SameTries
      <4>3. tries'[v] = tries[v]
        BY <2>1, <3>1, <3>4
      <4> QED
        BY <1>7, <4>2, <4>3 DEF held
    <3> QED
      BY <3>3, <3>4
  <2> QED
    BY <2>3, <2>4, <2>5, <2>6 DEF Inv
<1> QED
  BY <1>9, <1>10

LEMMA FallbackInv ==
    ASSUME Inv, NEW w \in Workers, Fallback(w)
    PROVE  Inv'
<1>1. /\ r[w].pc = "answer" /\ r[w].handler # "fjt" /\ r[w].status = 404 /\ r[w].req.OLDURL # NULL
      /\ r' = [r EXCEPT ![w] = Idle] /\ UNCHANGED <<exists, refused>>
  BY DEF Fallback, NotThere, At, Set
<1>2. r[w] \in Records /\ RequestOK(r[w], refused) /\ r[w].req \in RequestType
  BY <1>1, Busy
<1>3. PICK u \in Urls : u = r[w].ORIG_URL /\ u \in refused
  BY <1>1, <1>2 DEF RequestOK, Honest, Missing, UnderWay, RequestType
<1>4. Cache!AddKnown(u) \/ Cache!AddNew(u)
  BY <1>3 DEF Fallback
<1>5. /\ cache' \in Seq(Urls) /\ u \in Cache!Held'
      /\ Cache!Held' \subseteq Cache!Held \cup {u}
  BY <1>4, AddHeld DEF Inv, Types
<1>6. tries' = [v \in Urls |-> IF v \in Cache!Held /\ v \notin Cache!Held' THEN 0 ELSE tries[v]]
  BY DEF Fallback
<1>7. Types'
  BY <1>1, <1>5, <1>6 DEF Inv, Types
<1>8. Requested'
  BY <1>1 DEF Inv, Types, Requested
<1>9. CacheJustified'
  BY <1>1, <1>3, <1>5 DEF Inv, CacheJustified
<1>10. Counted'
  <2> SUFFICES ASSUME NEW v \in Urls PROVE TriesOf(r', tries'[v], v \in Cache!Held', v)
    BY DEF Counted
  <2>1. /\ r \in [Workers -> Records \cup {Idle}] /\ tries[v] \in Nat
        /\ TriesOf(r, tries[v], v \in Cache!Held, v)
    BY DEF Inv, Types, Counted
  <2> DEFINE before == v \in Cache!Held
             after == v \in Cache!Held'
  <2>2. TriesOf(r, tries[v], before, v) /\ (before <=> v \in Cache!Held) /\ (after <=> v \in Cache!Held')
    BY <2>1
  <2>3. tries'[v] = IF before /\ ~after THEN 0 ELSE tries[v]
    BY <1>6
  <2> SUFFICES TriesOf(r', tries'[v], after, v)
    OBVIOUS
  <2> HIDE DEF before, after
  <2>4. ~MayMiss(Idle, v) /\ ~HasMissed(Idle, v)
    BY IdleAsksNothing
  <2>5. CASE after
    <3>1. TriesOf(r, tries[v], TRUE, v)
      BY <2>1, <2>2, TriesWhenAdded
    <3>2. TriesOf([r EXCEPT ![w] = Idle], tries[v], TRUE, v)
      BY <2>1, <2>4, <3>1, SameTries
    <3> QED
      BY <1>1, <2>2, <2>3, <2>5, <3>2
  <2>6. CASE before /\ ~after
    <3>1. TriesOf(r', 0, FALSE, v)
      BY NoTries
    <3> QED
      BY <2>3, <2>6, <3>1 DEF TriesOf
  <2>7. CASE ~before /\ ~after
    <3>1. v # u
      BY <1>5, <2>2, <2>7
    <3>2. ~HasMissed(r[w], v)
      BY <1>3, <3>1 DEF HasMissed
    <3>3. TriesOf(r, tries[v], FALSE, v)
      BY <2>1, <2>2, <2>7 DEF TriesOf
    <3>4. TriesOf([r EXCEPT ![w] = Idle], tries[v], FALSE, v)
      BY <2>1, <2>4, <3>2, <3>3, SameTries
    <3> QED
      BY <1>1, <2>3, <2>7, <3>4 DEF TriesOf
  <2> QED
    BY <2>5, <2>6, <2>7
<1> QED
  BY <1>7, <1>8, <1>9, <1>10 DEF Inv

\* What has been missed is not forgotten: only Fallback ends such a request.
LEMMA AnswerInv ==
    ASSUME Inv, NEW w \in Workers, Answer(w)
    PROVE  Inv'
<1>1. /\ r[w].pc = "answer" /\ ~NotThere(w) /\ r' = [r EXCEPT ![w] = Idle]
      /\ UNCHANGED <<cache, answer, exists, refused, tries>>
  BY DEF Answer, At, Set, Local
<1>2. \A u : ~MayMiss(Idle, u) /\ ~HasMissed(r[w], u)
  BY <1>1, IdleAsksNothing DEF NotThere, At, HasMissed
<1>3. cache' \in Seq(Urls) /\ Cache!Held' = Cache!Held
  BY <1>1, HeldSame DEF Inv, Types
<1> QED
  BY <1>1, <1>2, <1>3, OwnStep

LEMMA StillInv ==
    ASSUME Inv, OriginChanges \/ UNCHANGED vars
    PROVE  Inv'
<1>1. UNCHANGED <<cache, r, refused, tries>> /\ exists' \subseteq Names
  BY DEF OriginChanges, vars, Inv, Types
<1>2. Cache!Held' = Cache!Held
  BY <1>1, HeldSame
<1> QED
  BY <1>1, <1>2 DEF Inv, Types, Requested, CacheJustified, Counted

LEMMA InvStep == Inv /\ [Next]_vars => Inv'
<1> SUFFICES ASSUME Inv, [Next]_vars PROVE Inv'
  OBVIOUS
<1>1. ASSUME NEW w \in Workers, NEW q \in Requests, Accept(w, q) PROVE Inv'
  BY <1>1, AcceptInv
<1>2. ASSUME NEW w \in Workers, find_code_page(w) PROVE Inv'
  BY <1>2, ElsewhereInv, LookupNoneInv, LookupMissInv, LookupHitInv, FetchInv DEF find_code_page
<1>3. ASSUME NEW w \in Workers, OriginAnswers(w) \/ Fallback(w) \/ Answer(w) PROVE Inv'
  BY <1>3, OriginAnswersInv, FallbackInv, AnswerInv
<1> QED
  BY <1>1, <1>2, <1>3, StillInv DEF Next

LEMMA InvAlways == Spec => []Inv
BY InvInit, InvStep, PTL DEF Spec

-----------------------------------------------------------------------------
\* Every variable keeps its type, and a request that is fetched has a URL.
THEOREM Typed == Spec => []TypeOK
<1>1. Inv => TypeOK
  <2> SUFFICES ASSUME Inv, NEW w \in Workers, r[w] # Idle
               PROVE  /\ r[w].req \in Requests /\ r[w].status \in {200, 302, 404, 506}
                      /\ r[w].pc \in {"fixup", "base", "fetch", "answer"}
                      /\ r[w].pc \in {"base", "fetch"} => {r[w].filename, r[w].ORIG_URL} \subseteq Urls
    BY DEF Inv, Types, TypeOK
  <2>1. r[w] \in Records /\ RequestOK(r[w], refused)
    BY DEF Inv, Types, Requested
  <2>2. r[w].req \in RequestType /\ r[w].req.url \in Urls
    BY <2>1, FieldTypes, RequestAssumption DEF RequestType
  <2> QED
    BY <2>1, <2>2, FieldTypes DEF RequestOK, Honest, UnderWay
<1> QED
  BY InvAlways, <1>1, PTL

\* find_code_page has the origin server asked for the URL requested, or for its
\* OLDURL and then only if the origin server was once found not to have the first.
THEOREM FetchesAreJustified == Spec => []FetchJustified
<1>1. Inv => FetchJustified
  <2> SUFFICES ASSUME Inv, NEW w \in Workers, r[w].pc = "fetch"
               PROVE  /\ r[w].req.domain = "allowed"
                      /\ \/ r[w].filename.name = r[w].req.url.name
                         \/ /\ r[w].req.OLDURL # NULL /\ r[w].filename.name = r[w].req.OLDURL.name
                            /\ r[w].req.url \in refused
    BY DEF FetchJustified, At
  <2> QED
    BY Busy DEF RequestOK, Honest, UnderWay
<1> QED
  BY InvAlways, <1>1, PTL

\* Between two prunings of a URL no worker asks the origin server for it twice
\* in vain, however the look-ups, the answers and the prunings of the others fall.
THEOREM MissesAreBounded == Spec => []MissesBounded
<1>1. Inv => MissesBounded
  <2> SUFFICES ASSUME Inv, NEW u \in Urls PROVE tries[u] <= Cardinality(Workers)
    BY DEF MissesBounded
  <2>1. tries[u] \in Nat /\ TriesOf(r, tries[u], u \in Cache!Held, u)
    BY DEF Inv, Types, Counted
  <2>2. TriesOf(r, tries[u], TRUE, u)
    BY <2>1, TriesWhenAdded
  <2> QED
    BY <2>1, <2>2, Finite DEF TriesOf
<1> QED
  BY InvAlways, <1>1, PTL

-----------------------------------------------------------------------------
(* Reading from the front *)

\* f[i] is what is read from place i on: nothing at a place in `halt', and else
\* one element, head[i], and what is read from next[i] on.
IsReading(f, hi, halt, head, next) ==
    f = [i \in 1 .. hi |-> IF i \in halt THEN <<>> ELSE <<head[i]>> \o f[next[i]]]

\* A reading goes forward, and what it reads is in S.
Forward(hi, halt, head, next, S) ==
    \A i \in 1 .. hi : i \notin halt => head[i] \in S /\ next[i] \in i + 1 .. hi

LEMMA ReadingExists ==
    ASSUME NEW hi \in Nat, NEW halt, NEW head, NEW next, NEW S, Forward(hi, halt, head, next, S)
    PROVE  \E f : IsReading(f, hi, halt, head, next)
<1> DEFINE V == Seq(S)
           base == [i \in 1 .. hi |-> <<>>]
           G == [iv \in (1 .. hi) \X V |-> IF iv[1] \in halt THEN <<>> ELSE <<head[iv[1]]>> \o iv[2]]
<1>1. \A i \in 1 .. hi : base[i] = <<>>
    OBVIOUS
<1>2. \A i \in 1 .. hi, v \in V : G[<<i, v>>] = IF i \in halt THEN <<>> ELSE <<head[i]>> \o v
    OBVIOUS
<1>3. \A i \in 1 .. hi, v \in V : G[<<i, v>>] \in V
    <2>1. ASSUME NEW i \in 1 .. hi, NEW v \in V PROVE G[<<i, v>>] \in V
        <3> HIDE DEF G
        <3>1. CASE i \in halt
            <4>1. <<>> \in V
                OBVIOUS
            <4>2. G[<<i, v>>] = <<>>
                BY <1>2, <3>1
            <4>3. QED BY <4>1, <4>2
        <3>2. CASE i \notin halt
            <4>1. <<head[i]>> \in Seq(S)
                BY <3>2 DEF Forward
            <4>2. <<head[i]>> \o v \in V
                BY <4>1
            <4>3. G[<<i, v>>] = <<head[i]>> \o v
                BY <1>2, <3>2
            <4>4. QED BY <4>2, <4>3
        <3>3. QED BY <3>1, <3>2
    <2> HIDE DEF G, V
    <2>2. QED BY <2>1
<1>4. \A i \in 1 .. hi : i \in halt => base[i] \in V
    OBVIOUS
<1>5. \A i \in 1 .. hi : i \notin halt => next[i] \in i + 1 .. hi
    BY DEF Forward
<1> HIDE DEF V, base, G
<1>6. PICK f \in [1 .. hi -> V] : Climbs(f, 1, hi, halt, base, next, G)
    <2>1. 1 \in Int /\ hi \in Int
        OBVIOUS
    <2>2. QED BY <1>3, <1>4, <1>5, <2>1, ClimbExists
<1>7. ASSUME NEW i \in 1 .. hi
      PROVE  f[i] = IF i \in halt THEN <<>> ELSE <<head[i]>> \o f[next[i]]
    <2>1. f[i] = IF i \in halt THEN base[i] ELSE G[<<i, f[next[i]]>>]
        BY <1>6 DEF Climbs
    <2>2. CASE i \in halt
        BY <1>1, <2>1, <2>2
    <2>3. CASE i \notin halt
        <3>1. next[i] \in 1 .. hi
            BY <1>5, <2>3
        <3>2. f[next[i]] \in V
            BY <1>6, <3>1
        <3>3. G[<<i, f[next[i]]>>] = <<head[i]>> \o f[next[i]]
            BY <1>2, <2>3, <3>2
        <3>4. QED BY <2>1, <2>3, <3>3
    <2>4. QED BY <2>2, <2>3
<1>8. f = [i \in 1 .. hi |-> IF i \in halt THEN <<>> ELSE <<head[i]>> \o f[next[i]]]
    BY <1>6, <1>7
<1>9. QED BY <1>8 DEF IsReading

LEMMA ReadingStep ==
    ASSUME NEW hi, NEW halt, NEW head, NEW next, NEW f, IsReading(f, hi, halt, head, next),
           NEW i, i \in 1 .. hi
    PROVE  /\ i \in halt => f[i] = <<>>
           /\ i \notin halt => f[i] = Cons(head[i], f[next[i]])
BY DEF IsReading, Cons

LEMMA ReadingType ==
    ASSUME NEW hi \in Nat, NEW halt, NEW head, NEW next, NEW S, Forward(hi, halt, head, next, S),
           NEW f, IsReading(f, hi, halt, head, next), NEW i, i \in 1 .. hi
    PROVE  f[i] \in Seq(S)
<1> DEFINE T == {p \in 1 .. hi : f[p] \in Seq(S)}
<1>1. ASSUME NEW p \in 1 .. hi, \A q \in p + 1 .. hi : q \in T
      PROVE  p \in T
    <2>1. CASE p \in halt
        <3>1. f[p] = <<>>
            BY <2>1, ReadingStep
        <3>2. <<>> \in Seq(S)
            OBVIOUS
        <3>3. QED BY <3>1, <3>2
    <2>2. CASE p \notin halt
        <3>1. f[p] = Cons(head[p], f[next[p]])
            BY <2>2, ReadingStep
        <3>2. head[p] \in S /\ next[p] \in T
            BY <1>1, <2>2 DEF Forward
        <3>3. f[next[p]] \in Seq(S)
            BY <3>2
        <3>4. QED BY <3>1, <3>2, <3>3, ConsIs
    <2>3. QED BY <2>1, <2>2
<1> HIDE DEF T
<1>2. 1 \in Int /\ hi \in Int
    OBVIOUS
<1>3. 1 .. hi \subseteq T
    BY <1>1, <1>2, FromAbove
<1>4. QED BY <1>3 DEF T

\* Two readings that do the same, one k places behind the other, read the same.
Behind(k, hi, halt, head, next, halt2, head2, next2) ==
    \A i \in 1 .. hi :
        /\ i + k \in halt2 <=> i \in halt
        /\ i \notin halt => head2[i + k] = head[i] /\ next2[i + k] = next[i] + k

LEMMA ReadingShift ==
    ASSUME NEW hi \in Nat, NEW k \in Nat,
           NEW halt, NEW head, NEW next, NEW S, Forward(hi, halt, head, next, S),
           NEW f, IsReading(f, hi, halt, head, next),
           NEW halt2, NEW head2, NEW next2, NEW f2, IsReading(f2, hi + k, halt2, head2, next2),
           Behind(k, hi, halt, head, next, halt2, head2, next2), NEW i, i \in 1 .. hi
    PROVE  f2[i + k] = f[i]
<1> DEFINE T == {p \in 1 .. hi : f2[p + k] = f[p]}
<1>1. ASSUME NEW p \in 1 .. hi, \A q \in p + 1 .. hi : q \in T
      PROVE  p \in T
    <2>0. p + k \in 1 .. hi + k /\ (p + k \in halt2 <=> p \in halt)
        BY DEF Behind
    <2>1. CASE p \in halt
        <3>1. f[p] = <<>>
            BY <2>1, ReadingStep
        <3>2. f2[p + k] = <<>>
            BY <2>0, <2>1, ReadingStep
        <3>3. QED BY <3>1, <3>2
    <2>2. CASE p \notin halt
        <3>1. f[p] = Cons(head[p], f[next[p]])
            BY <2>2, ReadingStep
        <3>2. f2[p + k] = Cons(head2[p + k], f2[next2[p + k]])
            BY <2>0, <2>2, ReadingStep
        <3>3. head2[p + k] = head[p] /\ next2[p + k] = next[p] + k
            BY <2>2 DEF Behind
        <3>4. next[p] \in T
            BY <1>1, <2>2 DEF Forward
        <3>5. f2[next[p] + k] = f[next[p]]
            BY <3>4
        <3>6. QED BY <3>1, <3>2, <3>3, <3>5
    <2>3. QED BY <2>1, <2>2
<1> HIDE DEF T
<1>2. 1 \in Int /\ hi \in Int
    OBVIOUS
<1>3. 1 .. hi \subseteq T
    BY <1>1, <1>2, FromAbove
<1>4. QED BY <1>3 DEF T

-----------------------------------------------------------------------------
(* The "%" codes *)

Octets == {b \in Nat : b <= 255}

ByteAt(s, i) == IF i <= Len(s) THEN s[i] ELSE 0
CodeAt(s, i) == ByteAt(s, i) = Percent /\ ByteAt(s, i + 1) # LowerU
CodedByte(s, i) == HexValue(ByteAt(s, i + 1)) * 16 + HexValue(ByteAt(s, i + 2))

DecodeHalt(s) == {i \in 1 .. Len(s) + 3 : i > Len(s)}
DecodeHead(s) == [i \in 1 .. Len(s) + 3 |-> IF CodeAt(s, i) THEN CodedByte(s, i) ELSE ByteAt(s, i)]
DecodeNext(s) == [i \in 1 .. Len(s) + 3 |-> IF CodeAt(s, i) THEN i + 3 ELSE i + 1]

LEMMA ByteAtIs ==
    ASSUME NEW s, s \in Seq(Octets), NEW i, i \in Nat \ {0}
    PROVE  ByteAt(s, i) \in Octets
<1>1. CASE i <= Len(s)
    <2>1. i \in 1 .. Len(s)
        BY <1>1
    <2>2. s[i] \in Octets
        BY <2>1
    <2>3. QED BY <1>1, <2>2 DEF ByteAt
<1>2. CASE ~(i <= Len(s))
    BY <1>2 DEF ByteAt, Octets
<1>3. QED BY <1>1, <1>2

LEMMA HexValueIs ==
    ASSUME NEW b, b \in Octets
    PROVE  HexValue(b) \in 0 .. 15
BY DEF HexValue, Octets

LEMMA DecodeForward ==
    ASSUME NEW s, s \in Seq(Octets)
    PROVE  Forward(Len(s) + 3, DecodeHalt(s), DecodeHead(s), DecodeNext(s), Octets)
<1>1. Len(s) \in Nat
    OBVIOUS
<1>2. ASSUME NEW i \in 1 .. Len(s) + 3, i \notin DecodeHalt(s)
      PROVE  DecodeHead(s)[i] \in Octets /\ DecodeNext(s)[i] \in i + 1 .. Len(s) + 3
    <2>1. i <= Len(s)
        BY <1>1, <1>2 DEF DecodeHalt
    <2>2. i \in Nat \ {0} /\ i + 1 \in Nat \ {0} /\ i + 2 \in Nat \ {0}
        BY <1>1
    <2>3. ByteAt(s, i) \in Octets /\ ByteAt(s, i + 1) \in Octets /\ ByteAt(s, i + 2) \in Octets
        BY <2>2, ByteAtIs
    <2>4. CodedByte(s, i) \in Octets
        <3>1. HexValue(ByteAt(s, i + 1)) \in 0 .. 15 /\ HexValue(ByteAt(s, i + 2)) \in 0 .. 15
            BY <2>3, HexValueIs
        <3>2. \A a, b \in 0 .. 15 : a * 16 + b \in Octets
            BY DEF Octets
        <3>3. QED BY <3>1, <3>2 DEF CodedByte
    <2>5. DecodeHead(s)[i] \in Octets
        BY <2>3, <2>4 DEF DecodeHead
    <2>6. DecodeNext(s)[i] \in i + 1 .. Len(s) + 3
        BY <1>1, <2>1 DEF DecodeNext
    <2>7. QED BY <2>5, <2>6
<1>3. QED BY <1>2 DEF Forward

\* Decoded is such a reading.
LEMMA DecodedReads ==
    ASSUME NEW s, s \in Seq(Octets)
    PROVE  \E f : /\ IsReading(f, Len(s) + 3, DecodeHalt(s), DecodeHead(s), DecodeNext(s))
                  /\ Decoded(s) = f[1]
<1> DEFINE hi == Len(s) + 3
           IsDecoding(f) ==
               f = [i \in 1 .. hi |->
                       CASE i > Len(s) -> <<>>
                         [] ByteAt(s, i) = Percent /\ ByteAt(s, i + 1) # LowerU ->
                              <<HexValue(ByteAt(s, i + 1)) * 16 + HexValue(ByteAt(s, i + 2))>> \o f[i + 3]
                         [] OTHER -> <<ByteAt(s, i)>> \o f[i + 1]]
           F == CHOOSE f : IsDecoding(f)
<1>1. Len(s) \in Nat /\ hi \in Nat
    OBVIOUS
<1>2. ASSUME NEW f
      PROVE  [i \in 1 .. hi |->
                 IF i \in DecodeHalt(s) THEN <<>> ELSE <<DecodeHead(s)[i]>> \o f[DecodeNext(s)[i]]]
             = [i \in 1 .. hi |->
                   CASE i > Len(s) -> <<>>
                     [] ByteAt(s, i) = Percent /\ ByteAt(s, i + 1) # LowerU ->
                          <<HexValue(ByteAt(s, i + 1)) * 16 + HexValue(ByteAt(s, i + 2))>> \o f[i + 3]
                     [] OTHER -> <<ByteAt(s, i)>> \o f[i + 1]]
    <2>1. ASSUME NEW i \in 1 .. hi
          PROVE  (IF i \in DecodeHalt(s) THEN <<>> ELSE <<DecodeHead(s)[i]>> \o f[DecodeNext(s)[i]])
                 = CASE i > Len(s) -> <<>>
                     [] ByteAt(s, i) = Percent /\ ByteAt(s, i + 1) # LowerU ->
                          <<HexValue(ByteAt(s, i + 1)) * 16 + HexValue(ByteAt(s, i + 2))>> \o f[i + 3]
                     [] OTHER -> <<ByteAt(s, i)>> \o f[i + 1]
        <3>1. CASE i > Len(s)
            <4>1. i \in DecodeHalt(s)
                BY <3>1 DEF DecodeHalt
            <4>2. ByteAt(s, i) # Percent
                BY <1>1, <3>1 DEF ByteAt, Percent
            <4> HIDE DEF hi
            <4>3. QED BY <3>1, <4>1, <4>2
        <3>2. CASE ~(i > Len(s)) /\ CodeAt(s, i)
            <4>1. i \notin DecodeHalt(s) /\ DecodeHead(s)[i] = CodedByte(s, i) /\ DecodeNext(s)[i] = i + 3
                BY <3>2 DEF DecodeHalt, DecodeHead, DecodeNext
            <4> HIDE DEF hi
            <4>2. QED BY <3>2, <4>1 DEF CodeAt, CodedByte
        <3>3. CASE ~(i > Len(s)) /\ ~CodeAt(s, i)
            <4>1. i \notin DecodeHalt(s) /\ DecodeHead(s)[i] = ByteAt(s, i) /\ DecodeNext(s)[i] = i + 1
                BY <3>3 DEF DecodeHalt, DecodeHead, DecodeNext
            <4> HIDE DEF hi
            <4>2. QED BY <3>3, <4>1 DEF CodeAt
        <3>4. QED BY <3>1, <3>2, <3>3
    <2> HIDE DEF hi
    <2>2. QED BY <2>1, Zenon
<1>3. PICK f : IsReading(f, hi, DecodeHalt(s), DecodeHead(s), DecodeNext(s))
    <2>1. Forward(hi, DecodeHalt(s), DecodeHead(s), DecodeNext(s), Octets)
        BY DecodeForward
    <2> HIDE DEF hi
    <2>2. QED BY <1>1, <2>1, ReadingExists
<1>4. IsDecoding(f)
    BY <1>2, <1>3 DEF IsReading
<1>5. IsDecoding(F)
    <2> HIDE DEF IsDecoding
    <2>1. QED BY <1>4
<1>6. Decoded(s) = F[1]
    BY DEF Decoded, ByteAt
<1> HIDE DEF F
<1>7. IsReading(F, hi, DecodeHalt(s), DecodeHead(s), DecodeNext(s))
    BY <1>2, <1>5 DEF IsReading
<1>8. QED BY <1>6, <1>7

LEMMA DecodedType ==
    ASSUME NEW s, s \in Seq(Octets)
    PROVE  Decoded(s) \in Seq(Octets)
<1>1. PICK f : /\ IsReading(f, Len(s) + 3, DecodeHalt(s), DecodeHead(s), DecodeNext(s))
               /\ Decoded(s) = f[1]
    BY DecodedReads
<1>2. Len(s) + 3 \in Nat /\ 1 \in 1 .. Len(s) + 3
    OBVIOUS
<1>3. Forward(Len(s) + 3, DecodeHalt(s), DecodeHead(s), DecodeNext(s), Octets)
    BY DecodeForward
<1>4. f[1] \in Seq(Octets)
    <2> DEFINE hi == Len(s) + 3
    <2>1. /\ hi \in Nat /\ 1 \in 1 .. hi
          /\ Forward(hi, DecodeHalt(s), DecodeHead(s), DecodeNext(s), Octets)
          /\ IsReading(f, hi, DecodeHalt(s), DecodeHead(s), DecodeNext(s))
        BY <1>1, <1>2, <1>3
    <2> HIDE DEF hi
    <2>2. QED BY <2>1, ReadingType
<1>5. QED BY <1>1, <1>4

LEMMA DecodedNone ==
    Decoded(<<>>) = <<>>
<1>1. <<>> \in Seq(Octets) /\ Len(<<>>) = 0
    OBVIOUS
<1>2. PICK f : /\ IsReading(f, Len(<<>>) + 3, DecodeHalt(<<>>), DecodeHead(<<>>), DecodeNext(<<>>))
               /\ Decoded(<<>>) = f[1]
    BY <1>1, DecodedReads
<1>3. 1 \in DecodeHalt(<<>>) /\ 1 \in 1 .. Len(<<>>) + 3
    BY <1>1 DEF DecodeHalt
<1>4. f[1] = <<>>
    <2> DEFINE hi == Len(<<>>) + 3
    <2>1. IsReading(f, hi, DecodeHalt(<<>>), DecodeHead(<<>>), DecodeNext(<<>>)) /\ 1 \in 1 .. hi
        BY <1>2, <1>3
    <2> HIDE DEF hi
    <2>2. QED BY <1>3, <2>1, ReadingStep
<1>5. QED BY <1>2, <1>4

\* The bytes of p, read as one, do not change what follows them.
LEMMA DecodedFront ==
    ASSUME NEW p, NEW s, p \in Seq(Octets), s \in Seq(Octets), p # <<>>,
           DecodeNext(p \o s)[1] = Len(p) + 1
    PROVE  Decoded(p \o s) = Cons(DecodeHead(p \o s)[1], Decoded(s))
<1> DEFINE w == p \o s
           k == Len(p)
           hi == Len(s) + 3
           hi2 == Len(w) + 3
<1>1. /\ w \in Seq(Octets) /\ Len(w) = Len(s) + k /\ k \in Nat \ {0} /\ Len(s) \in Nat
      /\ \A i \in 1 .. Len(s) : w[i + k] = s[i]
    BY ConcatProperties
<1>2. hi \in Nat /\ hi2 = hi + k /\ 1 \in 1 .. hi /\ 1 \in 1 .. hi2 /\ k \in Nat
    BY <1>1
<1>3. \A i \in Nat \ {0} : ByteAt(w, i + k) = ByteAt(s, i)
    <2>1. ASSUME NEW i \in Nat \ {0} PROVE ByteAt(w, i + k) = ByteAt(s, i)
        <3>1. i + k <= Len(w) <=> i <= Len(s)
            BY <1>1
        <3>2. i <= Len(s) => w[i + k] = s[i]
            BY <1>1
        <3> HIDE DEF w, k
        <3>3. QED BY <3>1, <3>2 DEF ByteAt
    <2> HIDE DEF w, k
    <2>2. QED BY <2>1
<1> HIDE DEF w, k
<1>4. ASSUME NEW i \in 1 .. hi
      PROVE  /\ i + k \in DecodeHalt(w) <=> i \in DecodeHalt(s)
             /\ DecodeHead(w)[i + k] = DecodeHead(s)[i]
             /\ DecodeNext(w)[i + k] = DecodeNext(s)[i] + k
    <2>1. i \in Nat \ {0} /\ i + 1 \in Nat \ {0} /\ i + 2 \in Nat \ {0} /\ i + k \in 1 .. hi2
        BY <1>1, <1>2
    <2>2. (i + k) + 1 = (i + 1) + k /\ (i + k) + 2 = (i + 2) + k
        BY <1>1, <2>1
    <2>3. /\ ByteAt(w, i + k) = ByteAt(s, i)
          /\ ByteAt(w, (i + k) + 1) = ByteAt(s, i + 1)
          /\ ByteAt(w, (i + k) + 2) = ByteAt(s, i + 2)
        BY <1>3, <2>1, <2>2
    <2>4. (CodeAt(w, i + k) <=> CodeAt(s, i)) /\ CodedByte(w, i + k) = CodedByte(s, i)
        BY <2>3 DEF CodeAt, CodedByte
    <2>5. i + k \in DecodeHalt(w) <=> i \in DecodeHalt(s)
        BY <1>1, <2>1 DEF DecodeHalt
    <2>6. DecodeHead(w)[i + k] = DecodeHead(s)[i]
        BY <2>1, <2>3, <2>4 DEF DecodeHead
    <2>7. DecodeNext(w)[i + k] = DecodeNext(s)[i] + k
        <3>1. DecodeNext(w)[i + k] = IF CodeAt(w, i + k) THEN (i + k) + 3 ELSE (i + k) + 1
            BY <2>1 DEF DecodeNext
        <3>2. DecodeNext(s)[i] = IF CodeAt(s, i) THEN i + 3 ELSE i + 1
            BY DEF DecodeNext
        <3> HIDE DEF hi
        <3>3. QED BY <1>1, <2>1, <2>4, <3>1, <3>2
    <2>8. QED BY <2>5, <2>6, <2>7
<1>5. PICK f : IsReading(f, hi, DecodeHalt(s), DecodeHead(s), DecodeNext(s)) /\ Decoded(s) = f[1]
    BY DecodedReads
<1>6. PICK f2 : IsReading(f2, hi2, DecodeHalt(w), DecodeHead(w), DecodeNext(w)) /\ Decoded(w) = f2[1]
    BY <1>1, DecodedReads
<1>7. Forward(hi, DecodeHalt(s), DecodeHead(s), DecodeNext(s), Octets)
    BY DecodeForward
<1>8. 1 \notin DecodeHalt(w)
    BY <1>1 DEF DecodeHalt
<1> HIDE DEF hi, hi2
<1>9. f2[1 + k] = f[1]
    <2>1. IsReading(f2, hi + k, DecodeHalt(w), DecodeHead(w), DecodeNext(w))
        BY <1>2, <1>6
    <2>2. Behind(k, hi, DecodeHalt(s), DecodeHead(s), DecodeNext(s), DecodeHalt(w), DecodeHead(w), DecodeNext(w))
        BY <1>4 DEF Behind
    <2>3. f2[1 + k] = f[1]
        BY <1>2, <1>5, <1>7, <2>1, <2>2, ReadingShift
    <2>4. QED BY <2>3
<1>10. f2[1] = Cons(DecodeHead(w)[1], f2[DecodeNext(w)[1]])
    BY <1>2, <1>6, <1>8, ReadingStep
<1>11. DecodeNext(w)[1] = 1 + k
    BY <1>2 DEF w, k
<1>12. QED BY <1>5, <1>6, <1>9, <1>10, <1>11 DEF w

\* A byte that is no "%" stands for itself.
LEMMA DecodedRaw ==
    ASSUME NEW b, NEW s, b \in Octets, b # Percent, s \in Seq(Octets)
    PROVE  Decoded(<<b>> \o s) = Cons(b, Decoded(s))
<1> DEFINE p == <<b>>
           w == p \o s
<1>1. p \in Seq(Octets) /\ p # <<>> /\ Len(p) = 1
    OBVIOUS
<1>2. w \in Seq(Octets) /\ Len(w) \in Nat /\ Len(w) >= 1 /\ w[1] = b
    OBVIOUS
<1> HIDE DEF p, w
<1>3. ByteAt(w, 1) = b
    BY <1>2 DEF ByteAt
<1>4. ~CodeAt(w, 1)
    BY <1>3 DEF CodeAt
<1>5. DecodeHead(w)[1] = b /\ DecodeNext(w)[1] = 1 + 1
    BY <1>2, <1>3, <1>4 DEF DecodeHead, DecodeNext
<1>6. Decoded(w) = Cons(DecodeHead(w)[1], Decoded(s))
    BY <1>1, <1>5, DecodedFront DEF w
<1>7. QED BY <1>5, <1>6 DEF w, p

LEMMA HexDigitIs ==
    ASSUME NEW n, n \in 0 .. 15
    PROVE  HexDigit(n) \in Octets /\ HexDigit(n) # LowerU /\ HexValue(HexDigit(n)) = n
BY DEF HexDigit, HexValue, Octets, LowerU

LEMMA PercentCodeIs ==
    ASSUME NEW b, b \in Octets
    PROVE  /\ b \div 16 \in 0 .. 15 /\ b % 16 \in 0 .. 15 /\ (b \div 16) * 16 + (b % 16) = b
           /\ PercentCode(b) \in Seq(Octets) /\ Len(PercentCode(b)) = 3
           /\ PercentCode(b)[1] = Percent
           /\ PercentCode(b)[2] = HexDigit(b \div 16)
           /\ PercentCode(b)[3] = HexDigit(b % 16)
<1>1. b \div 16 \in 0 .. 15 /\ b % 16 \in 0 .. 15 /\ (b \div 16) * 16 + (b % 16) = b
    BY DEF Octets
<1>2. HexDigit(b \div 16) \in Octets /\ HexDigit(b % 16) \in Octets /\ Percent \in Octets
    BY <1>1, HexDigitIs DEF Percent, Octets
<1>3. QED BY <1>1, <1>2 DEF PercentCode

\* A byte written with "%" is read as what it was.
LEMMA DecodedCode ==
    ASSUME NEW b, NEW s, b \in Octets, s \in Seq(Octets)
    PROVE  Decoded(PercentCode(b) \o s) = Cons(b, Decoded(s))
<1> DEFINE p == PercentCode(b)
           w == p \o s
           h == b \div 16
           l == b % 16
<1>1. h \in 0 .. 15 /\ l \in 0 .. 15 /\ h * 16 + l = b
    BY PercentCodeIs
<1>2. p \in Seq(Octets) /\ Len(p) = 3 /\ p[1] = Percent /\ p[2] = HexDigit(h) /\ p[3] = HexDigit(l)
    BY PercentCodeIs
<1> HIDE DEF p, h, l
<1>3. p # <<>>
    BY <1>2
<1>4. w \in Seq(Octets) /\ Len(w) \in Nat /\ Len(w) >= 3 /\ w[1] = p[1] /\ w[2] = p[2] /\ w[3] = p[3]
    <2>1. w \in Seq(Octets) /\ Len(w) = Len(p) + Len(s) /\ \A i \in 1 .. Len(p) : w[i] = p[i]
        <3>1. ASSUME NEW q \in Seq(Octets)
              PROVE  /\ q \o s \in Seq(Octets) /\ Len(q \o s) = Len(q) + Len(s)
                     /\ \A i \in 1 .. Len(q) : (q \o s)[i] = q[i]
            BY ConcatProperties
        <3>2. QED BY <1>2, <3>1
    <2>2. Len(s) \in Nat /\ 1 \in 1 .. 3 /\ 2 \in 1 .. 3 /\ 3 \in 1 .. 3
        OBVIOUS
    <2> HIDE DEF w
    <2>3. QED BY <1>2, <2>1, <2>2
<1> HIDE DEF w
<1>5. ByteAt(w, 1) = Percent /\ ByteAt(w, 1 + 1) = HexDigit(h) /\ ByteAt(w, 1 + 2) = HexDigit(l)
    BY <1>2, <1>4 DEF ByteAt
<1>6. CodeAt(w, 1)
    BY <1>1, <1>5, HexDigitIs DEF CodeAt
<1>7. CodedByte(w, 1) = b
    <2>1. HexValue(HexDigit(h)) = h /\ HexValue(HexDigit(l)) = l
        BY <1>1, HexDigitIs
    <2>2. QED BY <1>1, <1>5, <2>1 DEF CodedByte
<1>8. DecodeHead(w)[1] = b /\ DecodeNext(w)[1] = 1 + 3
    BY <1>4, <1>6, <1>7 DEF DecodeHead, DecodeNext
<1>9. Decoded(w) = Cons(DecodeHead(w)[1], Decoded(s))
    <2>1. DecodeNext(w)[1] = Len(p) + 1
        BY <1>2, <1>8
    <2>2. QED BY <1>2, <1>3, <2>1, DecodedFront DEF w
<1>10. QED BY <1>8, <1>9 DEF w, p

-----------------------------------------------------------------------------
(* UTF-8 *)

SizeAt(s, i) == CASE s[i] < 128 -> 1 [] s[i] \div 32 = 6 -> 2 [] OTHER -> 3
PieceAt(s, i) == SubSeq(s, i, i + SizeAt(s, i) - 1)

UnitHalt(s) == {i \in 1 .. Len(s) + 1 : i > Len(s) \/ i + SizeAt(s, i) > Len(s) + 1}
UnitHead(s) == [i \in 1 .. Len(s) + 1 |-> Unit(PieceAt(s, i))]
UnitNext(s) == [i \in 1 .. Len(s) + 1 |-> i + SizeAt(s, i)]

LEMMA SizeAtIs ==
    ASSUME NEW s, s \in Seq(Octets), NEW i, i \in 1 .. Len(s)
    PROVE  /\ SizeAt(s, i) \in 1 .. 3
           /\ SizeAt(s, i) = IF s[i] < 128 THEN 1 ELSE IF s[i] \div 32 = 6 THEN 2 ELSE 3
<1>1. s[i] \in Octets
    OBVIOUS
<1>2. s[i] < 128 => s[i] \div 32 # 6
    BY <1>1 DEF Octets
<1>3. QED BY <1>2 DEF SizeAt

\* What the bits of bytes make up.
LEMMA BitsOf ==
    ASSUME NEW b, b \in Octets
    PROVE  b % 16 \in 0 .. 15 /\ b % 32 \in 0 .. 63 /\ b % 64 \in 0 .. 63
<1>1. ASSUME NEW a \in Octets PROVE a % 16 \in 0 .. 15 /\ a % 32 \in 0 .. 63 /\ a % 64 \in 0 .. 63
    BY DEF Octets
<1>2. QED BY <1>1

LEMMA TwoParts ==
    ASSUME NEW x \in 0 .. 63, NEW y \in 0 .. 63
    PROVE  x * 64 + y \in Units
BY DEF Units

LEMMA UnitIs ==
    ASSUME NEW s, s \in Seq(Octets), Len(s) \in 1 .. 3
    PROVE  Unit(s) \in Units
<1>1. CASE Len(s) = 1
    <2>1. s[1] \in Octets
        BY <1>1
    <2>2. Unit(s) = s[1]
        BY <1>1 DEF Unit
    <2>3. Octets \subseteq Units
        BY DEF Octets, Units
    <2>4. QED BY <2>1, <2>2, <2>3
<1>2. CASE Len(s) = 2
    <2>0. 1 \in 1 .. Len(s) /\ 2 \in 1 .. Len(s)
        BY <1>2
    <2>1. s[1] \in Octets /\ s[2] \in Octets
        BY <2>0
    <2>2. Unit(s) = (s[1] % 32) * 64 + (s[2] % 64)
        BY <1>2 DEF Unit
    <2>3. QED BY <2>1, <2>2, BitsOf, TwoParts
<1>3. CASE Len(s) = 3
    <2>1. s[1] \in Octets /\ s[2] \in Octets /\ s[3] \in Octets
        BY <1>3
    <2>2. Unit(s) = (s[1] % 16) * 4096 + (s[2] % 64) * 64 + (s[3] % 64)
        BY <1>3 DEF Unit
    <2> DEFINE x == s[1] % 16
               y == s[2] % 64
               z == s[3] % 64
    <2>3. x \in 0 .. 15 /\ y \in 0 .. 63 /\ z \in 0 .. 63
        BY <2>1, BitsOf
    <2>4. Unit(s) = x * 4096 + y * 64 + z
        BY <2>2
    <2> HIDE DEF x, y, z
    <2>5. QED BY <2>3, <2>4 DEF Units
<1>4. QED BY <1>1, <1>2, <1>3

LEMMA UnitForward ==
    ASSUME NEW s, s \in Seq(Octets)
    PROVE  Forward(Len(s) + 1, UnitHalt(s), UnitHead(s), UnitNext(s), Units)
<1>1. Len(s) \in Nat
    OBVIOUS
<1>2. ASSUME NEW i \in 1 .. Len(s) + 1, i \notin UnitHalt(s)
      PROVE  UnitHead(s)[i] \in Units /\ UnitNext(s)[i] \in i + 1 .. Len(s) + 1
    <2>1. i \in 1 .. Len(s) /\ ~(i + SizeAt(s, i) > Len(s) + 1)
        BY <1>1, <1>2 DEF UnitHalt
    <2>2. SizeAt(s, i) \in 1 .. 3
        BY <2>1, SizeAtIs
    <2> DEFINE j == i + SizeAt(s, i) - 1
    <2>3. j \in i .. Len(s) /\ j - i + 1 = SizeAt(s, i)
        BY <1>1, <2>1, <2>2
    <2>4. PieceAt(s, i) \in Seq(Octets) /\ Len(PieceAt(s, i)) = SizeAt(s, i)
        <3>1. PieceAt(s, i) = SubSeq(s, i, j)
            BY DEF PieceAt
        <3> HIDE DEF j
        <3>2. QED BY <2>1, <2>3, <3>1, SubSeqIs
    <2>5. Unit(PieceAt(s, i)) \in Units
        BY <2>2, <2>4, UnitIs
    <2>6. UnitHead(s)[i] \in Units
        BY <2>5 DEF UnitHead
    <2>7. UnitNext(s)[i] \in i + 1 .. Len(s) + 1
        BY <1>1, <2>1, <2>2 DEF UnitNext
    <2>8. QED BY <2>6, <2>7
<1>3. QED BY <1>2 DEF Forward

\* utf82unicode is such a reading.
LEMMA UnicodeReads ==
    ASSUME NEW s, s \in Seq(Octets)
    PROVE  \E f : /\ IsReading(f, Len(s) + 1, UnitHalt(s), UnitHead(s), UnitNext(s))
                  /\ utf82unicode(s) = f[1]
<1> DEFINE hi == Len(s) + 1
           IsIt(f) ==
               f = [i \in 1 .. hi |->
                       IF i > Len(s) \/ i + SizeAt(s, i) > Len(s) + 1 THEN <<>>
                       ELSE <<Unit(SubSeq(s, i, i + SizeAt(s, i) - 1))>> \o f[i + SizeAt(s, i)]]
           F == CHOOSE f : IsIt(f)
<1>1. Len(s) \in Nat /\ hi \in Nat
    OBVIOUS
<1>2. ASSUME NEW f
      PROVE  [i \in 1 .. hi |->
                 IF i \in UnitHalt(s) THEN <<>> ELSE <<UnitHead(s)[i]>> \o f[UnitNext(s)[i]]]
             = [i \in 1 .. hi |->
                   IF i > Len(s) \/ i + SizeAt(s, i) > Len(s) + 1 THEN <<>>
                   ELSE <<Unit(SubSeq(s, i, i + SizeAt(s, i) - 1))>> \o f[i + SizeAt(s, i)]]
    <2>1. ASSUME NEW i \in 1 .. hi
          PROVE  (IF i \in UnitHalt(s) THEN <<>> ELSE <<UnitHead(s)[i]>> \o f[UnitNext(s)[i]])
                 = IF i > Len(s) \/ i + SizeAt(s, i) > Len(s) + 1 THEN <<>>
                   ELSE <<Unit(SubSeq(s, i, i + SizeAt(s, i) - 1))>> \o f[i + SizeAt(s, i)]
        <3>1. i \in UnitHalt(s) <=> (i > Len(s) \/ i + SizeAt(s, i) > Len(s) + 1)
            BY DEF UnitHalt
        <3>2. UnitHead(s)[i] = Unit(SubSeq(s, i, i + SizeAt(s, i) - 1)) /\ UnitNext(s)[i] = i + SizeAt(s, i)
            BY DEF UnitHead, UnitNext, PieceAt
        <3> HIDE DEF hi
        <3>3. QED BY <3>1, <3>2, Zenon
    <2> HIDE DEF hi
    <2>2. QED BY <2>1, Zenon
<1>3. PICK f : IsReading(f, hi, UnitHalt(s), UnitHead(s), UnitNext(s))
    <2>1. Forward(hi, UnitHalt(s), UnitHead(s), UnitNext(s), Units)
        BY UnitForward
    <2> HIDE DEF hi
    <2>2. QED BY <1>1, <2>1, ReadingExists
<1>4. IsIt(f)
    BY <1>2, <1>3 DEF IsReading
<1>5. IsIt(F)
    <2> HIDE DEF IsIt
    <2>1. QED BY <1>4
<1>6. utf82unicode(s) = F[1]
    BY DEF utf82unicode, SizeAt
<1> HIDE DEF F
<1>7. IsReading(F, hi, UnitHalt(s), UnitHead(s), UnitNext(s))
    BY <1>2, <1>5 DEF IsReading
<1>8. QED BY <1>6, <1>7

LEMMA UnicodeType ==
    ASSUME NEW s, s \in Seq(Octets)
    PROVE  utf82unicode(s) \in Seq(Units)
<1> DEFINE hi == Len(s) + 1
<1>1. PICK f : /\ IsReading(f, hi, UnitHalt(s), UnitHead(s), UnitNext(s))
               /\ utf82unicode(s) = f[1]
    BY UnicodeReads
<1>2. hi \in Nat /\ 1 \in 1 .. hi
    OBVIOUS
<1>3. Forward(hi, UnitHalt(s), UnitHead(s), UnitNext(s), Units)
    BY UnitForward
<1> HIDE DEF hi
<1>4. f[1] \in Seq(Units)
    BY <1>1, <1>2, <1>3, ReadingType
<1>5. QED BY <1>1, <1>4

LEMMA UnicodeNone ==
    utf82unicode(<<>>) = <<>>
<1> DEFINE hi == Len(<<>>) + 1
<1>1. <<>> \in Seq(Octets) /\ Len(<<>>) = 0
    OBVIOUS
<1>2. PICK f : /\ IsReading(f, hi, UnitHalt(<<>>), UnitHead(<<>>), UnitNext(<<>>))
               /\ utf82unicode(<<>>) = f[1]
    BY <1>1, UnicodeReads
<1>3. 1 \in UnitHalt(<<>>) /\ 1 \in 1 .. hi
    BY <1>1 DEF UnitHalt
<1> HIDE DEF hi
<1>4. f[1] = <<>>
    BY <1>2, <1>3, ReadingStep
<1>5. QED BY <1>2, <1>4

\* The bytes of p, read as one unit, do not change what follows them.
LEMMA UnicodeFront ==
    ASSUME NEW p, NEW s, p \in Seq(Octets), s \in Seq(Octets), p # <<>>,
           SizeAt(p \o s, 1) = Len(p)
    PROVE  utf82unicode(p \o s) = Cons(Unit(p), utf82unicode(s))
<1> DEFINE w == p \o s
           k == Len(p)
           hi == Len(s) + 1
           hi2 == Len(w) + 1
<1>1. /\ w \in Seq(Octets) /\ Len(w) = Len(s) + k /\ k \in Nat \ {0} /\ Len(s) \in Nat
      /\ \A i \in 1 .. Len(s) : w[i + k] = s[i]
    BY ConcatProperties
<1>2. hi \in Nat /\ hi2 = hi + k /\ 1 \in 1 .. hi /\ 1 \in 1 .. hi2 /\ k \in Nat
    BY <1>1
<1>3. ASSUME NEW i \in 1 .. Len(s), NEW j \in i .. Len(s)
      PROVE  SubSeq(w, i + k, j + k) = SubSeq(s, i, j)
    BY SubSeqBehind
<1>4. SizeAt(w, 1) = k /\ PieceAt(w, 1) = p
    <2>1. SubSeq(w, 1, k) = p
        BY ConcatProperties
    <2>2. PieceAt(w, 1) = SubSeq(w, 1, k)
        <3>1. 1 + SizeAt(w, 1) - 1 = k
            BY <1>1
        <3>2. QED BY <3>1 DEF PieceAt
    <2>3. QED BY <2>1, <2>2
<1> HIDE DEF w, k
<1>5. ASSUME NEW i \in 1 .. Len(s)
      PROVE  SizeAt(w, i + k) = SizeAt(s, i)
    BY <1>1 DEF SizeAt
<1>6. ASSUME NEW i \in 1 .. hi
      PROVE  /\ i + k \in UnitHalt(w) <=> i \in UnitHalt(s)
             /\ i \notin UnitHalt(s) =>
                   UnitHead(w)[i + k] = UnitHead(s)[i] /\ UnitNext(w)[i + k] = UnitNext(s)[i] + k
    <2>1. i \in Nat \ {0} /\ i + k \in 1 .. Len(w) + 1
        BY <1>1, <1>2
    <2>2. CASE i > Len(s)
        <3>1. i \in UnitHalt(s)
            BY <2>2 DEF UnitHalt
        <3>2. i + k > Len(w)
            BY <1>1, <2>1, <2>2
        <3>3. i + k \in UnitHalt(w)
            BY <2>1, <3>2 DEF UnitHalt
        <3>4. QED BY <3>1, <3>3
    <2>3. CASE ~(i > Len(s))
        <3>1. i \in 1 .. Len(s)
            BY <1>1, <2>1, <2>3
        <3>2. SizeAt(w, i + k) = SizeAt(s, i) /\ SizeAt(s, i) \in 1 .. 3
            BY <1>5, <3>1, SizeAtIs
        <3>3. i \in UnitHalt(s) <=> i + SizeAt(s, i) > Len(s) + 1
            BY <2>3 DEF UnitHalt
        <3>4. i + k \in UnitHalt(w) <=> (i + k) + SizeAt(s, i) > Len(w) + 1
            <4>1. ~(i + k > Len(w))
                BY <1>1, <2>1, <2>3
            <4>2. QED BY <2>1, <3>2, <4>1 DEF UnitHalt
        <3>5. i + k \in UnitHalt(w) <=> i \in UnitHalt(s)
            <4>1. (i + k) + SizeAt(s, i) > Len(w) + 1 <=> i + SizeAt(s, i) > Len(s) + 1
                BY <1>1, <2>1, <3>2
            <4>2. QED BY <3>3, <3>4, <4>1
        <3>6. ASSUME i \notin UnitHalt(s)
              PROVE  UnitHead(w)[i + k] = UnitHead(s)[i] /\ UnitNext(w)[i + k] = UnitNext(s)[i] + k
            <4> DEFINE j == i + SizeAt(s, i) - 1
            <4>1. j \in i .. Len(s) /\ (i + k) + SizeAt(s, i) - 1 = j + k
                BY <1>1, <2>1, <3>2, <3>3, <3>6
            <4>2. PieceAt(w, i + k) = SubSeq(w, i + k, j + k)
                BY <3>2, <4>1 DEF PieceAt
            <4>3. PieceAt(s, i) = SubSeq(s, i, j)
                BY DEF PieceAt
            <4>4. PieceAt(w, i + k) = PieceAt(s, i)
                <5> HIDE DEF j
                <5>1. QED BY <1>3, <3>1, <4>1, <4>2, <4>3
            <4>5. UnitHead(w)[i + k] = UnitHead(s)[i]
                BY <2>1, <4>4 DEF UnitHead
            <4>6. UnitNext(w)[i + k] = (i + k) + SizeAt(s, i) /\ UnitNext(s)[i] = i + SizeAt(s, i)
                BY <2>1, <3>2 DEF UnitNext
            <4>7. UnitNext(w)[i + k] = UnitNext(s)[i] + k
                BY <1>1, <2>1, <3>2, <4>6
            <4>8. QED BY <4>5, <4>7
        <3>7. QED BY <3>5, <3>6
    <2>4. QED BY <2>2, <2>3
<1>7. PICK f : IsReading(f, hi, UnitHalt(s), UnitHead(s), UnitNext(s)) /\ utf82unicode(s) = f[1]
    BY UnicodeReads
<1>8. PICK f2 : IsReading(f2, hi2, UnitHalt(w), UnitHead(w), UnitNext(w)) /\ utf82unicode(w) = f2[1]
    BY <1>1, UnicodeReads
<1>9. Forward(hi, UnitHalt(s), UnitHead(s), UnitNext(s), Units)
    BY UnitForward
<1>10. 1 \notin UnitHalt(w)
    BY <1>1, <1>4 DEF UnitHalt
<1>11. UnitHead(w)[1] = Unit(p) /\ UnitNext(w)[1] = 1 + k
    BY <1>2, <1>4 DEF UnitHead, UnitNext
<1> HIDE DEF hi, hi2
<1>12. f2[1 + k] = f[1]
    <2>1. IsReading(f2, hi + k, UnitHalt(w), UnitHead(w), UnitNext(w))
        BY <1>2, <1>8
    <2>2. Behind(k, hi, UnitHalt(s), UnitHead(s), UnitNext(s), UnitHalt(w), UnitHead(w), UnitNext(w))
        BY <1>6 DEF Behind
    <2>3. QED BY <1>2, <1>7, <1>9, <2>1, <2>2, ReadingShift
<1>13. f2[1] = Cons(UnitHead(w)[1], f2[UnitNext(w)[1]])
    BY <1>2, <1>8, <1>10, ReadingStep
<1>14. QED BY <1>7, <1>8, <1>11, <1>12, <1>13 DEF w

\* The bytes of a character are read as its unit.
LEMMA Utf8Is ==
    ASSUME NEW c0 \in Units
    PROVE  /\ Utf8(c0) \in Seq(Octets) /\ Utf8(c0) # <<>> /\ Len(Utf8(c0)) \in 1 .. 3
           /\ Unit(Utf8(c0)) = c0
           /\ Len(Utf8(c0)) = IF Utf8(c0)[1] < 128 THEN 1 ELSE IF Utf8(c0)[1] \div 32 = 6 THEN 2 ELSE 3
<1> DEFINE p == Utf8(c0)
<1>0. c0 \in Nat
    BY DEF Units
<1>1. CASE c0 < 128
    <2>1. p = <<c0>>
        BY <1>0, <1>1 DEF Utf8
    <2>2. c0 \in Octets
        BY <1>0, <1>1 DEF Octets
    <2> HIDE DEF p
    <2>3. p \in Seq(Octets) /\ Len(p) = 1 /\ p[1] = c0
        BY <2>1, <2>2
    <2>4. Unit(p) = c0
        BY <2>3 DEF Unit
    <2>5. p \in Seq(Octets) /\ p # <<>> /\ Len(p) \in 1 .. 3
        BY <2>3
    <2>6. QED BY <1>1, <2>3, <2>4, <2>5 DEF p
<1>2. CASE ~(c0 < 128) /\ c0 < 2048
    <2> DEFINE a == 192 + (c0 \div 64)
               b == 128 + (c0 % 64)
    <2>1. p = <<a, b>>
        BY <1>0, <1>2 DEF Utf8
    <2>2. a \in Octets /\ b \in Octets /\ ~(a < 128) /\ a \div 32 = 6
        BY <1>0, <1>2 DEF Octets
    <2>3. (a % 32) * 64 + (b % 64) = c0
        <3>1. c0 \div 64 \in 0 .. 31 /\ c0 % 64 \in 0 .. 63 /\ (c0 \div 64) * 64 + (c0 % 64) = c0
            BY <1>0, <1>2
        <3>2. a % 32 = c0 \div 64 /\ b % 64 = c0 % 64
            BY <3>1
        <3>3. QED BY <3>1, <3>2
    <2> HIDE DEF p, a, b
    <2>4. p \in Seq(Octets) /\ Len(p) = 2 /\ p[1] = a /\ p[2] = b
        BY <2>1, <2>2
    <2>5. Unit(p) = c0
        BY <2>3, <2>4 DEF Unit
    <2>6. p \in Seq(Octets) /\ p # <<>> /\ Len(p) \in 1 .. 3
        BY <2>4
    <2>7. QED BY <2>2, <2>4, <2>5, <2>6 DEF p
<1>3. CASE ~(c0 < 2048)
    <2> DEFINE q == c0 \div 4096
               low == c0 % 4096
               a == 224 + q
               b == 128 + (low \div 64)
               d == 128 + (c0 % 64)
    <2>1. p = <<a, b, d>>
        BY <1>0, <1>3 DEF Utf8
    <2>2. q \in 0 .. 15 /\ low \in Nat /\ low < 4096 /\ q * 4096 + low = c0
        BY DEF Units
    <2>3. c0 % 64 = low % 64
        BY DEF Units
    <2> HIDE DEF q, low
    <2>4. low \div 64 \in 0 .. 63 /\ low % 64 \in 0 .. 63 /\ (low \div 64) * 64 + (low % 64) = low
        BY <2>2
    <2>5. a \in Octets /\ b \in Octets /\ d \in Octets /\ ~(a < 128) /\ a \div 32 = 7
        BY <2>2, <2>3, <2>4 DEF Octets
    <2>6. a % 16 = q /\ b % 64 = low \div 64 /\ d % 64 = low % 64
        BY <2>2, <2>3, <2>4
    <2>7. (a % 16) * 4096 + (b % 64) * 64 + (d % 64) = c0
        BY <2>2, <2>4, <2>6
    <2> HIDE DEF p, a, b, d
    <2>8. p \in Seq(Octets) /\ Len(p) = 3 /\ p[1] = a /\ p[2] = b /\ p[3] = d
        BY <2>1, <2>5
    <2>9. Unit(p) = c0
        BY <2>7, <2>8 DEF Unit
    <2>10. p \in Seq(Octets) /\ p # <<>> /\ Len(p) \in 1 .. 3
        BY <2>8
    <2>11. QED BY <2>5, <2>8, <2>9, <2>10 DEF p
<1>4. QED BY <1>1, <1>2, <1>3

LEMMA UnicodeCharacter ==
    ASSUME NEW c0, c0 \in Units, NEW s, s \in Seq(Octets)
    PROVE  utf82unicode(Utf8(c0) \o s) = Cons(c0, utf82unicode(s))
<1> DEFINE p == Utf8(c0)
           w == p \o s
<1>1. p \in Seq(Octets) /\ p # <<>> /\ Len(p) \in 1 .. 3 /\ Unit(p) = c0
    BY Utf8Is
<1>2. Len(p) = IF p[1] < 128 THEN 1 ELSE IF p[1] \div 32 = 6 THEN 2 ELSE 3
    BY Utf8Is
<1> HIDE DEF p
<1>3. w \in Seq(Octets) /\ Len(w) \in Nat /\ w[1] = p[1] /\ 1 \in 1 .. Len(w)
    <2>1. w \in Seq(Octets) /\ Len(w) = Len(p) + Len(s) /\ \A i \in 1 .. Len(p) : w[i] = p[i]
        <3>1. ASSUME NEW q \in Seq(Octets)
              PROVE  /\ q \o s \in Seq(Octets) /\ Len(q \o s) = Len(q) + Len(s)
                     /\ \A i \in 1 .. Len(q) : (q \o s)[i] = q[i]
            BY ConcatProperties
        <3>2. QED BY <1>1, <3>1
    <2>2. Len(s) \in Nat /\ 1 \in 1 .. Len(p)
        BY <1>1
    <2> HIDE DEF w
    <2>3. QED BY <1>1, <2>1, <2>2
<1> HIDE DEF w
<1>4. SizeAt(w, 1) = Len(p)
    BY <1>2, <1>3, SizeAtIs
<1>5. utf82unicode(w) = Cons(Unit(p), utf82unicode(s))
    BY <1>1, <1>4, UnicodeFront DEF w
<1>6. QED BY <1>1, <1>5 DEF w, p

-----------------------------------------------------------------------------
(* The body of a form, from the bytes that come in to those that go on *)

AllCharacters == [code : Units, coded : BOOLEAN]

CodeOf   == [b \in Octets |-> PercentCode(b)]
EncodeOf == [b \in Octets |-> IF b >= 128 THEN PercentCode(b) ELSE <<b>>]
Utf8Of   == [u \in Units |-> Utf8(u)]
PlainOf  == [ch \in AllCharacters |-> Utf8(ch.code)]
SpellOf  == [ch \in AllCharacters |-> IF ch.coded THEN SpreadOf(CodeOf, Utf8(ch.code)) ELSE Utf8(ch.code)]
UnitOf   == [ch \in AllCharacters |-> ch.code]

LEMMA CodeGives == Gives(CodeOf, Octets, Seq(Octets))
<1>1. \A b \in Octets : PercentCode(b) \in Seq(Octets)
    BY PercentCodeIs
<1>2. QED BY <1>1 DEF Gives, CodeOf

LEMMA EncodeGives == Gives(EncodeOf, Octets, Seq(Octets))
<1>1. \A b \in Octets : PercentCode(b) \in Seq(Octets) /\ <<b>> \in Seq(Octets)
    BY PercentCodeIs
<1>2. QED BY <1>1 DEF Gives, EncodeOf

LEMMA Utf8Gives == Gives(Utf8Of, Units, Seq(Octets))
<1>1. \A u \in Units : Utf8(u) \in Seq(Octets)
    BY Utf8Is
<1>2. QED BY <1>1 DEF Gives, Utf8Of

LEMMA PlainGives == Gives(PlainOf, AllCharacters, Seq(Octets))
<1>1. \A ch \in AllCharacters : ch.code \in Units
    BY DEF AllCharacters
<1>2. \A ch \in AllCharacters : Utf8(ch.code) \in Seq(Octets)
    BY <1>1, Utf8Is
<1>3. QED BY <1>2 DEF Gives, PlainOf

LEMMA SpellGives == Gives(SpellOf, AllCharacters, Seq(Octets))
<1>1. \A ch \in AllCharacters : ch.code \in Units
    BY DEF AllCharacters
<1>2. \A ch \in AllCharacters : Utf8(ch.code) \in Seq(Octets)
    BY <1>1, Utf8Is
<1>3. \A ch \in AllCharacters : SpreadOf(CodeOf, Utf8(ch.code)) \in Seq(Octets)
    BY <1>2, CodeGives, SpreadType
<1>4. QED BY <1>2, <1>3 DEF Gives, SpellOf

\* Spread, with the function in the place of the operator.
IsSpreadBy(f, g, t) == f = [i \in 0 .. Len(t) |-> IF i = 0 THEN <<>> ELSE f[i - 1] \o g[t[i]]]

LEMMA SpreadByExists ==
    ASSUME NEW E, NEW g, NEW t, t \in Seq(E)
    PROVE  \E f : IsSpreadBy(f, g, t)
<1>1. Len(t) \in Nat /\ Len(Mapped1(g, t)) = Len(t)
    BY MapLen
<1>2. PICK f : IsSpread(f, Len(t), Mapped1(g, t))
    BY <1>1, SpreadExists
<1>3. \A i \in 0 .. Len(t) : i # 0 => Mapped1(g, t)[i] = g[t[i]]
    <2>1. ASSUME NEW i \in 0 .. Len(t), i # 0 PROVE Mapped1(g, t)[i] = g[t[i]]
        <3>1. i \in 1 .. Len(t)
            BY <1>1, <2>1
        <3>2. QED BY <3>1, MapLen
    <2>2. QED BY <2>1
<1>4. IsSpreadBy(f, g, t)
    BY <1>2, <1>3 DEF IsSpread, IsSpreadBy
<1>5. QED BY <1>4

LEMMA EncodedSpreads ==
    ASSUME NEW s, s \in Seq(Octets)
    PROVE  Encoded(s) = SpreadOf(EncodeOf, s)
<1> DEFINE IsIt(f) == f = [i \in 0 .. Len(s) |->
                              IF i = 0 THEN <<>>
                              ELSE f[i - 1] \o (IF s[i] >= 128 THEN PercentCode(s[i]) ELSE <<s[i]>>)]
           F == CHOOSE f : IsIt(f)
<1>1. ASSUME NEW i \in 0 .. Len(s), i # 0
      PROVE  EncodeOf[s[i]] = IF s[i] >= 128 THEN PercentCode(s[i]) ELSE <<s[i]>>
    <2>1. s[i] \in Octets
        BY <1>1
    <2>2. QED BY <2>1 DEF EncodeOf
<1>2. ASSUME NEW f PROVE IsIt(f) <=> IsSpreadBy(f, EncodeOf, s)
    BY <1>1 DEF IsSpreadBy
<1>3. \E f : IsSpreadBy(f, EncodeOf, s)
    BY SpreadByExists
<1>4. IsIt(F)
    <2> HIDE DEF IsIt
    <2>1. QED BY <1>2, <1>3
<1>5. Encoded(s) = F[Len(s)]
    BY DEF Encoded, Spread
<1> HIDE DEF F, IsIt
<1>6. IsSpreadBy(F, EncodeOf, s)
    BY <1>2, <1>4
<1>7. F[Len(s)] = SpreadOf(EncodeOf, s)
    BY <1>6, EncodeGives, SpreadsOut DEF IsSpreadBy
<1>8. QED BY <1>5, <1>7

LEMMA PercentSpreads ==
    ASSUME NEW s, s \in Seq(Octets)
    PROVE  Spread(s, PercentCode) = SpreadOf(CodeOf, s)
<1> DEFINE IsIt(f) == f = [i \in 0 .. Len(s) |-> IF i = 0 THEN <<>> ELSE f[i - 1] \o PercentCode(s[i])]
           F == CHOOSE f : IsIt(f)
<1>1. ASSUME NEW i \in 0 .. Len(s), i # 0
      PROVE  CodeOf[s[i]] = PercentCode(s[i])
    <2>1. s[i] \in Octets
        BY <1>1
    <2>2. QED BY <2>1 DEF CodeOf
<1>2. ASSUME NEW f PROVE IsIt(f) <=> IsSpreadBy(f, CodeOf, s)
    BY <1>1 DEF IsSpreadBy
<1>3. \E f : IsSpreadBy(f, CodeOf, s)
    BY SpreadByExists
<1>4. IsIt(F)
    <2> HIDE DEF IsIt
    <2>1. QED BY <1>2, <1>3
<1>5. Spread(s, PercentCode) = F[Len(s)]
    BY DEF Spread
<1> HIDE DEF F, IsIt
<1>6. IsSpreadBy(F, CodeOf, s)
    BY <1>2, <1>4
<1>7. F[Len(s)] = SpreadOf(CodeOf, s)
    BY <1>6, CodeGives, SpreadsOut DEF IsSpreadBy
<1>8. QED BY <1>5, <1>7

LEMMA BytesSpread ==
    ASSUME NEW t, t \in Seq(AllCharacters)
    PROVE  BytesOf(t) = SpreadOf(SpellOf, t)
<1> DEFINE Spelled(ch) == IF ch.coded THEN Spread(Utf8(ch.code), PercentCode) ELSE Utf8(ch.code)
           IsIt(f) == f = [i \in 0 .. Len(t) |-> IF i = 0 THEN <<>> ELSE f[i - 1] \o Spelled(t[i])]
           F == CHOOSE f : IsIt(f)
<1>1. ASSUME NEW i \in 0 .. Len(t), i # 0
      PROVE  SpellOf[t[i]] = Spelled(t[i])
    <2>1. t[i] \in AllCharacters
        BY <1>1
    <2>2. Utf8(t[i].code) \in Seq(Octets)
        <3>1. t[i].code \in Units
            BY <2>1 DEF AllCharacters
        <3>2. QED BY <3>1, Utf8Is
    <2>3. Spread(Utf8(t[i].code), PercentCode) = SpreadOf(CodeOf, Utf8(t[i].code))
        BY <2>2, PercentSpreads
    <2>4. QED BY <2>1, <2>3 DEF SpellOf
<1>2. ASSUME NEW f PROVE IsIt(f) <=> IsSpreadBy(f, SpellOf, t)
    <2> HIDE DEF Spelled
    <2>1. QED BY <1>1 DEF IsSpreadBy
<1>3. \E f : IsSpreadBy(f, SpellOf, t)
    BY SpreadByExists
<1>4. IsIt(F)
    <2> HIDE DEF IsIt
    <2>1. QED BY <1>2, <1>3
<1>5. BytesOf(t) = F[Len(t)]
    BY DEF BytesOf, Spread
<1> HIDE DEF F, IsIt
<1>6. IsSpreadBy(F, SpellOf, t)
    BY <1>2, <1>4
<1>7. F[Len(t)] = SpreadOf(SpellOf, t)
    BY <1>6, SpellGives, SpreadsOut DEF IsSpreadBy
<1>8. QED BY <1>5, <1>7

LEMMA Utf8Spreads ==
    ASSUME NEW us, us \in Seq(Units)
    PROVE  unicode2utf8(us) = SpreadOf(Utf8Of, us)
<1> DEFINE Utf8Bytes(u) ==
               CASE u < 128 -> <<u>>
                 [] 128 <= u /\ u < 2048 -> <<192 + (u \div 64), 128 + (u % 64)>>
                 [] OTHER -> <<224 + (u \div 4096), 128 + ((u \div 64) % 64), 128 + (u % 64)>>
           IsIt(f) == f = [i \in 0 .. Len(us) |-> IF i = 0 THEN <<>> ELSE f[i - 1] \o Utf8Bytes(us[i])]
           F == CHOOSE f : IsIt(f)
<1>0. ASSUME NEW u \in Units
      PROVE  Utf8Bytes(u) = Utf8(u)
    <2>1. (u \div 64) % 64 = (u % 4096) \div 64
        BY DEF Units
    <2>2. u \in Nat
        BY DEF Units
    <2>3. CASE u < 128
        BY <2>2, <2>3 DEF Utf8
    <2>4. CASE ~(u < 128) /\ u < 2048
        BY <2>2, <2>4 DEF Utf8
    <2>5. CASE ~(u < 2048)
        <3> DEFINE a == 224 + (u \div 4096)
                   d == 128 + (u % 64)
        <3>1. Utf8Bytes(u) = <<a, 128 + ((u \div 64) % 64), d>>
            BY <2>2, <2>5
        <3>2. Utf8(u) = <<a, 128 + ((u % 4096) \div 64), d>>
            BY <2>2, <2>5 DEF Utf8
        <3> HIDE DEF Utf8Bytes, a, d
        <3>3. QED BY <2>1, <3>1, <3>2
    <2>6. QED BY <2>2, <2>3, <2>4, <2>5
<1>1. ASSUME NEW i \in 0 .. Len(us), i # 0
      PROVE  Utf8Of[us[i]] = Utf8Bytes(us[i])
    <2>1. us[i] \in Units
        BY <1>1
    <2> HIDE DEF Utf8Bytes
    <2>2. QED BY <1>0, <2>1 DEF Utf8Of
<1>2. ASSUME NEW f PROVE IsIt(f) <=> IsSpreadBy(f, Utf8Of, us)
    <2> HIDE DEF Utf8Bytes
    <2>1. QED BY <1>1 DEF IsSpreadBy
<1>3. \E f : IsSpreadBy(f, Utf8Of, us)
    BY SpreadByExists
<1>4. IsIt(F)
    <2> HIDE DEF IsIt
    <2>1. QED BY <1>2, <1>3
<1>5. unicode2utf8(us) = F[Len(us)]
    BY DEF unicode2utf8, Spread
<1> HIDE DEF F, IsIt
<1>6. IsSpreadBy(F, Utf8Of, us)
    BY <1>2, <1>4
<1>7. F[Len(us)] = SpreadOf(Utf8Of, us)
    BY <1>6, Utf8Gives, SpreadsOut DEF IsSpreadBy
<1>8. QED BY <1>5, <1>7

\* Bytes written with "%" are read as what they were, and so are bytes that
\* are no "%".
LEMMA DecodedCodes ==
    ASSUME NEW p, p \in Seq(Octets), NEW s, s \in Seq(Octets)
    PROVE  Decoded(SpreadOf(CodeOf, p) \o s) = p \o Decoded(s)
<1> DEFINE T == {q \in Seq(Octets) : Decoded(SpreadOf(CodeOf, q) \o s) = q \o Decoded(s)}
<1>0. Decoded(s) \in Seq(Octets)
    BY DecodedType
<1>1. <<>> \in T
    <2>1. SpreadOf(CodeOf, <<>>) \o s = s /\ <<>> \o Decoded(s) = Decoded(s) /\ <<>> \in Seq(Octets)
        BY <1>0, SpreadNone, ConcatEmptyToo
    <2>2. QED BY <2>1
<1>2. ASSUME NEW b \in Octets, NEW q \in Seq(Octets), q \in T
      PROVE  Cons(b, q) \in T
    <2>1. SpreadOf(CodeOf, q) \in Seq(Octets) /\ PercentCode(b) \in Seq(Octets) /\ Cons(b, q) \in Seq(Octets)
        BY CodeGives, SpreadType, PercentCodeIs, ConsIs
    <2>2. SpreadOf(CodeOf, Cons(b, q)) = PercentCode(b) \o SpreadOf(CodeOf, q)
        <3>1. SpreadOf(CodeOf, Cons(b, q)) = CodeOf[b] \o SpreadOf(CodeOf, q)
            BY CodeGives, SpreadCons
        <3>2. CodeOf[b] = PercentCode(b)
            BY DEF CodeOf
        <3>3. QED BY <3>1, <3>2
    <2> DEFINE front == SpreadOf(CodeOf, q)
    <2>3. front \in Seq(Octets) /\ Decoded(front \o s) = q \o Decoded(s)
        BY <1>2, <2>1
    <2> HIDE DEF front, T
    <2>4. front \o s \in Seq(Octets) /\ (PercentCode(b) \o front) \o s = PercentCode(b) \o (front \o s)
        <3>1. ASSUME NEW x \in Seq(Octets), NEW y \in Seq(Octets)
              PROVE  (x \o y) \o s = x \o (y \o s)
            BY ConcatAssoc
        <3>2. front \o s \in Seq(Octets)
            BY <2>3
        <3>3. QED BY <2>1, <2>3, <3>1, <3>2
    <2>5. Decoded(PercentCode(b) \o (front \o s)) = Cons(b, Decoded(front \o s))
        BY <2>4, DecodedCode
    <2>6. Cons(b, q) \o Decoded(s) = Cons(b, q \o Decoded(s))
        BY <1>0, ConsConcat
    <2>7. Decoded(SpreadOf(CodeOf, Cons(b, q)) \o s) = Cons(b, q) \o Decoded(s)
        BY <2>2, <2>3, <2>4, <2>5, <2>6 DEF front
    <2>8. QED BY <2>1, <2>7 DEF T
<1> HIDE DEF T
<1>3. Seq(Octets) \subseteq T
    BY <1>1, <1>2, FromTheBack
<1>4. QED BY <1>3 DEF T

LEMMA DecodedPlain ==
    ASSUME NEW p, p \in Seq(Octets \ {Percent}), NEW s, s \in Seq(Octets)
    PROVE  Decoded(p \o s) = p \o Decoded(s)
<1> DEFINE E == Octets \ {Percent}
           T == {q \in Seq(E) : Decoded(q \o s) = q \o Decoded(s)}
<1>0. Decoded(s) \in Seq(Octets)
    BY DecodedType
<1>1. <<>> \in T
    <2>1. <<>> \o s = s /\ <<>> \o Decoded(s) = Decoded(s) /\ <<>> \in Seq(E)
        BY <1>0, ConcatEmptyToo
    <2>2. QED BY <2>1
<1>2. ASSUME NEW b \in E, NEW q \in Seq(E), q \in T
      PROVE  Cons(b, q) \in T
    <2>1. b \in Octets /\ b # Percent /\ q \in Seq(Octets) /\ Decoded(q \o s) = q \o Decoded(s)
        BY <1>2
    <2>2. Cons(b, q) \in Seq(E)
        <3> HIDE DEF E, T
        <3>1. QED BY ConsIs
    <2> HIDE DEF E
    <2>3. q \o s \in Seq(Octets) /\ Cons(b, q) \o s = <<b>> \o (q \o s)
        <3>1. Cons(b, q) \o s = Cons(b, q \o s)
            BY <2>1, ConsConcat
        <3>2. QED BY <2>1, <3>1 DEF Cons
    <2>4. Decoded(<<b>> \o (q \o s)) = Cons(b, Decoded(q \o s))
        BY <2>1, <2>3, DecodedRaw
    <2>5. Cons(b, q) \o Decoded(s) = Cons(b, q \o Decoded(s))
        BY <1>0, <2>1, ConsConcat
    <2>6. Decoded(Cons(b, q) \o s) = Cons(b, q) \o Decoded(s)
        BY <2>1, <2>3, <2>4, <2>5
    <2>7. QED BY <2>2, <2>6
<1> HIDE DEF T
<1>3. Seq(E) \subseteq T
    <2> HIDE DEF E
    <2>1. QED BY <1>1, <1>2, FromTheBack
<1>4. p \in T
    BY <1>3
<1>5. QED BY <1>4 DEF T

\* No byte of a character but "%" is a "%", and those of the characters from 128 on
\* are 128 or more.
LEMMA Utf8Bytes ==
    ASSUME NEW c0 \in Units
    PROVE  /\ c0 # Percent => Utf8(c0) \in Seq(Octets \ {Percent})
           /\ c0 >= 128 => \A i \in 1 .. Len(Utf8(c0)) : Utf8(c0)[i] >= 128
           /\ c0 < 128 => Utf8(c0) = <<c0>>
<1> DEFINE p == Utf8(c0)
           E == Octets \ {Percent}
<1>0. c0 \in Nat
    BY DEF Units
<1>1. CASE c0 < 128
    <2>1. p = <<c0>>
        BY <1>0, <1>1 DEF Utf8
    <2>2. c0 \in Octets
        BY <1>0, <1>1 DEF Octets
    <2>3. c0 # Percent => c0 \in E
        BY <2>2
    <2>4. c0 # Percent => p \in Seq(E)
        <3> HIDE DEF E, p
        <3>1. QED BY <2>1, <2>3
    <2>5. QED BY <1>0, <1>1, <2>1, <2>4
<1>2. CASE ~(c0 < 128) /\ c0 < 2048
    <2> DEFINE a == 192 + (c0 \div 64)
               b == 128 + (c0 % 64)
    <2>1. p = <<a, b>>
        BY <1>0, <1>2 DEF Utf8
    <2>2. a \in E /\ b \in E /\ a >= 128 /\ b >= 128
        BY <1>0, <1>2 DEF Octets, Percent
    <2> HIDE DEF a, b, E, p
    <2>3. p \in Seq(E) /\ \A i \in 1 .. Len(p) : p[i] >= 128
        BY <2>1, <2>2
    <2>4. QED BY <1>2, <2>3 DEF p, E
<1>3. CASE ~(c0 < 2048)
    <2> DEFINE a == 224 + (c0 \div 4096)
               b == 128 + ((c0 % 4096) \div 64)
               d == 128 + (c0 % 64)
    <2>1. p = <<a, b, d>>
        BY <1>0, <1>3 DEF Utf8
    <2>2. a \in E /\ b \in E /\ d \in E /\ a >= 128 /\ b >= 128 /\ d >= 128
        BY <1>3 DEF Octets, Percent, Units
    <2> HIDE DEF a, b, d, E, p
    <2>3. p \in Seq(E) /\ \A i \in 1 .. Len(p) : p[i] >= 128
        BY <2>1, <2>2
    <2>4. c0 < 128 => FALSE
        BY <1>0, <1>3
    <2>5. QED BY <2>3, <2>4 DEF p, E
<1>4. QED BY <1>1, <1>2, <1>3

LEMMA DecodedCharacter ==
    ASSUME NEW ch, ch \in Characters, NEW s, s \in Seq(Octets)
    PROVE  Decoded(SpellOf[ch] \o s) = PlainOf[ch] \o Decoded(s)
<1>1. ch \in AllCharacters /\ ch.code \in Units /\ (ch.coded \/ ch.code # Percent)
    BY DEF Characters, AllCharacters
<1>2. Utf8(ch.code) \in Seq(Octets)
    BY <1>1, Utf8Is
<1>3. PlainOf[ch] = Utf8(ch.code)
    BY <1>1 DEF PlainOf
<1>4. CASE ch.coded
    <2>1. SpellOf[ch] = SpreadOf(CodeOf, Utf8(ch.code))
        BY <1>1, <1>4 DEF SpellOf
    <2>2. QED BY <1>2, <1>3, <2>1, DecodedCodes
<1>5. CASE ~ch.coded
    <2>1. SpellOf[ch] = Utf8(ch.code)
        BY <1>1, <1>5 DEF SpellOf
    <2>2. Utf8(ch.code) \in Seq(Octets \ {Percent})
        BY <1>1, <1>5, Utf8Bytes
    <2>3. QED BY <1>3, <2>1, <2>2, DecodedPlain
<1>6. QED BY <1>4, <1>5

\* Decoding takes the "%" codes off a body, and nothing else.
LEMMA DecodedText ==
    ASSUME NEW t, t \in Seq(Characters)
    PROVE  Decoded(SpreadOf(SpellOf, t)) = SpreadOf(PlainOf, t)
<1> DEFINE T == {u \in Seq(Characters) : Decoded(SpreadOf(SpellOf, u)) = SpreadOf(PlainOf, u)}
<1>0. Characters \subseteq AllCharacters
    BY DEF Characters, AllCharacters
<1>1. <<>> \in T
    <2>1. <<>> \in Seq(Characters)
        OBVIOUS
    <2>2. QED BY <2>1, SpreadNone, DecodedNone
<1>2. ASSUME NEW ch \in Characters, NEW u \in Seq(Characters), u \in T
      PROVE  Cons(ch, u) \in T
    <2>1. Decoded(SpreadOf(SpellOf, u)) = SpreadOf(PlainOf, u)
        BY <1>2
    <2>2. Cons(ch, u) \in Seq(Characters)
        BY ConsIs
    <2>3. ch \in AllCharacters /\ u \in Seq(AllCharacters)
        BY <1>0
    <2> HIDE DEF T
    <2>4. SpreadOf(SpellOf, u) \in Seq(Octets)
        BY <2>3, SpellGives, SpreadType
    <2>5. SpreadOf(SpellOf, Cons(ch, u)) = SpellOf[ch] \o SpreadOf(SpellOf, u)
        BY <2>3, SpellGives, SpreadCons
    <2>6. SpreadOf(PlainOf, Cons(ch, u)) = PlainOf[ch] \o SpreadOf(PlainOf, u)
        BY <2>3, PlainGives, SpreadCons
    <2>7. Decoded(SpellOf[ch] \o SpreadOf(SpellOf, u)) = PlainOf[ch] \o Decoded(SpreadOf(SpellOf, u))
        BY <2>4, DecodedCharacter
    <2>8. QED BY <2>1, <2>2, <2>5, <2>6, <2>7 DEF T
<1> HIDE DEF T
<1>3. Seq(Characters) \subseteq T
    BY <1>1, <1>2, FromTheBack
<1>4. QED BY <1>3 DEF T

\* The units of a text are its characters' codes.
LEMMA UnicodeText ==
    ASSUME NEW t, t \in Seq(AllCharacters)
    PROVE  utf82unicode(SpreadOf(PlainOf, t)) = Mapped1(UnitOf, t)
<1> DEFINE T == {u \in Seq(AllCharacters) : utf82unicode(SpreadOf(PlainOf, u)) = Mapped1(UnitOf, u)}
<1>0. Gives(UnitOf, AllCharacters, Units)
    BY DEF Gives, UnitOf, AllCharacters
<1>1. <<>> \in T
    <2>1. <<>> \in Seq(AllCharacters)
        OBVIOUS
    <2>2. Mapped1(UnitOf, <<>>) = <<>>
        BY DEF Mapped1
    <2>3. QED BY <2>1, <2>2, SpreadNone, UnicodeNone
<1>2. ASSUME NEW ch \in AllCharacters, NEW u \in Seq(AllCharacters), u \in T
      PROVE  Cons(ch, u) \in T
    <2>1. utf82unicode(SpreadOf(PlainOf, u)) = Mapped1(UnitOf, u)
        BY <1>2
    <2>2. Cons(ch, u) \in Seq(AllCharacters)
        BY ConsIs
    <2> HIDE DEF T
    <2>3. SpreadOf(PlainOf, u) \in Seq(Octets)
        BY PlainGives, SpreadType
    <2>4. SpreadOf(PlainOf, Cons(ch, u)) = PlainOf[ch] \o SpreadOf(PlainOf, u)
        BY PlainGives, SpreadCons
    <2>5. PlainOf[ch] = Utf8(ch.code) /\ ch.code \in Units /\ UnitOf[ch] = ch.code
        BY DEF PlainOf, UnitOf, AllCharacters
    <2>6. utf82unicode(Utf8(ch.code) \o SpreadOf(PlainOf, u)) = Cons(ch.code, utf82unicode(SpreadOf(PlainOf, u)))
        BY <2>3, <2>5, UnicodeCharacter
    <2>7. Mapped1(UnitOf, Cons(ch, u)) = Cons(UnitOf[ch], Mapped1(UnitOf, u))
        BY <1>0, MapCons
    <2>8. QED BY <2>1, <2>2, <2>4, <2>5, <2>6, <2>7 DEF T
<1> HIDE DEF T
<1>3. Seq(AllCharacters) \subseteq T
    BY <1>1, <1>2, FromTheBack
<1>4. QED BY <1>3 DEF T

ConvertedChars(t) == [i \in 1 .. Len(t) |-> ConvertedChar(t[i])]

\* Characters that are written with "%" if and only if they are not ASCII.
Arrived == {ch \in AllCharacters : ch.coded <=> ch.code >= 128}

LEMMA ConvertedCharIs ==
    ASSUME NEW ch, ch \in AllCharacters
    PROVE  ConvertedChar(ch) \in Arrived
<1> DEFINE to == IF ch.code \in DOMAIN WordTable THEN WordTable[ch.code] ELSE ch.code
<1>1. to \in Units
    BY WordTableAssumption DEF AllCharacters
<1>2. (to >= 128) \in BOOLEAN
    OBVIOUS
<1> DEFINE out == [code |-> to, coded |-> (to >= 128)]
<1> HIDE DEF to
<1>3. out \in AllCharacters
    BY <1>1, <1>2 DEF AllCharacters
<1>4. out.coded <=> out.code >= 128
    OBVIOUS
<1>5. out = ConvertedChar(ch)
    BY DEF ConvertedChar, to
<1> HIDE DEF out
<1>6. QED BY <1>3, <1>4, <1>5 DEF Arrived

LEMMA ConvertedCharsAre ==
    ASSUME NEW t, t \in Seq(AllCharacters)
    PROVE  /\ ConvertedChars(t) \in Seq(Arrived) /\ Len(ConvertedChars(t)) = Len(t)
           /\ \A i \in 1 .. Len(t) : ConvertedChars(t)[i] = ConvertedChar(t[i])
<1>1. \A i \in 1 .. Len(t) : ConvertedChar(t[i]) \in Arrived
    <2>1. ASSUME NEW i \in 1 .. Len(t) PROVE ConvertedChar(t[i]) \in Arrived
        <3>1. t[i] \in AllCharacters
            OBVIOUS
        <3>2. QED BY <3>1, ConvertedCharIs
    <2>2. QED BY <2>1
<1>2. ConvertedChars(t) \in [1 .. Len(t) -> Arrived] /\ Len(t) \in Nat
    BY <1>1 DEF ConvertedChars
<1>3. \A i \in 1 .. Len(t) : ConvertedChars(t)[i] = ConvertedChar(t[i])
    BY DEF ConvertedChars
<1>4. QED BY <1>2, <1>3, FunctionIsSeq

\* translate puts every character through the table.
LEMMA TranslatedText ==
    ASSUME NEW t, t \in Seq(AllCharacters)
    PROVE  translate(SpreadOf(PlainOf, t)) = SpreadOf(PlainOf, ConvertedChars(t))
<1> DEFINE s == SpreadOf(PlainOf, t)
           units == Mapped1(UnitOf, t)
           ct == ConvertedChars(t)
           v == [i \in 1 .. Len(units) |->
                    IF units[i] \in DOMAIN WordTable THEN WordTable[units[i]] ELSE units[i]]
<1>1. utf82unicode(s) = units
    BY UnicodeText
<1>2. translate(s) = unicode2utf8(v)
    BY <1>1 DEF translate
<1>3. ct \in Seq(Arrived) /\ Len(ct) = Len(t) /\ Len(t) \in Nat
      /\ \A i \in 1 .. Len(t) : ct[i] = ConvertedChar(t[i])
    BY ConvertedCharsAre
<1>4. Len(units) = Len(t) /\ \A i \in 1 .. Len(t) : units[i] = UnitOf[t[i]]
    BY MapLen
<1>5. ASSUME NEW i \in 1 .. Len(t)
      PROVE  v[i] = ct[i].code /\ ct[i] \in AllCharacters /\ ct[i].code \in Units
    <2>1. t[i] \in AllCharacters
        OBVIOUS
    <2>2. units[i] = t[i].code
        BY <1>4, <2>1 DEF UnitOf
    <2>3. v[i] = IF t[i].code \in DOMAIN WordTable THEN WordTable[t[i].code] ELSE t[i].code
        <3> HIDE DEF units
        <3>1. QED BY <1>4, <2>2
    <2>4. ct[i] = ConvertedChar(t[i])
        BY <1>3
    <2>5. ct[i].code = v[i]
        BY <2>3, <2>4 DEF ConvertedChar
    <2>6. ct[i] \in Arrived
        BY <2>1, <2>4, ConvertedCharIs
    <2>7. QED BY <2>5, <2>6 DEF Arrived, AllCharacters
<1>6. v \in [1 .. Len(t) -> Units]
    <2> HIDE DEF units, ct
    <2>1. DOMAIN v = 1 .. Len(t)
        BY <1>4
    <2>2. v = [i \in 1 .. Len(t) |-> v[i]]
        BY <1>4
    <2>3. \A i \in 1 .. Len(t) : v[i] \in Units
        BY <1>5
    <2> HIDE DEF v
    <2>4. QED BY <2>2, <2>3
<1> HIDE DEF v, units, ct, s
<1>7. v \in Seq(Units) /\ Len(v) = Len(t)
    BY <1>3, <1>6, FunctionIsSeq
<1>8. Mapped1(Utf8Of, v) = Mapped1(PlainOf, ct)
    <2>1. ASSUME NEW k \in 1 .. Len(t) PROVE Utf8Of[v[k]] = PlainOf[ct[k]]
        <3>1. v[k] = ct[k].code /\ ct[k] \in AllCharacters /\ ct[k].code \in Units
            BY <1>5
        <3>2. QED BY <3>1 DEF Utf8Of, PlainOf
    <2>2. QED BY <1>3, <1>7, <2>1 DEF Mapped1
<1>9. unicode2utf8(v) = SpreadOf(PlainOf, ct)
    BY <1>7, <1>8, Utf8Spreads DEF SpreadOf
<1>10. QED BY <1>2, <1>9 DEF s, ct

LEMMA EncodedCharacter ==
    ASSUME NEW ch, ch \in Arrived
    PROVE  SpreadOf(EncodeOf, PlainOf[ch]) = SpellOf[ch]
<1>1. ch \in AllCharacters /\ ch.code \in Units /\ ch.code \in Nat /\ (ch.coded <=> ch.code >= 128)
    BY DEF Arrived, AllCharacters, Units
<1> DEFINE p == Utf8(ch.code)
<1>2. PlainOf[ch] = p /\ SpellOf[ch] = IF ch.coded THEN SpreadOf(CodeOf, p) ELSE p
    BY <1>1 DEF PlainOf, SpellOf
<1>3. p \in Seq(Octets)
    BY <1>1, Utf8Is
<1>4. CASE ch.coded
    <2>1. \A i \in 1 .. Len(p) : p[i] >= 128
        BY <1>1, <1>4, Utf8Bytes
    <2>2. \A i \in 1 .. Len(p) : EncodeOf[p[i]] = CodeOf[p[i]]
        <3>1. ASSUME NEW i \in 1 .. Len(p) PROVE EncodeOf[p[i]] = CodeOf[p[i]]
            <4> HIDE DEF p
            <4>1. p[i] \in Octets
                BY <1>3
            <4>2. p[i] >= 128
                BY <2>1
            <4>3. QED BY <4>1, <4>2 DEF EncodeOf, CodeOf
        <3>2. QED BY <3>1
    <2> HIDE DEF p
    <2>3. Mapped1(EncodeOf, p) = Mapped1(CodeOf, p)
        BY <2>2 DEF Mapped1
    <2>4. QED BY <1>2, <1>4, <2>3 DEF SpreadOf
<1>5. CASE ~ch.coded
    <2>1. ch.code < 128
        BY <1>1, <1>5
    <2>2. p = <<ch.code>>
        BY <1>1, <2>1, Utf8Bytes
    <2>3. ch.code \in Octets /\ ~(ch.code >= 128)
        BY <1>1, <2>1 DEF Octets
    <2> HIDE DEF p
    <2> DEFINE b == ch.code
    <2>4. EncodeOf[b] = <<b>>
        BY <2>3 DEF EncodeOf
    <2>5. SpreadOf(EncodeOf, Cons(b, <<>>)) = EncodeOf[b] \o SpreadOf(EncodeOf, <<>>)
        <3>1. <<>> \in Seq(Octets)
            OBVIOUS
        <3>2. ASSUME NEW e, NEW u, e \in Octets, u \in Seq(Octets)
              PROVE  SpreadOf(EncodeOf, Cons(e, u)) = EncodeOf[e] \o SpreadOf(EncodeOf, u)
            BY <3>2, EncodeGives, SpreadCons
        <3>3. QED BY <2>3, <3>1, <3>2
    <2>6. Cons(b, <<>>) = p
        BY <2>2, <2>3 DEF Cons
    <2>7. EncodeOf[b] \o SpreadOf(EncodeOf, <<>>) = p
        BY <1>3, <2>2, <2>4, SpreadNone, ConcatEmptyToo
    <2>8. SpreadOf(EncodeOf, p) = p
        BY <2>5, <2>6, <2>7
    <2>9. QED BY <1>2, <1>5, <2>8
<1>6. QED BY <1>4, <1>5

\* UrlEncodeHZ puts "%" codes on what is not ASCII, and on nothing else.
LEMMA EncodedText ==
    ASSUME NEW t, t \in Seq(Arrived)
    PROVE  Encoded(SpreadOf(PlainOf, t)) = SpreadOf(SpellOf, t)
<1> DEFINE T == {u \in Seq(Arrived) : SpreadOf(EncodeOf, SpreadOf(PlainOf, u)) = SpreadOf(SpellOf, u)}
<1>0. Arrived \subseteq AllCharacters
    BY DEF Arrived
<1>1. <<>> \in T
    <2>1. <<>> \in Seq(Arrived)
        OBVIOUS
    <2>2. QED BY <2>1, SpreadNone
<1>2. ASSUME NEW ch \in Arrived, NEW u \in Seq(Arrived), u \in T
      PROVE  Cons(ch, u) \in T
    <2>1. SpreadOf(EncodeOf, SpreadOf(PlainOf, u)) = SpreadOf(SpellOf, u)
        BY <1>2
    <2>2. Cons(ch, u) \in Seq(Arrived)
        BY ConsIs
    <2>3. ch \in AllCharacters /\ u \in Seq(AllCharacters)
        BY <1>0
    <2> HIDE DEF T
    <2> DEFINE a == PlainOf[ch]
               b == SpreadOf(PlainOf, u)
    <2>4. a \in Seq(Octets) /\ b \in Seq(Octets)
        BY <2>3, PlainGives, SpreadType DEF Gives
    <2>5. SpreadOf(SpellOf, Cons(ch, u)) = SpellOf[ch] \o SpreadOf(SpellOf, u)
        BY <2>3, SpellGives, SpreadCons
    <2>6. SpreadOf(PlainOf, Cons(ch, u)) = a \o b
        BY <2>3, PlainGives, SpreadCons
    <2>7. SpreadOf(EncodeOf, a) = SpellOf[ch]
        BY EncodedCharacter
    <2> HIDE DEF a, b
    <2>8. SpreadOf(EncodeOf, a \o b) = SpreadOf(EncodeOf, a) \o SpreadOf(EncodeOf, b)
        BY <2>4, EncodeGives, SpreadConcat
    <2>9. SpreadOf(EncodeOf, b) = SpreadOf(SpellOf, u)
        BY <2>1 DEF b
    <2>10. QED BY <2>2, <2>5, <2>6, <2>7, <2>8, <2>9 DEF T
<1> HIDE DEF T
<1>3. Seq(Arrived) \subseteq T
    BY <1>1, <1>2, FromTheBack
<1>4. SpreadOf(EncodeOf, SpreadOf(PlainOf, t)) = SpreadOf(SpellOf, t)
    BY <1>3 DEF T
<1>5. SpreadOf(PlainOf, t) \in Seq(Octets)
    <2>1. t \in Seq(AllCharacters)
        BY <1>0
    <2>2. QED BY <2>1, PlainGives, SpreadType
<1>6. QED BY <1>4, <1>5, EncodedSpreads

\* What the input filter makes of a whole body is the conversion of its text.
THEOREM BodyConverted ==
    ASSUME NEW t, t \in Seq(Characters)
    PROVE  Encoded(translate(Decoded(BytesOf(t)))) = ConvertedText(t)
<1>0. t \in Seq(AllCharacters)
    <2>1. Characters \subseteq AllCharacters
        BY DEF Characters, AllCharacters
    <2>2. QED BY <2>1
<1>1. Decoded(BytesOf(t)) = SpreadOf(PlainOf, t)
    BY <1>0, BytesSpread, DecodedText
<1>2. translate(SpreadOf(PlainOf, t)) = SpreadOf(PlainOf, ConvertedChars(t))
    BY <1>0, TranslatedText
<1>3. ConvertedChars(t) \in Seq(Arrived)
    BY <1>0, ConvertedCharsAre
<1>4. Encoded(SpreadOf(PlainOf, ConvertedChars(t))) = SpreadOf(SpellOf, ConvertedChars(t))
    BY <1>3, EncodedText
<1>5. ConvertedText(t) = SpreadOf(SpellOf, ConvertedChars(t))
    <2>1. ConvertedChars(t) \in Seq(AllCharacters)
        <3>1. Arrived \subseteq AllCharacters
            BY DEF Arrived
        <3>2. QED BY <1>3, <3>1
    <2>2. BytesOf(ConvertedChars(t)) = SpreadOf(SpellOf, ConvertedChars(t))
        BY <2>1, BytesSpread
    <2>3. QED BY <2>2 DEF ConvertedText, ConvertedChars
<1>6. QED BY <1>1, <1>2, <1>4, <1>5

-----------------------------------------------------------------------------
(* The input filter *)

\* The inductive invariant.  A call that keeps what it reads has the body up to
\* `sent' in its stream and in the bucket it has not taken out yet; a call that
\* does not is marked as lost; and the brigade has one of a few forms at each
\* place.  Without the filter it is the handler itself that has it.
Held == IF filtered THEN pstream ELSE taken
BodyStart ==
    /\ ipc # "done" => outcome = "none" /\ (filtered => taken = <<>>)
    /\ ipc = "none" => sent = 0 /\ taken = <<>>
    /\ ipc \in {"idle", "error"} /\ ~lost => IF filtered THEN sent = 0 ELSE taken = SubSeq(body, 1, sent)
    /\ ipc = "none" \/ ~filtered => pstream = <<>> /\ ~lost
    /\ ~filtered => ipc \notin {"convert", "ask", "back"}
BodyRead ==
    /\ ipc = "get" /\ ~lost => Held = SubSeq(body, 1, sent)
    /\ ipc = "buckets" =>
          \/ /\ bb \in {<<>>, <<Eos>>} /\ (bb = <<Eos>> => sent = Len(body))
             /\ ~lost => Held = SubSeq(body, 1, sent)
             /\ ~filtered => bb = <<Eos>>
          \/ \E d \in Seq(Octets) :
                /\ bb \in {<<Data(d)>>, <<Data(d), Eos>>} /\ (bb = <<Data(d), Eos>> => sent = Len(body))
                /\ ~lost => Held \o d = SubSeq(body, 1, sent)
BodyThrough ==
    /\ ipc = "convert" => bb = <<Eos>> /\ (~lost => pstream = body)
    /\ ipc = "ask" => \E d \in Seq(Octets) : bb = <<Data(d), Eos>> /\ (~lost => d = ConvertedText(text))
    /\ ipc = "back" => \E d \in Seq(Octets) : bb = <<Data(d), Eos, Eos>> /\ (~lost => d = ConvertedText(text))
    /\ ipc = "done" /\ outcome = "ok" => IF filtered THEN ~lost => taken = ConvertedText(text) ELSE taken = body
BodyTypes ==
    /\ text \in Seq(Characters) /\ filtered \in BOOLEAN /\ lost \in BOOLEAN
    /\ sent \in 0 .. Len(body) /\ pstream \in Seq(Octets) /\ taken \in Seq(Octets)
    /\ ipc \in {"none", "idle", "get", "buckets", "convert", "ask", "back", "error", "done"}
BodyInv == BodyTypes /\ BodyStart /\ BodyRead /\ BodyThrough

LEMMA BodyType ==
    ASSUME NEW t, t \in Seq(Characters)
    PROVE  BytesOf(t) \in Seq(Octets)
<1>1. t \in Seq(AllCharacters)
    <2>1. Characters \subseteq AllCharacters
        BY DEF Characters, AllCharacters
    <2>2. QED BY <2>1
<1>2. SpreadOf(SpellOf, t) \in Seq(Octets)
    BY <1>1, SpellGives, SpreadType
<1>3. QED BY <1>1, <1>2, BytesSpread

LEMMA EncodedType ==
    ASSUME NEW t, t \in Seq(Octets)
    PROVE  Encoded(translate(Decoded(t))) \in Seq(Octets)
<1>1. Decoded(t) \in Seq(Octets)
    BY DecodedType
<1> DEFINE d == Decoded(t)
           units == utf82unicode(d)
           v == [i \in 1 .. Len(units) |->
                    IF units[i] \in DOMAIN WordTable THEN WordTable[units[i]] ELSE units[i]]
<1>2. units \in Seq(Units) /\ Len(units) \in Nat
    BY <1>1, UnicodeType
<1>3. v \in [1 .. Len(units) -> Units]
    <2> HIDE DEF units
    <2>1. \A i \in 1 .. Len(units) : units[i] \in Units
        BY <1>2
    <2>2. QED BY <2>1, WordTableAssumption
<1>4. v \in Seq(Units)
    <2> HIDE DEF units, v
    <2>1. QED BY <1>2, <1>3, FunctionIsSeq
<1>5. translate(d) = unicode2utf8(v)
    BY DEF translate
<1> HIDE DEF d, units, v
<1>6. translate(d) \in Seq(Octets)
    BY <1>4, <1>5, Utf8Spreads, Utf8Gives, SpreadType
<1>7. Encoded(translate(d)) \in Seq(Octets)
    BY <1>6, EncodedSpreads, EncodeGives, SpreadType
<1>8. QED BY <1>7 DEF d

\* Buckets, and the brigades of one to three of them.
Buckets == {b \in [eos : BOOLEAN, data : Seq(Octets)] : b.eos => b.data = <<>>}

LEMMA BucketsAre ==
    ASSUME NEW d, d \in Seq(Octets)
    PROVE  /\ Eos \in Buckets /\ Data(d) \in Buckets
           /\ Eos.eos = TRUE /\ Data(d).eos = FALSE /\ Data(d).data = d
BY DEF Buckets, Eos, Data

LEMMA BrigadesAre ==
    ASSUME NEW d, d \in Seq(Octets)
    PROVE  /\ Head(<<Eos>>).eos /\ ~Head(<<Data(d)>>).eos /\ ~Head(<<Data(d), Eos>>).eos
           /\ Head(<<Data(d)>>).data = d /\ Head(<<Data(d), Eos>>).data = d
           /\ Tail(<<Data(d)>>) = <<>> /\ Tail(<<Data(d), Eos>>) = <<Eos>>
           /\ <<Data(d)>> \o <<Eos>> = <<Data(d), Eos>> /\ <<Data(d)>> \o <<>> = <<Data(d)>>
           /\ Append(<<Data(d), Eos>>, Eos) = <<Data(d), Eos, Eos>>
           /\ <<Eos>> # <<>> /\ <<Data(d)>> # <<>> /\ <<Data(d), Eos>> # <<>> /\ <<Eos>> # <<Data(d), Eos>>
           /\ <<Data(d)>> # <<Data(d), Eos>>
<1> DEFINE e == Eos
           x == Data(d)
<1>1. e \in Buckets /\ x \in Buckets /\ e.eos = TRUE /\ x.eos = FALSE /\ x.data = d
    BY BucketsAre
<1> HIDE DEF e, x
<1>2. /\ Len(<<x>>) = 1 /\ Head(<<x>>) = x /\ Tail(<<x>>) = <<>> /\ <<x>> \o <<>> = <<x>>
      /\ Len(<<e>>) = 1 /\ Head(<<e>>) = e
    BY <1>1, OneElement
<1>3. /\ Len(<<x, e>>) = 2 /\ Head(<<x, e>>) = x /\ Tail(<<x, e>>) = <<e>> /\ <<x>> \o <<e>> = <<x, e>>
    BY <1>1, TwoElements
<1>4. Append(<<x, e>>, e) = <<x, e, e>>
    BY <1>1, ThreeElements
<1>5. <<e>> # <<>> /\ <<x>> # <<>> /\ <<x, e>> # <<>> /\ <<e>> # <<x, e>> /\ <<x>> # <<x, e>>
    <2>1. Len(<<>>) = 0
        OBVIOUS
    <2> DEFINE a == <<e>>
               b == <<x>>
               ab == <<x, e>>
    <2>2. Len(a) = 1 /\ Len(b) = 1 /\ Len(ab) = 2
        BY <1>2, <1>3
    <2> HIDE DEF a, b, ab
    <2>3. a # <<>> /\ b # <<>> /\ ab # <<>> /\ a # ab /\ b # ab
        BY <2>1, <2>2
    <2>4. QED BY <2>3 DEF a, b, ab
<1>6. QED BY <1>1, <1>2, <1>3, <1>4, <1>5 DEF e, x

\* The handler finds the first end behind the data, and takes what is before it.
LEMMA FirstEnd ==
    ASSUME NEW d, d \in Seq(Octets), NEW q, q = <<Data(d), Eos, Eos>>
    PROVE  SelectInSeq(q, LAMBDA b : b.eos) = 2
<1> DEFINE T == {i \in 1 .. Len(q) : q[i].eos}
<1>1. Len(q) = 3 /\ q[1] = Data(d) /\ q[2] = Eos /\ q[3] = Eos
    BY BucketsAre, ThreeElements
<1>2. ~q[1].eos /\ q[2].eos
    BY <1>1, BucketsAre
<1>3. T \in SUBSET Nat /\ 2 \in T
    BY <1>1, <1>2
<1>4. \A k \in T : 2 <= k
    <2>1. \A k \in 1 .. 3 : k # 1 => 2 <= k
        OBVIOUS
    <2>2. \A k \in T : k # 1 /\ k \in 1 .. 3
        BY <1>1, <1>2
    <2>3. QED BY <2>1, <2>2
<1> HIDE DEF T
<1>5. Min(T) = 2 /\ T # {}
    BY <1>3, <1>4, LeastIs
<1>6. SelectInSeq(q, LAMBDA b : b.eos) = IF T # {} THEN Min(T) ELSE 0
    BY DEF SelectInSeq, T
<1>7. QED BY <1>5, <1>6

LEMMA SpreadOne ==
    ASSUME NEW d, d \in Seq(Octets), NEW q, q = <<Data(d)>>
    PROVE  Spread(q, LAMBDA b : b.data) = d
<1> DEFINE IsIt(f) == f = [i \in 0 .. Len(q) |-> IF i = 0 THEN <<>> ELSE f[i - 1] \o q[i].data]
           F == CHOOSE f : IsIt(f)
           h == [i \in 0 .. 1 |-> IF i = 0 THEN <<>> ELSE d]
<1>1. Len(q) = 1 /\ q[1].data = d
    BY BucketsAre, OneElement
<1>2. <<>> \o d = d
    BY ConcatEmptyToo
<1>3. IsIt(h)
    <2>1. ASSUME NEW i \in 0 .. 1
          PROVE  h[i] = IF i = 0 THEN <<>> ELSE h[i - 1] \o q[i].data
        <3>1. CASE i = 0
            BY <3>1
        <3>2. CASE i = 1
            <4>1. h[0] = <<>> /\ h[1] = d /\ i - 1 = 0
                BY <3>2
            <4>2. QED BY <1>1, <1>2, <3>2, <4>1
        <3>3. QED BY <3>1, <3>2
    <2>2. QED BY <1>1, <2>1
<1>4. IsIt(F)
    <2> HIDE DEF IsIt, h
    <2>1. QED BY <1>3
<1>5. Spread(q, LAMBDA b : b.data) = F[Len(q)]
    BY DEF Spread
<1> HIDE DEF F
<1>6. F[0] = <<>> /\ F[1] = F[0] \o d
    <2>1. \A i \in 0 .. 1 : F[i] = IF i = 0 THEN <<>> ELSE F[i - 1] \o q[i].data
        BY <1>1, <1>4
    <2> HIDE DEF IsIt, h
    <2>2. 0 \in 0 .. 1 /\ 1 \in 0 .. 1 /\ 1 - 1 = 0
        OBVIOUS
    <2>3. F[0] = IF 0 = 0 THEN <<>> ELSE F[0 - 1] \o q[0].data
        BY <2>1, <2>2
    <2>4. F[1] = IF 1 = 0 THEN <<>> ELSE F[1 - 1] \o q[1].data
        BY <2>1, <2>2
    <2>5. F[1] = F[1 - 1] \o q[1].data
        BY <2>4
    <2>6. QED BY <1>1, <2>2, <2>3, <2>5
<1>7. QED BY <1>1, <1>2, <1>5, <1>6

LEMMA TakenOut ==
    ASSUME NEW d, d \in Seq(Octets), NEW q, q = <<Data(d), Eos, Eos>>
    PROVE  Spread(SubSeq(q, 1, 2 - 1), LAMBDA b : b.data) = d
<1>1. SubSeq(q, 1, 2 - 1) = <<Data(d)>>
    <2>1. q \in Seq(Buckets) /\ Len(q) = 3 /\ q[1] = Data(d) /\ <<Data(d)>> \in Seq(Buckets)
          /\ Len(<<Data(d)>>) = 1 /\ <<Data(d)>>[1] = Data(d)
        BY BucketsAre, ThreeElements, OneElement
    <2> DEFINE x == SubSeq(q, 1, 1)
               y == <<Data(d)>>
    <2>2. 1 \in 1 .. Len(q) /\ 1 \in 1 .. Len(q) /\ 1 - 1 + 1 = 1 /\ 1 + 1 - 1 = 1 /\ 2 - 1 = 1
        BY <2>1
    <2>3. x \in Seq(Buckets) /\ Len(x) = 1 - 1 + 1 /\ \A i \in 1 .. 1 - 1 + 1 : x[i] = q[1 + i - 1]
        BY <2>1, <2>2, SubSeqIs
    <2> HIDE DEF x, y
    <2>4. Len(x) = 1 /\ x[1] = q[1]
        BY <2>2, <2>3
    <2>5. x = y
        BY <2>1, <2>3, <2>4 DEF y
    <2>6. QED BY <2>2, <2>5 DEF x, y
<1>2. QED BY <1>1, SpreadOne


\* Without the filter the handler sees the brigade of the filters below.
LEMMA TakenAsItIs ==
    ASSUME NEW d, d \in Seq(Octets)
    PROVE  /\ SelectInSeq(<<Eos>>, LAMBDA b : b.eos) = 1
           /\ Spread(SubSeq(<<Eos>>, 1, 1 - 1), LAMBDA b : b.data) = <<>>
           /\ SelectInSeq(<<Data(d)>>, LAMBDA b : b.eos) = 0
           /\ Spread(<<Data(d)>>, LAMBDA b : b.data) = d
           /\ SelectInSeq(<<Data(d), Eos>>, LAMBDA b : b.eos) = 2
           /\ Spread(SubSeq(<<Data(d), Eos>>, 1, 2 - 1), LAMBDA b : b.data) = d
<1>1. SelectInSeq(<<Eos>>, LAMBDA b : b.eos) = 1
    <2> DEFINE q == <<Eos>>
               T == {i \in 1 .. Len(q) : q[i].eos}
    <2>1. Len(q) = 1 /\ q[1].eos
        BY BucketsAre, OneElement
    <2>2. T = {1}
        BY <2>1
    <2>3. T \in SUBSET Nat /\ 1 \in T /\ \A k \in T : 1 <= k
        BY <2>2
    <2>4. SelectInSeq(q, LAMBDA b : b.eos) = IF T # {} THEN Min(T) ELSE 0
        BY DEF SelectInSeq
    <2> HIDE DEF T, q
    <2>5. Min(T) = 1 /\ T # {}
        BY <2>3, LeastIs
    <2>6. QED BY <2>4, <2>5 DEF q
<1>2. Spread(SubSeq(<<Eos>>, 1, 1 - 1), LAMBDA b : b.data) = <<>>
    <2> DEFINE q == <<>>
               IsIt(f) == f = [i \in 0 .. Len(q) |-> IF i = 0 THEN <<>> ELSE f[i - 1] \o q[i].data]
               F == CHOOSE f : IsIt(f)
               h == [i \in 0 .. 0 |-> <<>>]
    <2>1. SubSeq(<<Eos>>, 1, 1 - 1) = q
        <3> DEFINE x == <<Eos>>
        <3>0. Eos \in Buckets
            BY BucketsAre
        <3>1. x \in Seq(Buckets)
            BY <3>0, OneElement
        <3> HIDE DEF x
        <3>2. SubSeq(x, 1, 0) = <<>> /\ 1 - 1 = 0
            BY <3>1, WholeSubSeq
        <3>3. QED BY <3>2 DEF x
    <2>2. IsIt(h)
        <3>1. 0 .. Len(q) = 0 .. 0 /\ \A i \in 0 .. 0 : i = 0
            OBVIOUS
        <3>2. QED BY <3>1
    <2>3. IsIt(F)
        <3> HIDE DEF IsIt, h
        <3>1. QED BY <2>2
    <2>4. Spread(q, LAMBDA b : b.data) = F[Len(q)]
        BY DEF Spread
    <2> HIDE DEF F
    <2>5. F[0] = <<>>
        BY <2>3
    <2>6. QED BY <2>1, <2>4, <2>5
<1>3. SelectInSeq(<<Data(d)>>, LAMBDA b : b.eos) = 0
    <2> DEFINE q == <<Data(d)>>
               T == {i \in 1 .. Len(q) : q[i].eos}
    <2>1. Len(q) = 1 /\ ~q[1].eos
        BY BucketsAre, OneElement
    <2>2. T = {}
        BY <2>1
    <2>3. SelectInSeq(q, LAMBDA b : b.eos) = IF T # {} THEN Min(T) ELSE 0
        BY DEF SelectInSeq
    <2> HIDE DEF T, q
    <2>4. QED BY <2>2, <2>3 DEF q
<1>4. Spread(<<Data(d)>>, LAMBDA b : b.data) = d
    BY SpreadOne
<1>5. SelectInSeq(<<Data(d), Eos>>, LAMBDA b : b.eos) = 2
    <2> DEFINE q == <<Data(d), Eos>>
               T == {i \in 1 .. Len(q) : q[i].eos}
    <2>1. Len(q) = 2 /\ ~q[1].eos /\ q[2].eos
        BY BucketsAre, TwoElements
    <2>2. T = {2}
        BY <2>1
    <2>3. T \in SUBSET Nat /\ 2 \in T /\ \A k \in T : 2 <= k
        BY <2>2
    <2>4. SelectInSeq(q, LAMBDA b : b.eos) = IF T # {} THEN Min(T) ELSE 0
        BY DEF SelectInSeq
    <2> HIDE DEF T, q
    <2>5. Min(T) = 2 /\ T # {}
        BY <2>3, LeastIs
    <2>6. QED BY <2>4, <2>5 DEF q
<1>6. Spread(SubSeq(<<Data(d), Eos>>, 1, 2 - 1), LAMBDA b : b.data) = d
    <2> DEFINE q == <<Data(d), Eos>>
               x == SubSeq(q, 1, 1)
               y == <<Data(d)>>
    <2>1. q \in Seq(Buckets) /\ Len(q) = 2 /\ q[1] = Data(d) /\ y \in Seq(Buckets)
          /\ Len(y) = 1 /\ y[1] = Data(d)
        BY BucketsAre, TwoElements, OneElement
    <2>2. 1 \in 1 .. Len(q) /\ 1 - 1 + 1 = 1 /\ 1 + 1 - 1 = 1 /\ 2 - 1 = 1
        BY <2>1
    <2>3. x \in Seq(Buckets) /\ Len(x) = 1 - 1 + 1 /\ \A i \in 1 .. 1 - 1 + 1 : x[i] = q[1 + i - 1]
        BY <2>1, <2>2, SubSeqIs
    <2> HIDE DEF x, y, q
    <2>4. Len(x) = 1 /\ x[1] = q[1]
        BY <2>2, <2>3
    <2>5. x = y
        BY <2>1, <2>3, <2>4 DEF y
    <2>6. QED BY <2>2, <2>5, SpreadOne DEF x, y, q
<1>7. QED BY <1>1, <1>2, <1>3, <1>4, <1>5, <1>6

\* What a body is while its request lasts.
LEMMA BodyIs ==
    ASSUME text \in Seq(Characters)
    PROVE  body \in Seq(Octets) /\ Len(body) \in Nat /\ SubSeq(body, 1, 0) = <<>>
           /\ SubSeq(body, 1, Len(body)) = body
<1>1. body \in Seq(Octets)
    BY BodyType DEF body
<1>2. QED BY <1>1, WholeSubSeq

\* The converted body is of bytes, and for the whole body what the text is converted to.
LEMMA BodyComesOut ==
    ASSUME text \in Seq(Characters), NEW s, s \in Seq(Octets)
    PROVE  /\ Encoded(translate(Decoded(s))) \in Seq(Octets)
           /\ s = body => Encoded(translate(Decoded(s))) = ConvertedText(text)
BY EncodedType, BodyConverted DEF body

LEMMA BodyInit ==
    ASSUME InInit
    PROVE  BodyInv
<1>1. text \in Seq(Characters)
    BY DEF InInit
<1>2. body \in Seq(Octets) /\ Len(body) \in Nat
    BY <1>1, BodyIs
<1>3. BodyTypes
    <2>1. filtered \in BOOLEAN /\ lost \in BOOLEAN
        BY DEF InInit
    <2>2. sent \in 0 .. Len(body) /\ pstream \in Seq(Octets) /\ taken \in Seq(Octets) /\ ipc = "none"
        BY <1>2 DEF InInit
    <2>3. QED BY <1>1, <2>1, <2>2 DEF BodyTypes
<1>4. ipc = "none" /\ sent = 0 /\ taken = <<>> /\ pstream = <<>> /\ ~lost /\ filtered /\ outcome = "none"
    BY DEF InInit
<1>5. BodyStart
    BY <1>4 DEF BodyStart
<1>6. BodyRead /\ BodyThrough
    BY <1>4 DEF BodyRead, BodyThrough
<1>7. QED BY <1>3, <1>5, <1>6 DEF BodyInv

LEMMA PostStep ==
    ASSUME BodyInv, Post
    PROVE  BodyInv'
<1>1. text' \in Seq(Characters) /\ filtered' \in BOOLEAN /\ ipc = "none" /\ ipc' = "idle"
    BY TextsAssumption DEF Post
<1>2. body' \in Seq(Octets) /\ Len(body') \in Nat /\ SubSeq(body', 1, 0) = <<>>
    <2>1. BytesOf(text') \in Seq(Octets)
        BY <1>1, BodyType
    <2>2. QED BY <2>1, WholeSubSeq DEF body
<1>3. sent = 0 /\ taken = <<>> /\ outcome = "none" /\ pstream = <<>> /\ ~lost
    BY <1>1 DEF BodyInv, BodyStart
<1>4. UNCHANGED <<sent, pstream, lost, taken, outcome>>
    BY DEF Post
<1>5. lost \in BOOLEAN /\ pstream \in Seq(Octets) /\ taken \in Seq(Octets)
    BY DEF BodyInv, BodyTypes
<1>6. BodyTypes'
    BY <1>1, <1>2, <1>3, <1>4, <1>5 DEF BodyTypes
<1>7. BodyStart'
    BY <1>1, <1>2, <1>3, <1>4 DEF BodyStart
<1>8. BodyRead' /\ BodyThrough'
    BY <1>1 DEF BodyRead, BodyThrough
<1>9. QED BY <1>6, <1>7, <1>8 DEF BodyInv

LEMMA BodyStutters ==
    ASSUME BodyInv, UNCHANGED inVars
    PROVE  BodyInv'
<1>1. BodyTypes'
    BY DEF BodyInv, BodyTypes, inVars, body
<1>2. BodyStart'
    BY DEF BodyInv, BodyStart, inVars, body
<1>3. BodyRead'
    BY DEF BodyInv, BodyRead, Held, inVars, body
<1>4. BodyThrough'
    BY DEF BodyInv, BodyThrough, inVars, body
<1>5. QED BY <1>1, <1>2, <1>3, <1>4 DEF BodyInv

LEMMA HandlerCallsStep ==
    ASSUME BodyInv, HandlerCalls
    PROVE  BodyInv'
<1>1. body' = body /\ SubSeq(body, 1, 0) = <<>> /\ <<>> \in Seq(Octets)
    BY BodyIs DEF body, HandlerCalls, BodyInv, BodyTypes
<1>2. /\ UNCHANGED <<text, filtered, sent, lost, taken, outcome>>
      /\ ipc = "idle" /\ ipc' = "get" /\ pstream' = <<>>
    BY DEF HandlerCalls
<1>3. ~lost => IF filtered THEN sent = 0 ELSE taken = SubSeq(body, 1, sent)
    BY <1>2 DEF BodyInv, BodyStart
<1>4. BodyTypes'
    BY <1>1, <1>2 DEF BodyTypes, BodyInv
<1>5. BodyStart'
    BY <1>1, <1>2 DEF BodyStart, BodyInv
<1>6. BodyRead'
    BY <1>1, <1>2, <1>3 DEF BodyRead, Held
<1>7. BodyThrough'
    BY <1>2 DEF BodyThrough
<1>8. QED BY <1>4, <1>5, <1>6, <1>7 DEF BodyInv

LEMMA ReadBelowStep ==
    ASSUME BodyInv, NEW n \in 1 .. Len(body), NEW end \in BOOLEAN, ReadBelow(n, end)
    PROVE  BodyInv'
<1> DEFINE d == SubSeq(body, sent + 1, sent + n)
<1>0. body \in Seq(Octets) /\ Len(body) \in Nat /\ sent \in Nat /\ n \in Nat \ {0} /\ sent + n <= Len(body)
      /\ ipc = "get" /\ body' = body
    <2>1. text \in Seq(Characters) /\ sent \in 0 .. Len(body)
        BY DEF BodyInv, BodyTypes
    <2>2. body \in Seq(Octets) /\ Len(body) \in Nat
        BY <2>1, BodyIs
    <2>3. ipc = "get" /\ sent + n <= Len(body) /\ text' = text
        BY DEF ReadBelow
    <2>4. body' = body
        BY <2>3 DEF body
    <2>5. sent \in Nat /\ n \in Nat \ {0}
        BY <2>1, <2>2
    <2>6. QED BY <2>2, <2>3, <2>4, <2>5
<1>1. d \in Seq(Octets) /\ SubSeq(body, 1, sent) \o d = SubSeq(body, 1, sent + n)
    BY <1>0, SubSeqStep
<1>2. ~lost => Held = SubSeq(body, 1, sent)
    BY <1>0 DEF BodyInv, BodyRead
<1>3. bb' = IF end THEN <<Data(d), Eos>> ELSE <<Data(d)>>
    <2>1. bb' = <<Data(d)>> \o (IF end THEN <<Eos>> ELSE <<>>)
        BY DEF ReadBelow
    <2> HIDE DEF d
    <2>2. QED BY <1>1, <2>1, BrigadesAre
<1>4. end => sent' = Len(body)
    BY DEF ReadBelow
<1>5. UNCHANGED <<text, filtered, pstream, lost, taken, outcome>> /\ Held' = Held /\ sent' = sent + n /\ ipc' = "buckets"
    BY DEF ReadBelow, Held
<1>6. <<Data(d), Eos>> # <<Data(d)>>
    <2> HIDE DEF d
    <2>1. QED BY <1>1, BrigadesAre
<1> HIDE DEF d
<1>7. BodyTypes'
    BY <1>0, <1>5 DEF BodyTypes, BodyInv
<1>8. BodyStart' /\ BodyThrough'
    BY <1>0, <1>5 DEF BodyStart, BodyThrough, BodyInv
<1>9. BodyRead'
    <2>1. ~lost => Held \o d = SubSeq(body, 1, sent')
        BY <1>1, <1>2, <1>5
    <2>2. bb' \in {<<Data(d)>>, <<Data(d), Eos>>} /\ (bb' = <<Data(d), Eos>> => sent' = Len(body))
        BY <1>3, <1>4, <1>6
    <2>3. QED BY <1>0, <1>1, <1>5, <2>1, <2>2 DEF BodyRead
<1>10. QED BY <1>7, <1>8, <1>9 DEF BodyInv

LEMMA ReadEndStep ==
    ASSUME BodyInv, ReadEnd
    PROVE  BodyInv'
<1>1. body' = body /\ Held' = Held
    BY DEF ReadEnd, body, Held
<1>2. BodyTypes'
    BY <1>1 DEF BodyTypes, BodyInv, ReadEnd
<1>3. BodyStart' /\ BodyThrough'
    BY DEF BodyStart, BodyThrough, BodyInv, ReadEnd
<1>4. BodyRead'
    BY <1>1 DEF BodyRead, BodyInv, ReadEnd
<1>5. QED BY <1>2, <1>3, <1>4 DEF BodyInv

LEMMA ReturnStep ==
    ASSUME BodyInv, ipc = "get", Return
    PROVE  BodyInv'
<1>0. body' = body /\ body \in Seq(Octets) /\ Len(body) \in Nat /\ sent \in 0 .. Len(body)
      /\ <<>> \in Seq(Octets)
    BY BodyIs DEF body, Return, BodyInv, BodyTypes
<1>1. /\ UNCHANGED <<text, filtered, sent, taken, outcome>> /\ ipc' = "error" /\ pstream' = <<>>
      /\ lost' = (lost \/ pstream # <<>>)
    BY DEF Return
<1>4. ~filtered => pstream = <<>> /\ ~lost
    BY DEF BodyInv, BodyStart
<1>5. BodyTypes'
    BY <1>0, <1>1 DEF BodyTypes, BodyInv
<1>2. ~lost' => IF filtered THEN sent = 0 ELSE taken = SubSeq(body, 1, sent)
    <2>0. CASE ~filtered
        BY <2>0, <1>4 DEF BodyInv, BodyRead, Held
    <2>1. SUFFICES ASSUME ~lost', filtered PROVE sent = 0
        BY <2>0
    <2>2. ~lost /\ pstream = <<>> /\ pstream = SubSeq(body, 1, sent)
        BY <1>1, <2>1 DEF BodyInv, BodyRead, Held
    <2>3. CASE sent # 0
        <3>1. 1 \in 1 .. Len(body) /\ sent \in 1 .. Len(body)
            BY <1>0, <2>3
        <3>2. Len(SubSeq(body, 1, sent)) = sent - 1 + 1
            BY <1>0, <3>1, SubSeqIs
        <3>3. QED BY <1>0, <2>2, <2>3, <3>2
    <2>4. QED BY <2>3
<1>6. BodyStart'
    BY <1>0, <1>1, <1>2, <1>4 DEF BodyStart, BodyInv
<1>7. BodyRead' /\ BodyThrough'
    BY <1>1 DEF BodyRead, BodyThrough
<1>8. QED BY <1>5, <1>6, <1>7 DEF BodyInv


LEMMA TakeBucketStep ==
    ASSUME BodyInv, TakeBucket
    PROVE  BodyInv'
<1>0. /\ body' = body /\ body \in Seq(Octets) /\ Len(body) \in Nat /\ sent \in Nat /\ pstream \in Seq(Octets)
      /\ SubSeq(body, 1, Len(body)) = body /\ <<Eos>> # <<>> /\ Head(<<Eos>>).eos
    <2>1. text \in Seq(Characters) /\ sent \in 0 .. Len(body) /\ pstream \in Seq(Octets)
        BY DEF BodyInv, BodyTypes
    <2>2. body \in Seq(Octets) /\ Len(body) \in Nat /\ SubSeq(body, 1, Len(body)) = body
        BY <2>1, BodyIs
    <2>3. body' = body
        BY DEF body, TakeBucket
    <2>4. <<>> \in Seq(Octets)
        OBVIOUS
    <2>5. <<Eos>> # <<>> /\ Head(<<Eos>>).eos
        BY <2>4, BrigadesAre
    <2>6. sent \in Nat
        BY <2>1, <2>2
    <2>7. QED BY <2>1, <2>2, <2>3, <2>5, <2>6
<1>1. UNCHANGED <<text, filtered, sent, lost, taken, outcome>> /\ ipc = "buckets" /\ filtered
      /\ Held = pstream /\ Held' = pstream'
    BY DEF TakeBucket, Held
<1>2. CASE bb = <<>>
    <2>1. ipc' = "get" /\ UNCHANGED <<pstream, bb>>
        BY <1>2 DEF TakeBucket
    <2>2. ~lost => pstream = SubSeq(body, 1, sent)
        <3>1. ASSUME NEW d \in Seq(Octets), bb \in {<<Data(d)>>, <<Data(d), Eos>>} PROVE FALSE
            BY <1>2, <3>1, BrigadesAre
        <3>2. bb \notin {<<Eos>>}
            BY <1>0, <1>2
        <3>3. QED BY <1>1, <3>1, <3>2 DEF BodyInv, BodyRead
    <2>3. BodyTypes'
        BY <1>0, <1>1, <2>1 DEF BodyTypes, BodyInv
    <2>4. BodyStart' /\ BodyThrough'
        BY <1>1, <2>1 DEF BodyStart, BodyThrough, BodyInv
    <2>5. BodyRead'
        BY <1>0, <1>1, <2>1, <2>2 DEF BodyRead
    <2>6. QED BY <2>3, <2>4, <2>5 DEF BodyInv
<1>3. CASE bb = <<Eos>>
    <2>1. ipc' = "convert" /\ UNCHANGED <<pstream, bb>>
        BY <1>0, <1>3 DEF TakeBucket
    <2>2. ~lost => pstream = body
        <3>1. ASSUME NEW d \in Seq(Octets), bb \in {<<Data(d)>>, <<Data(d), Eos>>} PROVE FALSE
            <4>1. ~Head(bb).eos
                BY <3>1, BrigadesAre
            <4>2. QED BY <1>0, <1>3, <4>1
        <3>2. sent = Len(body) /\ (~lost => pstream = SubSeq(body, 1, sent))
            BY <1>1, <1>3, <3>1 DEF BodyInv, BodyRead
        <3>3. QED BY <1>0, <3>2
    <2>3. BodyTypes'
        BY <1>0, <1>1, <2>1 DEF BodyTypes, BodyInv
    <2>4. BodyStart' /\ BodyRead'
        BY <1>1, <2>1 DEF BodyStart, BodyRead, BodyInv
    <2>5. BodyThrough'
        BY <1>0, <1>1, <1>3, <2>1, <2>2 DEF BodyThrough
    <2>6. QED BY <2>3, <2>4, <2>5 DEF BodyInv
<1>4. ASSUME NEW d \in Seq(Octets), bb \in {<<Data(d)>>, <<Data(d), Eos>>},
             bb = <<Data(d), Eos>> => sent = Len(body),
             ~lost => pstream \o d = SubSeq(body, 1, sent)
      PROVE  BodyInv'
    <2>1. bb # <<>> /\ ~Head(bb).eos /\ Head(bb).data = d
        BY <1>4, BrigadesAre
    <2>2. pstream' = pstream \o d /\ bb' = Tail(bb) /\ ipc' = ipc
        BY <2>1 DEF TakeBucket
    <2>3. bb' \in {<<>>, <<Eos>>} /\ (bb' = <<Eos>> => sent = Len(body))
        <3>1. CASE bb = <<Data(d)>>
            <4>1. bb' = <<>>
                BY <2>2, <3>1, BrigadesAre
            <4>2. QED BY <1>0, <4>1
        <3>2. CASE bb = <<Data(d), Eos>>
            <4>1. bb' = <<Eos>>
                BY <2>2, <3>2, BrigadesAre
            <4>2. QED BY <1>4, <3>2, <4>1
        <3>3. QED BY <1>4, <3>1, <3>2
    <2>4. pstream \o d \in Seq(Octets)
        BY <1>0
    <2>5. BodyTypes'
        BY <1>0, <1>1, <2>2, <2>4 DEF BodyTypes, BodyInv
    <2>6. BodyStart' /\ BodyThrough'
        BY <1>1, <2>2 DEF BodyStart, BodyThrough, BodyInv
    <2>7. BodyRead'
        BY <1>0, <1>1, <1>4, <2>2, <2>3 DEF BodyRead
    <2>8. QED BY <2>5, <2>6, <2>7 DEF BodyInv
<1>5. QED BY <1>1, <1>2, <1>3, <1>4 DEF BodyInv, BodyRead

LEMMA BucketFailsStep ==
    ASSUME BodyInv, BucketFails
    PROVE  BodyInv'
<1>1. /\ body' = body /\ UNCHANGED <<text, filtered, sent, taken, outcome>> /\ filtered /\ <<>> \in Seq(Octets)
      /\ ipc = "buckets" /\ ipc' = "error" /\ lost' = TRUE /\ pstream' = <<>>
    BY DEF BucketFails, body
<1>2. BodyTypes'
    BY <1>1 DEF BodyTypes, BodyInv
<1>3. BodyStart' /\ BodyRead' /\ BodyThrough'
    BY <1>1 DEF BodyStart, BodyRead, BodyThrough, BodyInv
<1>4. QED BY <1>2, <1>3 DEF BodyInv

LEMMA ConvertBodyStep ==
    ASSUME BodyInv, ConvertBody
    PROVE  BodyInv'
<1> DEFINE d == Encoded(translate(Decoded(pstream)))
<1>0. body' = body /\ text' = text /\ text \in Seq(Characters) /\ pstream \in Seq(Octets)
    BY DEF body, ConvertBody, BodyInv, BodyTypes
<1>1. d \in Seq(Octets) /\ (pstream = body => d = ConvertedText(text))
    BY <1>0, BodyComesOut
<1>2. bb = <<Eos>> /\ (~lost => pstream = body)
    BY DEF BodyInv, BodyThrough, ConvertBody
<1>3. bb' = <<Data(d)>> \o bb
    BY DEF ConvertBody
<1>4. UNCHANGED <<text, filtered, sent, pstream, lost, taken, outcome>> /\ ipc = "convert" /\ ipc' = "ask"
      /\ filtered
    BY DEF ConvertBody, BodyInv, BodyStart, BodyTypes
<1> HIDE DEF d
<1>5. bb' = <<Data(d), Eos>>
    BY <1>1, <1>2, <1>3, BrigadesAre
<1>6. BodyTypes'
    BY <1>0, <1>4 DEF BodyTypes, BodyInv
<1>7. BodyStart' /\ BodyRead'
    BY <1>4 DEF BodyStart, BodyRead, BodyInv
<1>8. BodyThrough'
    <2>1. ~lost => d = ConvertedText(text)
        BY <1>1, <1>2
    <2>2. ConvertedText(text') = ConvertedText(text)
        BY <1>0
    <2>3. QED BY <1>1, <1>4, <1>5, <2>1, <2>2 DEF BodyThrough
<1>9. QED BY <1>6, <1>7, <1>8 DEF BodyInv

LEMMA AskAgainStep ==
    ASSUME BodyInv, NEW fails \in BOOLEAN, AskAgain(fails)
    PROVE  BodyInv'
<1>0. body' = body /\ UNCHANGED <<text, filtered, sent, pstream, taken, outcome>> /\ ipc = "ask" /\ filtered
    BY DEF body, AskAgain, BodyInv, BodyStart, BodyTypes
<1>1. CASE fails
    <2>1. ipc' = "error" /\ lost' = TRUE
        BY <1>1 DEF AskAgain
    <2>2. BodyTypes'
        BY <1>0, <2>1 DEF BodyTypes, BodyInv
    <2>3. BodyStart' /\ BodyRead' /\ BodyThrough'
        BY <1>0, <2>1 DEF BodyStart, BodyRead, BodyThrough, BodyInv
    <2>4. QED BY <2>2, <2>3 DEF BodyInv
<1>2. CASE ~fails
    <2>1. ipc' = "back" /\ lost' = lost /\ bb' = Append(bb, Eos)
        BY <1>2 DEF AskAgain
    <2>2. PICK d \in Seq(Octets) : bb = <<Data(d), Eos>> /\ (~lost => d = ConvertedText(text))
        BY <1>0 DEF BodyInv, BodyThrough
    <2>3. bb' = <<Data(d), Eos, Eos>>
        BY <2>1, <2>2, BrigadesAre
    <2>4. BodyTypes'
        BY <1>0, <2>1 DEF BodyTypes, BodyInv
    <2>5. BodyStart' /\ BodyRead'
        BY <1>0, <2>1 DEF BodyStart, BodyRead, BodyInv
    <2>6. BodyThrough'
        <3>1. ConvertedText(text') = ConvertedText(text)
            BY <1>0
        <3>2. QED BY <2>1, <2>2, <2>3, <3>1 DEF BodyThrough
    <2>7. QED BY <2>4, <2>5, <2>6 DEF BodyInv
<1>3. QED BY <1>1, <1>2

\* What the handler does with a brigade in which the end is at e, if any.
Taking(e, got) ==
    /\ taken' = taken \o got
    /\ (e > 0 => ipc' = "done" /\ outcome' = "ok") /\ (e = 0 => ipc' = "idle" /\ outcome' = outcome)

LEMMA TakingIs ==
    ASSUME HandlerTakes, NEW e \in Nat, SelectInSeq(bb, LAMBDA b : b.eos) = e
    PROVE  /\ e > 0 => Taking(e, Spread(SubSeq(bb, 1, e - 1), LAMBDA b : b.data))
           /\ e = 0 => Taking(e, Spread(bb, LAMBDA b : b.data))
<1> DEFINE end == SelectInSeq(bb, LAMBDA b : b.eos)
<1>1. IF end > 0
      THEN taken' = taken \o Spread(SubSeq(bb, 1, end - 1), LAMBDA b : b.data) /\ ipc' = "done" /\ outcome' = "ok"
      ELSE taken' = taken \o Spread(bb, LAMBDA b : b.data) /\ ipc' = "idle" /\ outcome' = outcome
    BY DEF HandlerTakes
<1>2. end = e
    OBVIOUS
<1> HIDE DEF end
<1>3. IF e > 0
      THEN taken' = taken \o Spread(SubSeq(bb, 1, e - 1), LAMBDA b : b.data) /\ ipc' = "done" /\ outcome' = "ok"
      ELSE taken' = taken \o Spread(bb, LAMBDA b : b.data) /\ ipc' = "idle" /\ outcome' = outcome
    BY <1>1, <1>2
<1> DEFINE x == Spread(SubSeq(bb, 1, e - 1), LAMBDA b : b.data)
           y == Spread(bb, LAMBDA b : b.data)
<1> HIDE DEF x, y
<1>4. IF e > 0 THEN taken' = taken \o x /\ ipc' = "done" /\ outcome' = "ok"
      ELSE taken' = taken \o y /\ ipc' = "idle" /\ outcome' = outcome
    BY <1>3 DEF x, y
<1>5. (e > 0 => Taking(e, x)) /\ (e = 0 => Taking(e, y))
    BY <1>4 DEF Taking
<1>6. QED BY <1>5 DEF x, y

LEMMA HandlerTakesStep ==
    ASSUME BodyInv, HandlerTakes
    PROVE  BodyInv'
<1>0. /\ body' = body /\ UNCHANGED <<text, filtered, sent, pstream, bb, lost>>
      /\ ipc = IF filtered THEN "back" ELSE "buckets"
    BY DEF body, HandlerTakes
<1>1. text \in Seq(Characters) /\ taken \in Seq(Octets) /\ <<>> \in Seq(Octets) /\ outcome = "none"
      /\ filtered \in BOOLEAN
    BY <1>0 DEF BodyInv, BodyTypes, BodyStart
<1>2. CASE filtered
    <2>1. PICK d \in Seq(Octets) : bb = <<Data(d), Eos, Eos>> /\ (~lost => d = ConvertedText(text))
        BY <1>0, <1>2 DEF BodyInv, BodyThrough
    <2>2. SelectInSeq(bb, LAMBDA b : b.eos) = 2
        BY <2>1, FirstEnd
    <2>3. Spread(SubSeq(bb, 1, 2 - 1), LAMBDA b : b.data) = d
        BY <2>1, TakenOut
    <2>4. Taking(2, d)
        BY <2>2, <2>3, TakingIs
    <2>5. taken = <<>>
        BY <1>0, <1>2 DEF BodyInv, BodyStart
    <2>6. taken' = d /\ ipc' = "done" /\ outcome' = "ok"
        <3>1. taken' = <<>> \o d
            BY <2>4, <2>5 DEF Taking
        <3>2. QED BY <2>4, <3>1, ConcatEmptyToo DEF Taking
    <2>7. BodyTypes'
        BY <1>0, <2>6 DEF BodyTypes, BodyInv
    <2>8. BodyStart' /\ BodyRead'
        BY <1>0, <1>2, <2>6 DEF BodyStart, BodyRead
    <2>9. BodyThrough'
        <3>1. ConvertedText(text') = ConvertedText(text)
            BY <1>0
        <3>2. QED BY <1>0, <1>2, <2>1, <2>6, <3>1 DEF BodyThrough
    <2>10. QED BY <2>7, <2>8, <2>9 DEF BodyInv
<1>3. CASE ~filtered
    <2>1. /\ Held = taken /\ ~lost /\ pstream = <<>> /\ ipc = "buckets"
          /\ body \in Seq(Octets) /\ SubSeq(body, 1, Len(body)) = body
        <3>1. Held = taken /\ ~lost /\ pstream = <<>> /\ ipc = "buckets"
            BY <1>0, <1>3 DEF BodyInv, BodyStart, Held
        <3>2. QED BY <1>1, <3>1, BodyIs
    <2>2. \/ ipc' = "done" /\ outcome' = "ok" /\ taken' = body
          \/ ipc' = "idle" /\ outcome' = "none" /\ taken' = SubSeq(body, 1, sent) /\ taken' \in Seq(Octets)
        <3>1. CASE bb = <<Eos>> /\ sent = Len(body) /\ taken = SubSeq(body, 1, sent)
            <4>1. /\ SelectInSeq(bb, LAMBDA b : b.eos) = 1
                  /\ Spread(SubSeq(bb, 1, 1 - 1), LAMBDA b : b.data) = <<>>
                BY <1>1, <3>1, TakenAsItIs
            <4>2. Taking(1, <<>>)
                BY <4>1, TakingIs
            <4>3. QED BY <1>1, <2>1, <3>1, <4>2 DEF Taking
        <3>2. ASSUME NEW d \in Seq(Octets), bb \in {<<Data(d)>>, <<Data(d), Eos>>},
                     bb = <<Data(d), Eos>> => sent = Len(body), taken \o d = SubSeq(body, 1, sent)
              PROVE  \/ ipc' = "done" /\ outcome' = "ok" /\ taken' = body
                     \/ /\ ipc' = "idle" /\ outcome' = "none"
                        /\ taken' = SubSeq(body, 1, sent) /\ taken' \in Seq(Octets)
            <4>1. CASE bb = <<Data(d)>>
                <5>1. SelectInSeq(bb, LAMBDA b : b.eos) = 0 /\ Spread(bb, LAMBDA b : b.data) = d
                    BY <4>1, TakenAsItIs
                <5>2. Taking(0, d)
                    BY <5>1, TakingIs
                <5>3. taken \o d \in Seq(Octets)
                    BY <1>1
                <5>4. QED BY <1>1, <3>2, <5>2, <5>3 DEF Taking
            <4>2. CASE bb = <<Data(d), Eos>>
                <5>1. /\ SelectInSeq(bb, LAMBDA b : b.eos) = 2
                      /\ Spread(SubSeq(bb, 1, 2 - 1), LAMBDA b : b.data) = d
                    BY <4>2, TakenAsItIs
                <5>2. Taking(2, d)
                    BY <5>1, TakingIs
                <5>3. QED BY <2>1, <3>2, <4>2, <5>2 DEF Taking
            <4>3. QED BY <3>2, <4>1, <4>2
        <3>3. \/ bb = <<Eos>> /\ sent = Len(body) /\ taken = SubSeq(body, 1, sent)
              \/ \E d \in Seq(Octets) :
                    /\ bb \in {<<Data(d)>>, <<Data(d), Eos>>} /\ (bb = <<Data(d), Eos>> => sent = Len(body))
                    /\ taken \o d = SubSeq(body, 1, sent)
            BY <1>3, <2>1 DEF BodyInv, BodyRead
        <3>4. QED BY <3>1, <3>2, <3>3
    <2>3. BodyTypes'
        BY <1>0, <2>1, <2>2 DEF BodyTypes, BodyInv
    <2>4. BodyStart'
        BY <1>0, <1>3, <2>1, <2>2 DEF BodyStart
    <2>5. BodyRead' /\ BodyThrough'
        BY <1>0, <1>3, <2>2 DEF BodyRead, BodyThrough
    <2>6. QED BY <2>3, <2>4, <2>5 DEF BodyInv
<1>4. QED BY <1>1, <1>2, <1>3

LEMMA HandlerFailsStep ==
    ASSUME BodyInv, HandlerFails
    PROVE  BodyInv'
<1>0. body' = body /\ UNCHANGED <<text, filtered, sent, pstream, lost, taken>> /\ ipc = "error"
    BY DEF body, HandlerFails
<1>1. (ipc' = "idle" /\ outcome' = outcome) \/ (ipc' = "done" /\ outcome' = "bad request")
    BY DEF HandlerFails
<1>2. BodyTypes'
    BY <1>0, <1>1 DEF BodyTypes, BodyInv
<1>3. BodyStart' /\ BodyRead' /\ BodyThrough'
    BY <1>0, <1>1 DEF BodyStart, BodyRead, BodyThrough, BodyInv
<1>4. QED BY <1>2, <1>3 DEF BodyInv

LEMMA BodyStep ==
    ASSUME BodyInv, BodyNext
    PROVE  BodyInv'
<1>1. CASE Filter
    BY <1>1, TakeBucketStep, ConvertBodyStep DEF Filter
<1>2. CASE Handler
    BY <1>2, HandlerCallsStep, HandlerTakesStep, HandlerFailsStep DEF Handler
<1>3. CASE Below
    <2>1. CASE \E n \in 1 .. Len(body), end \in BOOLEAN : ReadBelow(n, end)
        BY <2>1, ReadBelowStep
    <2>2. CASE ReadEnd \/ BucketFails
        BY <2>2, ReadEndStep, BucketFailsStep
    <2>3. CASE ReadFails \/ WouldWait
        BY <2>3, ReturnStep DEF ReadFails, WouldWait
    <2>4. CASE \E fails \in BOOLEAN : AskAgain(fails)
        BY <2>4, AskAgainStep
    <2>5. QED BY <1>3, <2>1, <2>2, <2>3, <2>4 DEF Below
<1>4. QED BY <1>1, <1>2, <1>3 DEF BodyNext

LEMMA BrowseStep ==
    ASSUME BodyInv, [BrowseNext]_browseVars
    PROVE  BodyInv'
<1>1. CASE Request \/ Leave \/ ConvertPiece \/ PageDone
    <2>1. UNCHANGED inVars
        BY <1>1 DEF Request, Leave, ConvertPiece, PageDone
    <2>2. QED BY <2>1, BodyStutters
<1>2. CASE Send
    BY <1>2, PostStep DEF Send
<1>3. CASE Body
    BY <1>3, BodyStep DEF Body
<1>4. CASE \E i \in DOMAIN page : Follow(i)
    <2>1. UNCHANGED inVars
        BY <1>4 DEF Follow
    <2>2. QED BY <2>1, BodyStutters
<1>5. CASE UNCHANGED browseVars
    <2>1. UNCHANGED inVars
        BY <1>5 DEF browseVars
    <2>2. QED BY <2>1, BodyStutters
<1>6. QED BY <1>1, <1>2, <1>3, <1>4, <1>5 DEF BrowseNext

\* However the filters below cut the body into buckets and reads, wherever a
\* read would have waited or failed, a handler of mod_proxy that read to the end
\* with no call lost half way has the conversion of the whole body, every
\* character once and in order (fjt_in_filter of mod_fjt.c with translate and
\* UrlEncodeHZ around it), and apiHandler, which reads without that filter, has
\* the body itself.
THEOREM BodyArrives == BrowseSpec => []BodyArrivesOnce
<1>1. BrowseInit => BodyInv
    BY BodyInit DEF BrowseInit
<1>2. BodyInv /\ [BrowseNext]_browseVars => BodyInv'
    BY BrowseStep
<1>3. BodyInv => BodyArrivesOnce
    BY DEF BodyInv, BodyStart, BodyThrough, BodyArrivesOnce
<1>4. QED BY <1>1, <1>2, <1>3, PTL DEF BrowseSpec

-----------------------------------------------------------------------------
(* Places in a sequence, and what lies between them *)

\* Three parts of a sequence, with UpTo and From of UrlPath.
LEMMA CutInThree == \A s \in Seq(STRING) : \A i \in 1 .. Len(s) + 1 : \A j \in i .. Len(s) + 1 :
    /\ UpTo(s, i - 1) \in Seq(STRING) /\ SubSeq(s, i, j - 1) \in Seq(STRING) /\ From(s, j) \in Seq(STRING)
    /\ Len(UpTo(s, i - 1)) = i - 1 /\ Len(From(s, j)) = Len(s) - j + 1
    /\ UpTo(s, i - 1) \o SubSeq(s, i, j - 1) \o From(s, j) = s
<1> SUFFICES ASSUME NEW s \in Seq(STRING), NEW i \in 1 .. Len(s) + 1, NEW j \in i .. Len(s) + 1
             PROVE  /\ UpTo(s, i - 1) \in Seq(STRING) /\ SubSeq(s, i, j - 1) \in Seq(STRING)
                    /\ From(s, j) \in Seq(STRING)
                    /\ Len(UpTo(s, i - 1)) = i - 1 /\ Len(From(s, j)) = Len(s) - j + 1
                    /\ UpTo(s, i - 1) \o SubSeq(s, i, j - 1) \o From(s, j) = s
    OBVIOUS
<1> DEFINE S == STRING
<1> HIDE DEF S
<1> DEFINE n == Len(s) + 1
           a == SubSeq(s, 1, i - 1)
           b == SubSeq(s, i, j - 1)
           d == SubSeq(s, j, n - 1)
           ab == SubSeq(s, 1, j - 1)
<1>0. s \in Seq(S) /\ Len(s) \in Nat /\ n - 1 = Len(s) /\ 1 \in 1 .. Len(s) + 1 /\ n \in j .. Len(s) + 1 /\ i \in 1 .. Len(s) + 1
      /\ j \in 1 .. Len(s) + 1 /\ n \in 1 .. Len(s) + 1
    BY DEF S
<1>1. a \in Seq(S) /\ Len(a) = i - 1
    BY <1>0, Between
<1>2. b \in Seq(S)
    BY <1>0, Between
<1>3. d \in Seq(S) /\ Len(d) = n - j
    <2> HIDE DEF n
    <2>1. QED BY <1>0, Between
<1>4. a \o b = ab
    BY <1>0, CutInTwo
<1>5. ab \o d = SubSeq(s, 1, n - 1)
    <2> HIDE DEF n
    <2>1. QED BY <1>0, CutInTwo
<1>6. SubSeq(s, 1, n - 1) = s
    BY <1>0, WholeSubSeq
<1>7. (a \o b) \o d = s
    BY <1>4, <1>5, <1>6
<1>9. From(s, j) = d /\ UpTo(s, i - 1) = a /\ n - j = Len(s) - j + 1
    BY <1>0 DEF From, UpTo
<1> HIDE DEF a, b, d, ab, n
<1>10. SubSeq(s, i, j - 1) = b
    BY DEF b
<1>11. QED BY <1>1, <1>2, <1>3, <1>7, <1>9, <1>10 DEF S

\* And two.
LEMMA CutAt ==
    ASSUME NEW S, NEW s, s \in Seq(S), NEW i, i \in 0 .. Len(s)
    PROVE  /\ UpTo(s, i) \in Seq(S) /\ From(s, i + 1) \in Seq(S)
           /\ Len(UpTo(s, i)) = i /\ Len(From(s, i + 1)) = Len(s) - i
           /\ UpTo(s, i) \o From(s, i + 1) = s
<1> DEFINE k == i + 1
           n == Len(s) + 1
<1>1. /\ k \in 1 .. Len(s) + 1 /\ n \in k .. Len(s) + 1 /\ k - 1 = i /\ n - 1 = Len(s)
      /\ n - k = Len(s) - i /\ 1 \in 1 .. Len(s) + 1 /\ k \in 1 .. Len(s) + 1 /\ i = k - 1
    OBVIOUS
<1> HIDE DEF k, n
<1>2. SubSeq(s, 1, k - 1) \in Seq(S) /\ Len(SubSeq(s, 1, k - 1)) = k - 1
    BY <1>1, Between
<1>3. SubSeq(s, k, n - 1) \in Seq(S) /\ Len(SubSeq(s, k, n - 1)) = n - k
    BY <1>1, Between
<1>4. SubSeq(s, 1, k - 1) \o SubSeq(s, k, n - 1) = SubSeq(s, 1, n - 1)
    BY <1>1, CutInTwo
<1>5. SubSeq(s, 1, Len(s)) = s
    BY WholeSubSeq
<1>6. UpTo(s, i) = SubSeq(s, 1, k - 1) /\ From(s, k) = SubSeq(s, k, n - 1)
    BY <1>1 DEF UpTo, From
<1>7. From(s, i + 1) = From(s, k)
    BY DEF k
<1>8. QED BY <1>1, <1>2, <1>3, <1>4, <1>5, <1>6, <1>7

-----------------------------------------------------------------------------
(* Parts, and what they stand for *)

\* Parts of which `to' is in U, which may be any set, and is what it should be.
FreeKinds  == {"call", "more", "link", "value", "charset", "mapped", "prefix"}
PartKinds  == FreeKinds \cup {"text", "raw", "skipped", "unset", "dropped"}
ThePart(kind, from, to) == [kind |-> kind, from |-> from, to |-> to]
AnyPart(U) == {p \in [kind : PartKinds, from : Seq(STRING), to : U] : AsItShould(p)}
FromOf(U)  == [p \in AnyPart(U) |-> p.from]

LEMMA PartFits ==
    ASSUME NEW kind, NEW from, NEW to
    PROVE  /\ kind \in FreeKinds => AsItShould(ThePart(kind, from, to))
           /\ AsItShould(ThePart("text", from, Convert(from))) /\ AsItShould(ThePart("raw", from, from))
           /\ dc.urlMap # <<>> => AsItShould(ThePart("skipped", from, to))
           /\ LooksInto(from) => AsItShould(ThePart("unset", from, to)) /\ AsItShould(ThePart("dropped", from, to))
<1>1. ASSUME NEW k, NEW t, k \in FreeKinds PROVE AsItShould(ThePart(k, from, t))
    BY <1>1 DEF AsItShould, ThePart, FreeKinds
<1>2. AsItShould(ThePart("text", from, Convert(from))) /\ AsItShould(ThePart("raw", from, from))
    BY DEF AsItShould, ThePart
<1>3. dc.urlMap # <<>> => AsItShould(ThePart("skipped", from, to))
    BY DEF AsItShould, ThePart
<1>4. LooksInto(from) => AsItShould(ThePart("unset", from, to)) /\ AsItShould(ThePart("dropped", from, to))
    BY DEF AsItShould, ThePart
<1>5. QED BY <1>1, <1>2, <1>3, <1>4

LEMMA FromGives == \A U : Gives(FromOf(U), AnyPart(U), Seq(STRING))
BY DEF Gives, FromOf, AnyPart

LEMMA StandsForIs ==
    ASSUME NEW U, NEW out, out \in Seq(AnyPart(U))
    PROVE  StandsFor(out) = SpreadOf(FromOf(U), out) /\ StandsFor(out) \in Seq(STRING)
<1>1. \A j \in 1 .. Len(out) : FromOf(U)[out[j]] = out[j].from
    BY DEF FromOf
<1>2. Mapped1(FromOf(U), out) = [j \in DOMAIN out |-> out[j].from]
    <2>1. DOMAIN out = 1 .. Len(out)
        OBVIOUS
    <2>2. QED BY <1>1, <2>1 DEF Mapped1
<1>3. StandsFor(out) = SpreadOf(FromOf(U), out)
    BY <1>2 DEF StandsFor, SpreadOf
<1>4. SpreadOf(FromOf(U), out) \in Seq(STRING)
    BY FromGives, SpreadType
<1>5. QED BY <1>3, <1>4

LEMMA Wider ==
    ASSUME NEW U, NEW V, U \subseteq V
    PROVE  AnyPart(U) \subseteq AnyPart(V) /\ Seq(AnyPart(U)) \subseteq Seq(AnyPart(V))
<1>1. AnyPart(U) \subseteq AnyPart(V)
    BY DEF AnyPart
<1>2. QED BY <1>1

\* The parts of out stand for s, and what is written for them is what it should be.
Carries(out, s) == \E U : out \in Seq(AnyPart(U)) /\ StandsFor(out) = s

LEMMA CarriesIn ==
    ASSUME NEW U, NEW out, out \in Seq(AnyPart(U)), NEW s, StandsFor(out) = s
    PROVE  Carries(out, s)
BY DEF Carries

LEMMA CarriesNone == Carries(<<>>, <<>>)
<1>1. <<>> \in Seq(AnyPart({}))
    OBVIOUS
<1>2. StandsFor(<<>>) = <<>>
    BY <1>1, StandsForIs, SpreadNone
<1>3. QED BY <1>1, <1>2 DEF Carries

LEMMA PartIs ==
    ASSUME NEW U, NEW kind, NEW from, NEW to, kind \in PartKinds, from \in Seq(STRING), to \in U,
           AsItShould(ThePart(kind, from, to))
    PROVE  Part(kind, from, to) \in Seq(AnyPart(U)) /\ StandsFor(Part(kind, from, to)) = from
<1> DEFINE p == [kind |-> kind, from |-> from, to |-> to]
           q == <<p>>
<1>1. p \in AnyPart(U) /\ p.from = from
    BY DEF AnyPart, ThePart
<1> HIDE DEF p
<1>2. q \in Seq(AnyPart(U)) /\ Len(q) = 1 /\ q[1] = p
    BY <1>1
<1> HIDE DEF q
<1>3. SpreadOf(FromOf(U), q) = from
    <2>1. FromOf(U)[p] = from
        BY <1>1 DEF FromOf
    <2>2. q = Cons(p, <<>>)
        BY <1>1, OneElement DEF Cons, q
    <2>3. <<>> \in Seq(AnyPart(U))
        OBVIOUS
    <2>4. SpreadOf(FromOf(U), Cons(p, <<>>)) = FromOf(U)[p] \o SpreadOf(FromOf(U), <<>>)
        <3> DEFINE E == AnyPart(U)
                   g == FromOf(U)
                   t == <<>>
        <3>1. Gives(g, E, Seq(STRING))
            BY FromGives
        <3>2. p \in E /\ t \in Seq(E)
            BY <1>1, <2>3
        <3> HIDE DEF E, g, t
        <3>3. SpreadOf(g, Cons(p, t)) = g[p] \o SpreadOf(g, t)
            BY <3>1, <3>2, SpreadCons
        <3>4. QED BY <3>3 DEF g, t
    <2>5. from \o <<>> = from
        BY ConcatEmptyToo
    <2>6. QED BY <2>1, <2>2, <2>4, <2>5, SpreadNone
<1>4. StandsFor(q) = from
    BY <1>2, <1>3, StandsForIs
<1>5. Part(kind, from, to) = q
    BY DEF Part, p, q
<1>6. QED BY <1>2, <1>4, <1>5

LEMMA CarriesPart ==
    ASSUME NEW kind, NEW from, NEW to, kind \in PartKinds, from \in Seq(STRING),
           AsItShould(ThePart(kind, from, to))
    PROVE  Carries(Part(kind, from, to), from)
<1> DEFINE U == {to}
<1>1. to \in U
    OBVIOUS
<1> HIDE DEF U
<1>2. Part(kind, from, to) \in Seq(AnyPart(U)) /\ StandsFor(Part(kind, from, to)) = from
    <2>1. ASSUME NEW V, to \in V
          PROVE  Part(kind, from, to) \in Seq(AnyPart(V)) /\ StandsFor(Part(kind, from, to)) = from
        BY <2>1, PartIs
    <2>2. QED BY <1>1, <2>1
<1>3. QED BY <1>2 DEF Carries

LEMMA CarriesText ==
    ASSUME NEW s, s \in Seq(STRING)
    PROVE  /\ Carries(Text(s), s) /\ Carries(Raw(s), s) /\ Carries(Call(s), s) /\ Carries(More(s), s)
           /\ dc.urlMap # <<>> => Carries(Skipped(s), s)
<1>1. /\ "text" \in PartKinds /\ "raw" \in PartKinds /\ "skipped" \in PartKinds
      /\ "call" \in PartKinds /\ "more" \in PartKinds /\ "call" \in FreeKinds /\ "more" \in FreeKinds
    BY DEF PartKinds, FreeKinds
<1>2. ASSUME NEW kind, kind \in PartKinds, NEW to, AsItShould(ThePart(kind, s, to))
      PROVE  Carries(Part(kind, s, to), s)
    BY <1>2, CarriesPart
<1>3. Carries(Text(s), s)
    <2>1. CASE s = <<>>
        BY <2>1, CarriesNone DEF Text
    <2>2. CASE s # <<>>
        <3>1. AsItShould(ThePart("text", s, Convert(s)))
            BY PartFits
        <3>2. QED BY <1>1, <1>2, <2>2, <3>1 DEF Text
    <2>3. QED BY <2>1, <2>2
<1>4. Carries(Raw(s), s)
    <2>1. CASE s = <<>>
        BY <2>1, CarriesNone DEF Raw
    <2>2. CASE s # <<>>
        <3>1. AsItShould(ThePart("raw", s, s))
            BY PartFits
        <3>2. QED BY <1>1, <1>2, <2>2, <3>1 DEF Raw
    <2>3. QED BY <2>1, <2>2
<1>5. Carries(Call(s), s) /\ Carries(More(s), s)
    <2>1. AsItShould(ThePart("call", s, s)) /\ AsItShould(ThePart("more", s, s))
        BY <1>1, PartFits
    <2>2. QED BY <1>1, <1>2, <2>1 DEF Call, More
<1>6. dc.urlMap # <<>> => Carries(Skipped(s), s)
    <2>1. CASE s = <<>>
        BY <2>1, CarriesNone DEF Skipped
    <2>2. CASE s # <<>> /\ dc.urlMap # <<>>
        <3>1. AsItShould(ThePart("skipped", s, <<>>))
            BY <2>2, PartFits
        <3>2. QED BY <1>1, <1>2, <2>2, <3>1 DEF Skipped
    <2>3. QED BY <2>1, <2>2
<1>7. QED BY <1>3, <1>4, <1>5, <1>6

LEMMA StandsForBoth ==
    ASSUME NEW U, NEW a, NEW b, a \in Seq(AnyPart(U)), b \in Seq(AnyPart(U))
    PROVE  a \o b \in Seq(AnyPart(U)) /\ StandsFor(a \o b) = StandsFor(a) \o StandsFor(b)
<1>1. a \o b \in Seq(AnyPart(U))
    BY ConcatProperties
<1>2. SpreadOf(FromOf(U), a \o b) = SpreadOf(FromOf(U), a) \o SpreadOf(FromOf(U), b)
    BY FromGives, SpreadConcat
<1>3. ASSUME NEW x, x \in Seq(AnyPart(U)) PROVE StandsFor(x) = SpreadOf(FromOf(U), x)
    BY <1>3, StandsForIs
<1>4. StandsFor(a \o b) = SpreadOf(FromOf(U), a \o b)
    <2> DEFINE ab == a \o b
    <2>1. ab \in Seq(AnyPart(U))
        BY <1>1
    <2> HIDE DEF ab
    <2>2. StandsFor(ab) = SpreadOf(FromOf(U), ab)
        BY <1>3, <2>1
    <2>3. QED BY <2>2 DEF ab
<1>5. StandsFor(a) = SpreadOf(FromOf(U), a) /\ StandsFor(b) = SpreadOf(FromOf(U), b)
    BY <1>3
<1>6. QED BY <1>1, <1>2, <1>4, <1>5

LEMMA CarriesBoth ==
    ASSUME NEW a, NEW b, NEW s, NEW t, Carries(a, s), Carries(b, t)
    PROVE  Carries(a \o b, s \o t)
<1>1. PICK U : a \in Seq(AnyPart(U)) /\ StandsFor(a) = s
    BY DEF Carries
<1>2. PICK V : b \in Seq(AnyPart(V)) /\ StandsFor(b) = t
    BY DEF Carries
<1> DEFINE W == U \cup V
<1>3. U \subseteq W /\ V \subseteq W
    OBVIOUS
<1> HIDE DEF W
<1>4. a \in Seq(AnyPart(W)) /\ b \in Seq(AnyPart(W))
    BY <1>1, <1>2, <1>3, Wider
<1>5. a \o b \in Seq(AnyPart(W)) /\ StandsFor(a \o b) = StandsFor(a) \o StandsFor(b)
    BY <1>4, StandsForBoth
<1>6. QED BY <1>1, <1>2, <1>5 DEF Carries

LEMMA CarriesThree ==
    ASSUME NEW a, NEW b, NEW d, NEW s, NEW t, NEW u, Carries(a, s), Carries(b, t), Carries(d, u)
    PROVE  Carries(a \o b \o d, s \o t \o u)
<1>1. Carries(a \o b, s \o t)
    BY CarriesBoth
<1>2. QED BY <1>1, CarriesBoth

\* What is written in the place of a part carries what the part stands for:
\* then all of it together does.
SomeTo(out, s) == CHOOSE U : out \in Seq(AnyPart(U)) /\ StandsFor(out) = s
LEMMA CarriesAll ==
    ASSUME NEW U, NEW g, \A p \in AnyPart(U) : Carries(g[p], p.from), NEW out, out \in Seq(AnyPart(U))
    PROVE  Carries(SpreadOf(g, out), StandsFor(out))
<1> DEFINE E == AnyPart(U)
           W == UNION {SomeTo(g[p], p.from) : p \in E}
           F == Seq(AnyPart(W))
           T == {t \in Seq(E) : StandsFor(SpreadOf(g, t)) = StandsFor(t)}
<1>1. ASSUME NEW p, p \in E PROVE g[p] \in F /\ StandsFor(g[p]) = p.from
    <2> DEFINE V == SomeTo(g[p], p.from)
    <2>1. \E X : g[p] \in Seq(AnyPart(X)) /\ StandsFor(g[p]) = p.from
        BY <1>1 DEF Carries
    <2>2. g[p] \in Seq(AnyPart(V)) /\ StandsFor(g[p]) = p.from
        BY <2>1 DEF SomeTo
    <2>3. V \subseteq W
        BY <1>1
    <2> HIDE DEF V, W
    <2>4. Seq(AnyPart(V)) \subseteq Seq(AnyPart(W))
        BY <2>3, Wider
    <2>5. QED BY <2>2, <2>4
<1>2. Gives(g, E, F)
    BY <1>1 DEF Gives
<1> HIDE DEF E, W
<1>3. ASSUME NEW t, t \in Seq(E) PROVE SpreadOf(g, t) \in F
    BY <1>2, <1>3, SpreadType
<1>4. <<>> \in T
    <2>1. SpreadOf(g, <<>>) = <<>>
        BY SpreadNone
    <2>2. <<>> \in Seq(E)
        OBVIOUS
    <2>3. QED BY <2>1, <2>2
<1>5. ASSUME NEW e, NEW t, e \in E, t \in Seq(E), t \in T PROVE Cons(e, t) \in T
    <2> DEFINE h == FromOf(U)
               x == g[e]
               y == SpreadOf(g, t)
               ct == Cons(e, t)
    <2>1. ct \in Seq(E)
        BY <1>5, ConsIs
    <2>2. SpreadOf(g, ct) = x \o y
        BY <1>2, <1>5, SpreadCons
    <2>3. StandsFor(x) = e.from /\ x \in F /\ y \in F /\ StandsFor(y) = StandsFor(t)
        BY <1>1, <1>3, <1>5
    <2>4. StandsFor(x \o y) = StandsFor(x) \o StandsFor(y)
        <3>1. ASSUME NEW V, NEW a, NEW b, a \in Seq(AnyPart(V)), b \in Seq(AnyPart(V))
              PROVE  StandsFor(a \o b) = StandsFor(a) \o StandsFor(b)
            BY ONLY <3>1, StandsForBoth
        <3>2. x \in Seq(AnyPart(W)) /\ y \in Seq(AnyPart(W))
            BY <2>3
        <3> HIDE DEF x, y
        <3>3. QED BY ONLY <3>1, <3>2
    <2>5. Gives(h, E, Seq(STRING)) /\ h[e] = e.from
        BY <1>5, FromGives DEF E, FromOf
    <2>6. StandsFor(ct) = SpreadOf(h, ct) /\ StandsFor(t) = SpreadOf(h, t)
        <3>1. ASSUME NEW z, z \in Seq(E) PROVE StandsFor(z) = SpreadOf(h, z)
            BY <3>1, StandsForIs DEF E
        <3> HIDE DEF ct, h
        <3>2. QED BY <1>5, <2>1, <3>1
    <2>7. SpreadOf(h, ct) = h[e] \o SpreadOf(h, t)
        <3>1. e \in E /\ t \in Seq(E) /\ Gives(h, E, Seq(STRING))
            BY <1>5, <2>5
        <3> HIDE DEF h, ct
        <3>2. SpreadOf(h, Cons(e, t)) = h[e] \o SpreadOf(h, t)
            BY ONLY <3>1, SpreadCons
        <3>3. QED BY <3>2 DEF ct
    <2>8. StandsFor(SpreadOf(g, ct)) = StandsFor(ct)
        <3> HIDE DEF x, y, ct, h
        <3>1. QED BY <2>2, <2>3, <2>4, <2>5, <2>6, <2>7
    <2>9. QED BY <2>1, <2>8
<1>6. Seq(E) \subseteq T
    <2> HIDE DEF T
    <2>1. \A e \in E, t \in Seq(E) : t \in T => Cons(e, t) \in T
        BY <1>5
    <2>2. QED BY <1>4, <2>1, FromTheBack
<1>7. out \in Seq(E)
    BY DEF E
<1>8. SpreadOf(g, out) \in F /\ StandsFor(SpreadOf(g, out)) = StandsFor(out)
    BY <1>3, <1>6, <1>7
<1>9. QED BY <1>8 DEF Carries

-----------------------------------------------------------------------------
(* Texts cut into halves again and again *)

\* f is made of what is put out for the parts before and behind the middle.
Shorter(n) == {x \in Seq(STRING) : Len(x) <= n}
Halved(f, n, stop, base, left, mid, right) ==
    f = [t \in Shorter(n) |-> IF t \in stop THEN base[t] ELSE f[left[t]] \o mid[t] \o f[right[t]]]
Halves(stop, left, right) ==
    \A t \in Seq(STRING) : t \notin stop =>
        /\ left[t] \in Seq(STRING) /\ Len(left[t]) < Len(t)
        /\ right[t] \in Seq(STRING) /\ Len(right[t]) < Len(t)

LEMMA HalvedExists ==
    ASSUME NEW stop, NEW base, NEW left, NEW mid, NEW right, Halves(stop, left, right), NEW n \in Nat
    PROVE  \E f : Halved(f, n, stop, base, left, mid, right)
<1> DEFINE What(f, t) == IF t \in stop THEN base[t] ELSE f[left[t]] \o mid[t] \o f[right[t]]
           T == {m \in Nat : \E f : Halved(f, m, stop, base, left, mid, right)}
<1>1. ASSUME NEW m \in Nat, NEW t, t \in Shorter(m + 1), t \notin stop
      PROVE  left[t] \in Shorter(m) /\ right[t] \in Shorter(m)
    <2>1. t \in Seq(STRING) /\ Len(t) <= m + 1
        BY <1>1 DEF Shorter
    <2>2. left[t] \in Seq(STRING) /\ Len(left[t]) < Len(t) /\ right[t] \in Seq(STRING) /\ Len(right[t]) < Len(t)
        BY <1>1, <2>1 DEF Halves
    <2>3. Len(left[t]) <= m /\ Len(right[t]) <= m
        <3>1. Len(t) \in Nat /\ Len(left[t]) \in Nat /\ Len(right[t]) \in Nat
            BY <2>1, <2>2
        <3>2. QED BY <2>1, <2>2, <3>1
    <2>4. QED BY <2>2, <2>3 DEF Shorter
<1>2. 0 \in T
    <2> DEFINE f == [t \in Shorter(0) |-> base[t]]
    <2>1. ASSUME NEW t, t \in Shorter(0) PROVE t \in stop
        <3>1. t \in Seq(STRING) /\ Len(t) = 0
            BY <2>1 DEF Shorter
        <3>2. SUFFICES ASSUME t \notin stop PROVE FALSE
            OBVIOUS
        <3>3. left[t] \in Seq(STRING) /\ Len(left[t]) < Len(t)
            BY <3>1, <3>2 DEF Halves
        <3>4. Len(left[t]) \in Nat
            BY <3>3
        <3>5. QED BY <3>1, <3>3, <3>4
    <2>2. f = [t \in Shorter(0) |-> What(f, t)]
        BY <2>1
    <2>3. QED BY <2>2 DEF Halved
<1>3. ASSUME NEW m \in T PROVE m + 1 \in T
    <2>1. PICK f : Halved(f, m, stop, base, left, mid, right)
        OBVIOUS
    <2> DEFINE g == [t \in Shorter(m + 1) |-> What(f, t)]
    <2>2. ASSUME NEW t, t \in Shorter(m) PROVE t \in Shorter(m + 1) /\ g[t] = f[t]
        <3>1. t \in Shorter(m + 1)
            BY <2>2 DEF Shorter
        <3>2. f[t] = What(f, t)
            BY <2>1, <2>2 DEF Halved
        <3>3. QED BY <3>1, <3>2
    <2>3. ASSUME NEW t, t \in Shorter(m + 1) PROVE g[t] = What(g, t)
        <3>1. CASE t \in stop
            BY <2>3, <3>1
        <3>2. CASE t \notin stop
            <4>1. left[t] \in Shorter(m) /\ right[t] \in Shorter(m)
                BY <1>1, <2>3, <3>2
            <4>2. g[left[t]] = f[left[t]] /\ g[right[t]] = f[right[t]]
                BY <2>2, <4>1
            <4>3. g[t] = f[left[t]] \o mid[t] \o f[right[t]]
                BY <2>3, <3>2
            <4> HIDE DEF g
            <4>4. QED BY <3>2, <4>2, <4>3
        <3>3. QED BY <3>1, <3>2
    <2>4. g = [t \in Shorter(m + 1) |-> What(g, t)]
        <3> DEFINE D == Shorter(m + 1)
        <3>1. g = [t \in D |-> g[t]]
            OBVIOUS
        <3> HIDE DEF g
        <3>2. QED BY <2>3, <3>1
    <2>5. \E h : Halved(h, m + 1, stop, base, left, mid, right)
        BY <2>4 DEF Halved
    <2>6. QED BY <2>5
<1>4. T = Nat
    <2> HIDE DEF T
    <2>1. T \in SUBSET Nat
        BY DEF T
    <2>2. QED BY <1>2, <1>3, <2>1, AllNumbers
<1>5. QED BY <1>4

\* Then it carries the whole text.
LEMMA HalvedCarries ==
    ASSUME NEW stop, NEW base, NEW left, NEW mid, NEW right, NEW midOf, Halves(stop, left, right),
           \A t \in Seq(STRING) : t \in stop => Carries(base[t], t),
           \A t \in Seq(STRING) : t \notin stop =>
               Carries(mid[t], midOf[t]) /\ t = left[t] \o midOf[t] \o right[t],
           NEW n \in Nat, NEW f, Halved(f, n, stop, base, left, mid, right)
    PROVE  \A t \in Shorter(n) : Carries(f[t], t)
<1> DEFINE T == {m \in Nat : \A t \in Shorter(n) : Len(t) < m => Carries(f[t], t)}
<1>1. 0 \in T
    <2>1. ASSUME NEW t, t \in Shorter(n) PROVE ~(Len(t) < 0)
        BY <2>1 DEF Shorter
    <2>2. QED BY <2>1
<1>2. ASSUME NEW m \in T PROVE m + 1 \in T
    <2>1. ASSUME NEW t, t \in Shorter(n), Len(t) < m + 1 PROVE Carries(f[t], t)
        <3>1. t \in Seq(STRING) /\ Len(t) \in Nat /\ Len(t) <= n
            BY <2>1 DEF Shorter
        <3>2. f[t] = IF t \in stop THEN base[t] ELSE f[left[t]] \o mid[t] \o f[right[t]]
            BY <2>1 DEF Halved
        <3>3. CASE t \in stop
            BY <3>1, <3>2, <3>3
        <3>4. CASE t \notin stop
            <4>1. left[t] \in Seq(STRING) /\ Len(left[t]) < Len(t) /\ right[t] \in Seq(STRING) /\ Len(right[t]) < Len(t)
                BY <3>1, <3>4 DEF Halves
            <4>2. Len(left[t]) < m /\ Len(right[t]) < m /\ Len(left[t]) <= n /\ Len(right[t]) <= n
                <5>1. Len(left[t]) \in Nat /\ Len(right[t]) \in Nat
                    BY <4>1
                <5>2. QED BY <2>1, <3>1, <4>1, <5>1
            <4>3. left[t] \in Shorter(n) /\ right[t] \in Shorter(n)
                BY <4>1, <4>2 DEF Shorter
            <4>4. Carries(f[left[t]], left[t]) /\ Carries(f[right[t]], right[t])
                BY <1>2, <4>2, <4>3
            <4>5. Carries(mid[t], midOf[t]) /\ t = left[t] \o midOf[t] \o right[t]
                BY <3>1, <3>4
            <4> DEFINE a == f[left[t]]
                       b == mid[t]
                       d == f[right[t]]
                       x == left[t]
                       y == midOf[t]
                       z == right[t]
            <4>6. Carries(a, x) /\ Carries(b, y) /\ Carries(d, z) /\ t = x \o y \o z
                BY <4>4, <4>5
            <4>7. f[t] = a \o b \o d
                BY <3>2, <3>4
            <4> HIDE DEF a, b, d, x, y, z
            <4>8. Carries(a \o b \o d, x \o y \o z)
                BY <4>6, CarriesThree
            <4>9. QED BY <4>6, <4>7, <4>8
        <3>5. QED BY <3>3, <3>4
    <2>2. QED BY <2>1
<1>3. T = Nat
    <2> HIDE DEF T
    <2>1. T \in SUBSET Nat
        BY DEF T
    <2>2. QED BY <1>1, <1>2, <2>1, AllNumbers
<1>4. ASSUME NEW t, t \in Shorter(n) PROVE Carries(f[t], t)
    <2>1. Len(t) \in Nat
        BY <1>4 DEF Shorter
    <2>2. Len(t) + 1 \in T /\ Len(t) < Len(t) + 1
        BY <1>3, <2>1
    <2>3. QED BY <1>4, <2>2
<1>5. QED BY <1>4

-----------------------------------------------------------------------------
(* Where references are *)

LEMMA FirstIs ==
    ASSUME NEW s, s \in Seq(STRING), NEW x
    PROVE  First(s, x) = 0 \/ (First(s, x) \in 1 .. Len(s) /\ s[First(s, x)] = x)
<1> DEFINE T == {k \in 1 .. Len(s) : s[k] = x}
           z == First(s, x)
<1>1. z = IF T # {} THEN Min(T) ELSE 0
    BY DEF First, SelectInSeq
<1>2. Len(s) \in Nat /\ 1 \in Nat /\ \A k \in T : k \in 1 .. Len(s)
    OBVIOUS
<1>3. z = 0 \/ (z \in T /\ z \in 1 .. Len(s))
    <2> HIDE DEF T, z
    <2>1. QED BY <1>1, <1>2, LeastOrNone
<1>4. QED BY <1>3

LEMMA FindIs ==
    ASSUME NEW s, s \in Seq(STRING), NEW t, Len(t) \in Nat \ {0}
    PROVE  \/ Find(s, t) = 0
           \/ /\ Find(s, t) \in 1 .. Len(s) /\ Find(s, t) + Len(t) - 1 \in 1 .. Len(s)
              /\ SubSeq(s, Find(s, t), Find(s, t) + Len(t) - 1) = t
<1> DEFINE at == {i \in 1 .. Len(s) - Len(t) + 1 : SubSeq(s, i, i + Len(t) - 1) = t}
<1>1. Find(s, t) = IF at = {} THEN 0 ELSE CHOOSE i \in at : \A j \in at : i <= j
    BY DEF Find
<1>2. Len(s) \in Nat /\ at \in SUBSET Nat
    OBVIOUS
<1>3. CASE at # {}
    <2>1. \E i \in at : \A j \in at : i <= j
        <3> HIDE DEF at
        <3>1. QED BY <1>2, <1>3, LeastNumber
    <2>2. Find(s, t) \in at
        <3> HIDE DEF at
        <3>1. QED BY <1>1, <1>3, <2>1
    <2>3. QED BY <1>2, <2>2
<1>4. QED BY <1>1, <1>3

LEMMA HttpAtIs ==
    ASSUME NEW s, s \in Seq(STRING)
    PROVE  HttpAt(s) = 0 \/ (HttpAt(s) \in 1 .. Len(s) /\ HttpAt(s) + 3 \in 1 .. Len(s)
                             /\ (s[HttpAt(s)] = "http" \/ s[HttpAt(s)] = "https"))
<1>1. ASSUME NEW t, Len(t) = 4, NEW x, t[1] = x
      PROVE  Find(s, t) = 0 \/ (Find(s, t) \in 1 .. Len(s) /\ Find(s, t) + 3 \in 1 .. Len(s) /\ s[Find(s, t)] = x)
    <2> DEFINE z == Find(s, t)
    <2>1. z = 0 \/ (z \in 1 .. Len(s) /\ z + 4 - 1 \in 1 .. Len(s) /\ SubSeq(s, z, z + 4 - 1) = t)
        <3>1. Len(t) \in Nat \ {0}
            BY <1>1
        <3>2. QED BY <1>1, <3>1, FindIs
    <2> HIDE DEF z
    <2>2. CASE z # 0
        <3>1. z \in 1 .. Len(s) /\ z + 3 \in z .. Len(s) /\ z + 3 \in 1 .. Len(s) /\ SubSeq(s, z, z + 3) = t
            BY <2>1, <2>2
        <3> DEFINE j == z + 3
        <3>2. j \in z .. Len(s) /\ 1 \in 1 .. j - z + 1 /\ z + 1 - 1 = z
            BY <3>1
        <3>3. SubSeq(s, z, j)[1] = s[z]
            <4> HIDE DEF j
            <4>1. QED BY <3>1, <3>2, SubSeqIs
        <3>4. s[z] = x
            BY <1>1, <3>1, <3>3
        <3>5. QED BY <3>1, <3>4 DEF z
    <2>3. QED BY <2>2 DEF z
<1>2. Len(Http) = 4 /\ Http[1] = "http" /\ Len(Https) = 4 /\ Https[1] = "https"
    BY DEF Http, Https
<1>3. QED BY <1>1, <1>2 DEF HttpAt

LEMMA HttpEndIs ==
    ASSUME NEW s, s \in Seq(STRING), NEW at, at \in 1 .. Len(s), s[at] = "http" \/ s[at] = "https"
    PROVE  HttpEnd(s, at) = 0 \/ HttpEnd(s, at) \in at + 1 .. Len(s)
<1> DEFINE open  == IF at > 1 THEN s[at - 1] ELSE NoSymbol
           close == CASE open \in Quotes -> open [] open = "(" -> ")" [] OTHER -> NoSymbol
           T == {k \in at .. Len(s) : s[k] = close}
           e == SelectInSubSeq(s, at, Len(s), LAMBDA x : x = close)
           z == IF e > 0 /\ s[e] \in Quotes /\ s[e - 1] = "\\" THEN e - 1 ELSE e
<1>1. HttpEnd(s, at) = z
    BY DEF HttpEnd
<1>2. close \in Quotes \/ close = ")" \/ close = NoSymbol
    OBVIOUS
<1> HIDE DEF open, close
<1>3. s[at] # close /\ s[at] # "\\"
    BY <1>2 DEF Quotes, NoSymbol
<1>4. e = IF T # {} THEN Min(T) ELSE 0
    BY DEF SelectInSubSeq
<1>5. e = 0 \/ (e \in T /\ e \in at .. Len(s))
    <2>1. at \in Nat /\ Len(s) \in Nat /\ \A k \in T : k \in at .. Len(s)
        OBVIOUS
    <2> HIDE DEF T, e
    <2>2. QED BY <1>4, <2>1, LeastOrNone
<1>6. e = 0 \/ e \in at + 1 .. Len(s)
    <2>1. CASE e \in T
        <3>1. e \in at .. Len(s) /\ e # at
            BY <1>3, <2>1
        <3>2. QED BY <3>1
    <2>2. QED BY <1>5, <2>1
<1> HIDE DEF e, T
<1>7. z = 0 \/ z \in at + 1 .. Len(s)
    <2>1. CASE e = 0
        BY <2>1
    <2>2. CASE e \in at + 1 .. Len(s)
        <3>1. s[e - 1] = "\\" => e - 1 # at
            BY <1>3, <2>2
        <3>2. e - 1 \in at .. Len(s) /\ (e - 1 # at => e - 1 \in at + 1 .. Len(s))
            BY <2>2
        <3>3. QED BY <2>2, <3>1, <3>2
    <2>3. QED BY <1>6, <2>1, <2>2
<1>8. QED BY <1>1, <1>7

LEMMA CssIs ==
    ASSUME NEW s, s \in Seq(STRING), IsCss(s)
    PROVE  CssFrom(s) \in 2 .. Len(s) /\ CssLast(s) \in Nat /\ CssLast(s) + 1 <= Len(s)
<1> DEFINE open == CssOpen(s)
           close == CssClose(s)
           T == {k \in open + 1 .. Len(s) : s[k] = ")"}
           stop == Blanks \cup {";"}
           F == {i \in open + 1 .. close : i = close \/ s[i] \notin stop}
           L == {i \in open .. close - 1 : i <= CssFrom(s) \/ s[i] \notin stop}
<1>1. open \in 1 .. Len(s)
    BY FirstIs DEF IsCss, CssOpen
<1>2. close \in open + 1 .. Len(s)
    <2>1. close = IF T # {} THEN Min(T) ELSE 0
        BY DEF CssClose, SelectInSubSeq
    <2>2. open + 1 \in Nat /\ Len(s) \in Nat /\ \A k \in T : k \in open + 1 .. Len(s)
        BY <1>1
    <2>3. close # 0
        <3>1. close > 0
            BY DEF IsCss
        <3>2. QED BY <3>1
    <2> DEFINE lo == open + 1
    <2>4. close = 0 \/ close \in lo .. Len(s)
        <3>1. lo \in Nat /\ Len(s) \in Nat /\ \A k \in T : k \in lo .. Len(s)
            BY <2>2
        <3> HIDE DEF T, lo, close
        <3>2. QED BY <2>1, <3>1, LeastOrNone
    <2>5. QED BY <2>3, <2>4
<1>3. CssFrom(s) = Min(F) /\ CssLast(s) = Max(L)
    BY DEF CssFrom, CssLast
<1> HIDE DEF open, close, T, stop
<1>4. CssFrom(s) \in open + 1 .. close
    <2>1. F \in SUBSET Nat /\ close \in F
        <3>1. open \in Nat /\ close \in Nat /\ close \in open + 1 .. close
            BY <1>1, <1>2
        <3>2. QED BY <3>1
    <2>2. Min(F) \in F
        <3> HIDE DEF F
        <3>1. QED BY <2>1, LeastOfSome
    <2>3. QED BY <1>3, <2>2
<1>5. CssLast(s) \in open .. close - 1
    <2>1. L \in SUBSET Nat /\ open \in L /\ close - 1 \in Nat /\ \A k \in L : k <= close - 1
        <3>1. open \in Nat /\ close \in Nat /\ open \in open .. close - 1 /\ open <= CssFrom(s)
            BY <1>1, <1>2, <1>4
        <3>2. QED BY <3>1
    <2>2. Max(L) \in L
        <3> DEFINE hi == close - 1
        <3>1. L # {} /\ hi \in Nat /\ \A k \in L : k <= hi
            BY <2>1
        <3> HIDE DEF L, hi
        <3>2. QED BY <2>1, <3>1, GreatestOfSome
    <2>3. QED BY <1>3, <2>2
<1>6. QED BY <1>1, <1>2, <1>4, <1>5

Maps == dc.urlMap \in Seq([from : Seq(STRING), to : Seq(STRING)])
LEMMA BeginningIs ==
    ASSUME Maps, NEW s, s \in Seq(STRING), NEW at, at \in 1 .. Len(s), at + 3 \in 1 .. Len(s)
    PROVE  /\ Beginning(dc, s, at).end \in at + 1 .. Len(s) + 1
           /\ Carries(Beginning(dc, s, at).part, SubSeq(s, at, Beginning(dc, s, at).end - 1))
<1> DEFINE T == {k \in 1 .. Len(dc.urlMap) :
                   Len(dc.urlMap[k].from) < Len(s) /\ IsPrefix(dc.urlMap[k].from, From(s, at))}
           map == SelectInSeq(dc.urlMap, LAMBDA m : Len(m.from) < Len(s) /\ IsPrefix(m.from, From(s, at)))
           size == IF map = 0 THEN 0 ELSE Len(dc.urlMap[map].from)
           ends == {at + 2 * size, Len(s) + 1}
           end == Min(ends)
           to == dc.urlMap[map].to
           prefix == IF s[at] = "http" THEN UrlPrefix ELSE SUrlPrefix
<1>1. map = 0 \/ (map \in T /\ map \in 1 .. Len(dc.urlMap))
    <2>1. map = IF T # {} THEN Min(T) ELSE 0
        BY DEF SelectInSeq
    <2>2. Len(dc.urlMap) \in Nat /\ 1 \in Nat /\ \A k \in T : k \in 1 .. Len(dc.urlMap)
        BY DEF Maps
    <2> HIDE DEF T, map
    <2>3. QED BY <2>1, <2>2, LeastOrNone
<1>2. size \in Nat /\ (size > 0 => at + size - 1 <= Len(s) /\ dc.urlMap # <<>>)
    <2>1. CASE map = 0
        BY <2>1
    <2>2. CASE map # 0
        <3>1. map \in T /\ map \in 1 .. Len(dc.urlMap)
            BY <1>1, <2>2
        <3>2. dc.urlMap[map] \in [from : Seq(STRING), to : Seq(STRING)]
            <4> HIDE DEF map
            <4>1. ASSUME NEW M, NEW X, M \in Seq(X), NEW k, k \in 1 .. Len(M) PROVE M[k] \in X
                BY <4>1
            <4>2. dc.urlMap \in Seq([from : Seq(STRING), to : Seq(STRING)])
                BY DEF Maps
            <4>3. QED BY ONLY <4>1, <4>2, <3>1
        <3> DEFINE from == dc.urlMap[map].from
                   rest == From(s, at)
        <3>3. from \in Seq(STRING) /\ size = Len(from)
            BY <2>2, <3>2
        <3>4. IsPrefix(from, rest)
            <4> HIDE DEF map
            <4>1. QED BY <3>1
        <3>5. Len(rest) = Len(s) - at + 1
            <4>1. at \in 1 .. Len(s) + 1
                OBVIOUS
            <4>2. QED BY <4>1, CutInThree
        <3>6. dc.urlMap # <<>>
            <4> HIDE DEF map
            <4>1. QED BY <3>1
        <3> HIDE DEF from, rest, size
        <3>7. Len(from) <= Len(rest) /\ Len(from) \in Nat
            BY <3>3, <3>4 DEF IsPrefix
        <3>8. QED BY <3>3, <3>5, <3>6, <3>7
    <2>3. QED BY <2>1, <2>2
<1>3. Beginning(dc, s, at) =
          IF size > 0
          THEN [end |-> end, part |-> Part("mapped", SubSeq(s, at, at + size - 1), to)
                                      \o Skipped(SubSeq(s, at + size, end - 1))]
          ELSE [end |-> at + 4, part |-> Part("prefix", SubSeq(s, at, at + 3), prefix)]
    BY DEF Beginning
<1> HIDE DEF map, size, to, prefix
<1>4. ASSUME NEW kind, kind \in FreeKinds, NEW x, NEW hi, hi \in at - 1 .. Len(s)
      PROVE  Carries(Part(kind, SubSeq(s, at, hi), x), SubSeq(s, at, hi))
    <2> DEFINE f == SubSeq(s, at, hi)
               k == hi + 1
    <2>1. at \in 1 .. Len(s) + 1 /\ k \in at .. Len(s) + 1 /\ hi = k - 1
        BY <1>4
    <2>2. SubSeq(s, at, k - 1) \in Seq(STRING)
        <3> HIDE DEF k
        <3>1. QED BY <2>1, Between
    <2>3. f \in Seq(STRING)
        BY <2>1, <2>2
    <2>4. kind \in PartKinds
        BY <1>4 DEF PartKinds
    <2> HIDE DEF f
    <2>5. AsItShould(ThePart(kind, f, x))
        BY <1>4, PartFits
    <2>6. Carries(Part(kind, f, x), f)
        BY <2>3, <2>4, <2>5, CarriesPart
    <2>7. QED BY <2>6 DEF f
<1>5. CASE size > 0
    <2>1. ends \in SUBSET Nat /\ ends # {} /\ \A x \in ends : x >= at + size
        BY <1>2, <1>5
    <2>2. Min(ends) \in ends /\ \A x \in ends : Min(ends) <= x
        <3> HIDE DEF ends
        <3>1. QED BY <2>1, LeastOfSome
    <2>3. Len(s) + 1 \in ends
        OBVIOUS
    <2>4. end \in Nat /\ end >= at + size /\ end <= Len(s) + 1
        <3> HIDE DEF ends
        <3>1. QED BY <2>1, <2>2, <2>3
    <2> HIDE DEF end
    <2> DEFINE mid == at + size
    <2>5. /\ end \in at + 1 .. Len(s) + 1 /\ at \in 1 .. Len(s) + 1 /\ mid \in at .. Len(s) + 1
          /\ end \in mid .. Len(s) + 1 /\ mid \in 1 .. Len(s) + 1 /\ mid - 1 \in at - 1 .. Len(s)
          /\ at + size - 1 = mid - 1
        BY <1>2, <1>5, <2>4
    <2> HIDE DEF mid
    <2>6. SubSeq(s, at, mid - 1) \o SubSeq(s, mid, end - 1) = SubSeq(s, at, end - 1)
        BY <2>5, CutInTwo
    <2>7. SubSeq(s, mid, end - 1) \in Seq(STRING)
        BY <2>5, Between
    <2> DEFINE a == Part("mapped", SubSeq(s, at, mid - 1), to)
               x == SubSeq(s, at, mid - 1)
               y == SubSeq(s, mid, end - 1)
               b == Skipped(y)
    <2>8. Carries(a, x)
        <3>1. "mapped" \in FreeKinds
            BY DEF FreeKinds
        <3>2. QED BY <1>4, <2>5, <3>1
    <2>9. Carries(b, y)
        <3> HIDE DEF y
        <3>1. y \in Seq(STRING)
            BY <2>7 DEF y
        <3>2. QED BY <1>2, <1>5, <3>1, CarriesText
    <2>10. Beginning(dc, s, at) = [end |-> end, part |-> a \o b]
        BY <1>3, <1>5, <2>5 DEF mid
    <2>11. Carries(a \o b, x \o y)
        <3> HIDE DEF a, b, x, y
        <3>1. QED BY ONLY <2>8, <2>9, CarriesBoth
    <2>12. x \o y = SubSeq(s, at, end - 1)
        BY <2>6
    <2> HIDE DEF a, b, x, y
    <2>13. Beginning(dc, s, at).end = end /\ Beginning(dc, s, at).part = a \o b
        BY <2>10
    <2>14. QED BY <2>5, <2>11, <2>12, <2>13
<1>6. CASE ~(size > 0)
    <2>1. Beginning(dc, s, at).end = at + 4
          /\ Beginning(dc, s, at).part = Part("prefix", SubSeq(s, at, at + 3), prefix)
        BY <1>3, <1>6
    <2>2. at + 4 \in at + 1 .. Len(s) + 1 /\ at + 3 \in at - 1 .. Len(s) /\ at + 4 - 1 = at + 3
        OBVIOUS
    <2>3. Carries(Part("prefix", SubSeq(s, at, at + 3), prefix), SubSeq(s, at, at + 3))
        <3>1. "prefix" \in FreeKinds
            BY DEF FreeKinds
        <3>2. QED BY <1>4, <2>2, <3>1
    <2>4. QED BY <2>1, <2>2, <2>3
<1>7. QED BY <1>5, <1>6

\* A variable nobody set is read only for a reference that is looked into.
LEMMA SetOrLookedInto ==
    ASSUME NEW ctx, NEW ref
    PROVE  ~ChangeUrl(dc, ctx, ref).set => LooksInto(ref)
<1>1. Kept(ref, ref).set
    BY DEF Kept
<1>2. LeftAlone(dc, ctx, ref) => ChangeUrl(dc, ctx, ref) = Kept(ref, ref)
    BY DEF ChangeUrl
<1>3. ~LeftAlone(dc, ctx, ref) => LooksInto(ref)
    BY DEF LeftAlone, LooksInto
<1>4. QED BY <1>1, <1>2, <1>3

LEMMA InItsPlaceIs ==
    ASSUME NEW ctx, NEW ref, ref \in Seq(STRING)
    PROVE  Carries(InItsPlace(dc, ctx, ref), ref)
<1> DEFINE u == ChangeUrl(dc, ctx, ref)
           url == u.url
           text0 == ctx.stack.text
<1>1. InItsPlace(dc, ctx, ref) = IF u.set THEN Part("link", ref, url) ELSE Part("unset", ref, text0)
    BY DEF InItsPlace
<1>2. ~u.set => LooksInto(ref)
    BY SetOrLookedInto
<1>3. "link" \in FreeKinds /\ "link" \in PartKinds /\ "unset" \in PartKinds
    BY DEF FreeKinds, PartKinds
<1> HIDE DEF u, url, text0
<1>4. Carries(Part("link", ref, url), ref)
    BY <1>3, PartFits, CarriesPart
<1>5. ~u.set => Carries(Part("unset", ref, text0), ref)
    BY <1>2, <1>3, PartFits, CarriesPart
<1>6. QED BY <1>1, <1>4, <1>5

\* The part put out for the first reference carries what stands between the
\* two remainders, and both of these are shorter than the whole.
Place(s, p) ==
    /\ p.from \in 1 .. Len(s) /\ p.end \in p.from .. Len(s) + 1 /\ p.end > 1
    /\ Carries(p.part, SubSeq(s, p.from, p.end - 1))
LEMMA PlaceIs ==
    ASSUME Maps, NEW ctx, NEW s, s \in Seq(STRING), ~NoLink(s, LinkIn(s))
    PROVE  Place(s, PartAt(dc, ctx, s, LinkIn(s)))
<1> DEFINE link == LinkIn(s)
           p == PartAt(dc, ctx, s, link)
<1> SUFFICES Place(s, p)
    OBVIOUS
<1>1. ASSUME NEW part, NEW from, NEW end, from \in 1 .. Len(s), end \in from .. Len(s) + 1, end > 1,
             Carries(part, SubSeq(s, from, end - 1)), p = [part |-> part, from |-> from, end |-> end]
      PROVE  Place(s, p)
    <2>1. p.part = part /\ p.from = from /\ p.end = end
        BY <1>1
    <2> HIDE DEF p
    <2>2. QED BY <1>1, <2>1 DEF Place
<1>2. ASSUME NEW from, NEW end, from \in 1 .. Len(s), end \in from .. Len(s) + 1, end > 1,
             p = [part |-> InItsPlace(dc, ctx, SubSeq(s, from, end - 1)), from |-> from, end |-> end]
      PROVE  Place(s, p)
    <2> DEFINE ref == SubSeq(s, from, end - 1)
               part == InItsPlace(dc, ctx, ref)
    <2>1. from \in 1 .. Len(s) + 1
        BY <1>2
    <2>2. ref \in Seq(STRING)
        BY <1>2, <2>1, Between
    <2>3. Carries(part, ref)
        <3> HIDE DEF ref
        <3>1. QED BY <2>2, InItsPlaceIs
    <2>4. p = [part |-> part, from |-> from, end |-> end]
        BY <1>2
    <2> HIDE DEF p, part
    <2>5. QED BY <1>1, <1>2, <2>3, <2>4 DEF ref
<1>3. CASE IsCss(s)
    <2>1. link = [from |-> CssFrom(s), end |-> CssLast(s) + 1]
        BY <1>3 DEF LinkIn
    <2>2. CssFrom(s) \in 2 .. Len(s) /\ CssLast(s) \in Nat /\ CssLast(s) + 1 <= Len(s)
        BY <1>3, CssIs
    <2> DEFINE from == CssFrom(s)
               end == CssLast(s) + 1
    <2>3. link.from = from /\ link.end = end /\ from \in 2 .. Len(s) /\ end \in Nat /\ end <= Len(s)
        BY <2>1, <2>2
    <2> HIDE DEF link, from, end
    <2>4. CASE from + 1 >= end
        <3>1. p = [part |-> <<>>, from |-> from, end |-> from]
            BY <1>3, <2>3, <2>4 DEF PartAt
        <3>2. from \in 1 .. Len(s) /\ from \in from .. Len(s) + 1 /\ from > 1 /\ from \in 1 .. Len(s) + 1
            BY <2>3
        <3>3. SubSeq(s, from, from - 1) = <<>>
            <4> DEFINE x == SubSeq(s, from, from - 1)
            <4>1. x \in Seq(STRING) /\ Len(x) = from - from
                BY <3>2, Between
            <4>2. Len(x) = 0
                BY <3>2, <4>1
            <4> HIDE DEF x
            <4>3. x = <<>>
                BY <4>1, <4>2
            <4>4. QED BY <4>3 DEF x
        <3>4. p.part = <<>> /\ p.from = from /\ p.end = from
            BY <3>1
        <3>5. Place(s, p)
            <4> HIDE DEF p
            <4>1. QED BY <3>2, <3>3, <3>4, CarriesNone DEF Place
        <3>6. QED BY <3>5
    <2>5. CASE ~(from + 1 >= end)
        <3>1. p = [part |-> InItsPlace(dc, ctx, SubSeq(s, from, end - 1)), from |-> from, end |-> end]
            BY <1>3, <2>3, <2>5 DEF PartAt
        <3>2. from \in 1 .. Len(s) /\ end \in from .. Len(s) + 1 /\ end > 1
            BY <2>3, <2>5
        <3>3. Place(s, p)
            <4> HIDE DEF p
            <4>1. QED BY <1>2, <3>1, <3>2
        <3>4. QED BY <3>3
    <2>6. QED BY <2>4, <2>5
<1>4. CASE ~IsCss(s)
    <2> DEFINE from == HttpAt(s)
               end == HttpEnd(s, from)
    <2>1. link.from = from /\ link.end = end /\ from # 0
        BY <1>4 DEF LinkIn, NoLink
    <2>2. from \in 1 .. Len(s) /\ from + 3 \in 1 .. Len(s) /\ (s[from] = "http" \/ s[from] = "https")
        BY <2>1, HttpAtIs
    <2>3. end = 0 \/ end \in from + 1 .. Len(s)
        <3> HIDE DEF from
        <3>1. QED BY <2>2, HttpEndIs
    <2> HIDE DEF link, from, end
    <2>4. CASE end = 0
        <3> DEFINE b == Beginning(dc, s, from)
                   stop == b.end
                   part == b.part
        <3>1. stop \in from + 1 .. Len(s) + 1 /\ Carries(part, SubSeq(s, from, stop - 1))
            BY <2>2, BeginningIs
        <3>2. p = [part |-> part, from |-> from, end |-> stop]
            BY <1>4, <2>1, <2>4 DEF PartAt
        <3> HIDE DEF b, stop, part
        <3>3. stop \in from .. Len(s) + 1 /\ stop > 1 /\ from \in 1 .. Len(s)
            BY <2>2, <3>1
        <3>4. Place(s, p)
            <4> HIDE DEF p
            <4>1. QED BY <1>1, <3>1, <3>2, <3>3
        <3>5. QED BY <3>4
    <2>5. CASE end # 0
        <3>1. p = [part |-> InItsPlace(dc, ctx, SubSeq(s, from, end - 1)), from |-> from, end |-> end]
            BY <1>4, <2>1, <2>5 DEF PartAt
        <3>2. from \in 1 .. Len(s) /\ end \in from .. Len(s) + 1 /\ end > 1
            BY <2>2, <2>3, <2>5
        <3>3. Place(s, p)
            <4> HIDE DEF p
            <4>1. QED BY <1>2, <3>1, <3>2
        <3>4. QED BY <3>3
    <2>6. QED BY <2>4, <2>5
<1>5. QED BY <1>3, <1>4 DEF p, link

\* Whatever it is put into, a text is put out whole.
LEMMA ReplaceCarries ==
    ASSUME Maps, NEW ctx, NEW s, s \in Seq(STRING)
    PROVE  Carries(Replace(dc, ctx, s), s)
<1> DEFINE n == Len(s)
           P(t) == PartAt(dc, ctx, t, LinkIn(t))
           stop == {t \in Seq(STRING) : NoLink(t, LinkIn(t))}
           base == [t \in Seq(STRING) |-> Text(t)]
           left == [t \in Seq(STRING) |-> UpTo(t, P(t).from - 1)]
           mid == [t \in Seq(STRING) |-> P(t).part]
           midOf == [t \in Seq(STRING) |-> SubSeq(t, P(t).from, P(t).end - 1)]
           right == [t \in Seq(STRING) |-> From(t, P(t).end)]
           IsIt(f) == f = [t \in {x \in Seq(STRING) : Len(x) <= Len(s)} |->
                              IF NoLink(t, LinkIn(t)) THEN Text(t)
                              ELSE f[UpTo(t, P(t).from - 1)] \o P(t).part \o f[From(t, P(t).end)]]
           F == CHOOSE f : IsIt(f)
<1>1. ASSUME NEW t, t \in Seq(STRING), t \notin stop
      PROVE  /\ left[t] \in Seq(STRING) /\ Len(left[t]) < Len(t)
             /\ right[t] \in Seq(STRING) /\ Len(right[t]) < Len(t)
             /\ Carries(mid[t], midOf[t]) /\ t = left[t] \o midOf[t] \o right[t]
    <2> DEFINE p == P(t)
               i == p.from
               j == p.end
    <2>1. ~NoLink(t, LinkIn(t))
        BY <1>1
    <2>2. Place(t, p)
        BY <1>1, <2>1, PlaceIs
    <2>3. left[t] = UpTo(t, i - 1) /\ right[t] = From(t, j) /\ mid[t] = p.part /\ midOf[t] = SubSeq(t, i, j - 1)
        BY <1>1
    <2> HIDE DEF p, left, mid, midOf, right, stop
    <2>4. /\ i \in 1 .. Len(t) /\ j \in i .. Len(t) + 1 /\ j > 1
          /\ Carries(p.part, SubSeq(t, i, j - 1))
        BY <2>2 DEF Place
    <2> HIDE DEF i, j
    <2>5. i \in 1 .. Len(t) + 1 /\ Len(t) \in Nat
        BY <1>1, <2>4
    <2>6. /\ UpTo(t, i - 1) \in Seq(STRING) /\ From(t, j) \in Seq(STRING)
          /\ Len(UpTo(t, i - 1)) = i - 1 /\ Len(From(t, j)) = Len(t) - j + 1
          /\ (UpTo(t, i - 1) \o SubSeq(t, i, j - 1)) \o From(t, j) = t
        <3>1. t \in Seq(STRING) /\ i \in 1 .. Len(t) + 1 /\ j \in i .. Len(t) + 1
            BY <1>1, <2>4, <2>5
        <3>2. QED BY ONLY <3>1, CutInThree, Zenon
    <2>7. i - 1 < Len(t) /\ Len(t) - j + 1 < Len(t)
        BY <2>4, <2>5
    <2>8. QED BY <2>3, <2>4, <2>6, <2>7
<1>2. ASSUME NEW t, t \in Seq(STRING), t \in stop PROVE Carries(base[t], t)
    <2>1. base[t] = Text(t)
        BY <1>2
    <2>2. Carries(Text(t), t)
        BY <1>2, CarriesText
    <2>3. QED BY <2>1, <2>2
<1>3. ASSUME NEW f PROVE IsIt(f) <=> Halved(f, n, stop, base, left, mid, right)
    <2> DEFINE A(t) == IF NoLink(t, LinkIn(t)) THEN Text(t)
                       ELSE f[UpTo(t, P(t).from - 1)] \o P(t).part \o f[From(t, P(t).end)]
               B(t) == IF t \in stop THEN base[t] ELSE f[left[t]] \o mid[t] \o f[right[t]]
    <2>1. ASSUME NEW t, t \in Shorter(n) PROVE A(t) = B(t)
        <3>1. t \in Seq(STRING)
            BY <2>1 DEF Shorter
        <3>2. (t \in stop <=> NoLink(t, LinkIn(t))) /\ base[t] = Text(t)
            BY <3>1
        <3>3. left[t] = UpTo(t, P(t).from - 1) /\ mid[t] = P(t).part /\ right[t] = From(t, P(t).end)
            BY <3>1
        <3> HIDE DEF stop, base, left, mid, right, P
        <3>4. QED BY <3>2, <3>3
    <2>2. IsIt(f) <=> f = [t \in Shorter(n) |-> A(t)]
        BY DEF Shorter
    <2>3. Halved(f, n, stop, base, left, mid, right) <=> f = [t \in Shorter(n) |-> B(t)]
        BY DEF Halved
    <2> HIDE DEF A, B, IsIt
    <2>4. [t \in Shorter(n) |-> A(t)] = [t \in Shorter(n) |-> B(t)]
        BY <2>1
    <2>5. QED BY <2>2, <2>3, <2>4
<1>4. Halves(stop, left, right)
    <2> HIDE DEF stop, left, mid, midOf, right
    <2>1. QED BY <1>1 DEF Halves
<1>5. /\ \A t \in Seq(STRING) : t \in stop => Carries(base[t], t)
      /\ \A t \in Seq(STRING) : t \notin stop =>
             Carries(mid[t], midOf[t]) /\ t = left[t] \o midOf[t] \o right[t]
    <2> HIDE DEF stop, base, left, mid, midOf, right
    <2>1. QED BY <1>1, <1>2
<1>6. n \in Nat /\ s \in Shorter(n)
    BY DEF Shorter
<1>7. Replace(dc, ctx, s) = F[s]
    BY DEF Replace
<1> HIDE DEF n, stop, base, left, mid, midOf, right, IsIt
<1>8. \E f : Halved(f, n, stop, base, left, mid, right)
    BY ONLY <1>4, <1>6, HalvedExists
<1>9. IsIt(F)
    BY <1>3, <1>8
<1> HIDE DEF F
<1>10. Halved(F, n, stop, base, left, mid, right)
    BY <1>3, <1>9
<1>11. \A t \in Shorter(n) : Carries(F[t], t)
    BY ONLY <1>4, <1>5, <1>6, <1>10, HalvedCarries
<1>12. QED BY <1>6, <1>7, <1>11

LEMMA ReplaceHTTPCarries ==
    ASSUME Maps, NEW ctx, NEW s, s \in Seq(STRING)
    PROVE  Carries(ReplaceHTTPAndConvert(dc, ctx, s), s)
BY ReplaceCarries, CarriesText DEF ReplaceHTTPAndConvert

\* The calls of ReplaceHTTPAndConvert among the parts are made.
LEMMA FinishedCarries ==
    ASSUME Maps, NEW put, NEW s, Carries(put.out, s)
    PROVE  Carries(Finished(dc, put).out, s)
<1>1. PICK U : put.out \in Seq(AnyPart(U)) /\ StandsFor(put.out) = s
    BY DEF Carries
<1> DEFINE out == put.out
           What(p) == IF p.kind \in {"call", "more"} THEN ReplaceHTTPAndConvert(dc, put.c, p.from) ELSE <<p>>
           g == [p \in AnyPart(U) |-> What(p)]
<1>2. ASSUME NEW p, p \in AnyPart(U) PROVE Carries(g[p], p.from)
    <2>1. /\ p.kind \in PartKinds /\ p.from \in Seq(STRING) /\ p = [kind |-> p.kind, from |-> p.from, to |-> p.to]
          /\ AsItShould(ThePart(p.kind, p.from, p.to))
        BY <1>2 DEF AnyPart, ThePart
    <2>2. g[p] = What(p)
        BY <1>2
    <2>3. Carries(Part(p.kind, p.from, p.to), p.from)
        BY <2>1, CarriesPart
    <2>4. Part(p.kind, p.from, p.to) = <<p>>
        BY <2>1 DEF Part
    <2>5. Carries(ReplaceHTTPAndConvert(dc, put.c, p.from), p.from)
        BY <2>1, ReplaceHTTPCarries
    <2>6. QED BY <2>2, <2>3, <2>4, <2>5
<1>3. Finished(dc, put).out = SpreadOf(g, out)
    <2>1. ASSUME NEW i, i \in DOMAIN out PROVE g[out[i]] = What(out[i])
        <3>1. out[i] \in AnyPart(U)
            BY <1>1, <2>1
        <3>2. QED BY <3>1
    <2>2. DOMAIN out = 1 .. Len(out)
        BY <1>1
    <2>3. Mapped1(g, out) = [i \in DOMAIN out |-> What(out[i])]
        <3> HIDE DEF g, out
        <3>1. QED BY <2>1, <2>2 DEF Mapped1
    <2>4. Finished(dc, put).out = FlattenSeq([i \in DOMAIN out |-> What(out[i])])
        BY DEF Finished
    <2> HIDE DEF g, out, What
    <2>5. QED BY <2>3, <2>4 DEF SpreadOf
<1>4. Carries(SpreadOf(g, out), StandsFor(out))
    <2>1. out \in Seq(AnyPart(U))
        BY <1>1
    <2> HIDE DEF g, out
    <2>2. QED BY <1>2, <2>1, CarriesAll
<1>5. QED BY <1>1, <1>3, <1>4

-----------------------------------------------------------------------------
(* "\" and "/" *)

Straighten(x) == IF x = "\\" THEN "/" ELSE x
LEMMA StraightIs ==
    ASSUME NEW s, s \in Seq(STRING)
    PROVE  /\ Straight(s) \in Seq(STRING) /\ Len(Straight(s)) = Len(s)
           /\ \A i \in 1 .. Len(s) : Straight(s)[i] = Straighten(s[i])
<1>1. ASSUME NEW i \in 1 .. Len(s) PROVE Straighten(s[i]) \in STRING
    BY SymbolsAssumption DEF Straighten
<1>2. DOMAIN s = 1 .. Len(s) /\ Len(s) \in Nat
    OBVIOUS
<1>3. Straight(s) = [i \in 1 .. Len(s) |-> Straighten(s[i])]
    BY <1>2 DEF Straight, Straighten
<1> DEFINE z == Straight(s)
<1>4. z \in [1 .. Len(s) -> STRING]
    BY <1>1, <1>3
<1>5. z \in Seq(STRING) /\ Len(z) = Len(s)
    <2> HIDE DEF z
    <2>1. QED BY <1>2, <1>4, FunctionIsSeq
<1>6. QED BY <1>3, <1>5

\* Two sequences of the same symbols.
LEMMA SameSymbols ==
    ASSUME NEW a, NEW b, a \in Seq(STRING), b \in Seq(STRING), Len(a) = Len(b),
           \A i \in 1 .. Len(a) : a[i] = b[i]
    PROVE  a = b
OBVIOUS

LEMMA StraightConcat ==
    ASSUME NEW s, NEW t, s \in Seq(STRING), t \in Seq(STRING)
    PROVE  s \o t \in Seq(STRING) /\ Straight(s \o t) = Straight(s) \o Straight(t)
<1> DEFINE st == s \o t
           a == Straight(s)
           b == Straight(t)
           ab == a \o b
           z == Straight(st)
<1>1. st \in Seq(STRING) /\ Len(st) = Len(s) + Len(t)
      /\ \A i \in 1 .. Len(s) + Len(t) : st[i] = IF i <= Len(s) THEN s[i] ELSE t[i - Len(s)]
    BY ConcatProperties
<1>2. /\ a \in Seq(STRING) /\ Len(a) = Len(s) /\ \A i \in 1 .. Len(s) : a[i] = Straighten(s[i])
      /\ b \in Seq(STRING) /\ Len(b) = Len(t) /\ \A i \in 1 .. Len(t) : b[i] = Straighten(t[i])
    BY StraightIs
<1>3. z \in Seq(STRING) /\ Len(z) = Len(st) /\ \A i \in 1 .. Len(st) : z[i] = Straighten(st[i])
    <2> HIDE DEF st
    <2>1. QED BY <1>1, StraightIs
<1> HIDE DEF a, b, z, st
<1>4. ab \in Seq(STRING) /\ Len(ab) = Len(a) + Len(b)
      /\ \A i \in 1 .. Len(a) + Len(b) : ab[i] = IF i <= Len(a) THEN a[i] ELSE b[i - Len(a)]
    <2>1. ASSUME NEW u, NEW v, u \in Seq(STRING), v \in Seq(STRING)
          PROVE  /\ u \o v \in Seq(STRING) /\ Len(u \o v) = Len(u) + Len(v)
                 /\ \A i \in 1 .. Len(u) + Len(v) : (u \o v)[i] = IF i <= Len(u) THEN u[i] ELSE v[i - Len(u)]
        BY <2>1, ConcatProperties
    <2>2. QED BY ONLY <1>2, <2>1 DEF ab
<1> HIDE DEF ab
<1>5. Len(s) \in Nat /\ Len(t) \in Nat
    OBVIOUS
<1>6. ASSUME NEW i \in 1 .. Len(s) + Len(t) PROVE z[i] = ab[i]
    <2>1. CASE i <= Len(s)
        <3>1. i \in 1 .. Len(s)
            BY <1>5, <2>1
        <3>2. QED BY <1>1, <1>2, <1>3, <1>4, <2>1, <3>1
    <2>2. CASE ~(i <= Len(s))
        <3>1. i - Len(s) \in 1 .. Len(t)
            BY <1>5, <2>2
        <3>2. QED BY <1>1, <1>2, <1>3, <1>4, <2>2, <3>1
    <2>3. QED BY <2>1, <2>2
<1>7. z = ab
    BY <1>1, <1>2, <1>3, <1>4, <1>6, SameSymbols
<1>8. QED BY <1>1, <1>7 DEF z, ab, a, b, st

LEMMA SlashedIs ==
    ASSUME NEW s, s \in Seq(STRING)
    PROVE  Slashed(s) \in Seq(STRING) /\ Straight(Slashed(s)) = Straight(s)
<1> DEFINE x == Slashed(s)
           What(i) == IF i < StopAt(s) /\ s[i] = "\\" THEN "/" ELSE s[i]
           a == Straight(x)
           b == Straight(s)
<1>1. DOMAIN s = 1 .. Len(s) /\ Len(s) \in Nat
    OBVIOUS
<1>2. x = [i \in 1 .. Len(s) |-> What(i)]
    BY <1>1 DEF Slashed
<1>3. ASSUME NEW i \in 1 .. Len(s) PROVE What(i) \in STRING /\ Straighten(What(i)) = Straighten(s[i])
    BY SymbolsAssumption DEF Straighten
<1>4. x \in Seq(STRING) /\ Len(x) = Len(s) /\ \A i \in 1 .. Len(s) : x[i] = What(i)
    <2> HIDE DEF What
    <2>1. x \in [1 .. Len(s) -> STRING]
        BY <1>2, <1>3
    <2>2. \A i \in 1 .. Len(s) : x[i] = What(i)
        BY <1>2
    <2> HIDE DEF x
    <2>3. QED BY <1>1, <2>1, <2>2, FunctionIsSeq
<1> HIDE DEF x, What
<1>5. a \in Seq(STRING) /\ Len(a) = Len(x) /\ \A i \in 1 .. Len(x) : a[i] = Straighten(x[i])
    BY <1>4, StraightIs
<1>6. b \in Seq(STRING) /\ Len(b) = Len(s) /\ \A i \in 1 .. Len(s) : b[i] = Straighten(s[i])
    BY StraightIs
<1> HIDE DEF a, b
<1>7. a = b
    BY <1>3, <1>4, <1>5, <1>6, SameSymbols
<1>8. QED BY <1>4, <1>7 DEF a, b, x

\* The reference as ChangeUrl leaves it in the page.
LEMMA ReferenceStays ==
    ASSUME NEW ctx, NEW ref, ref \in Seq(STRING)
    PROVE  ChangeUrl(dc, ctx, ref).ref \in Seq(STRING) /\ Straight(ChangeUrl(dc, ctx, ref).ref) = Straight(ref)
<1> DEFINE seen == Slashed(ref)
           stop == StopAt(ref)
           abs == build_absolute_path(Width(dc), ctx.base, TrimRight(seen), ctx.stack.colon)
<1>1. ASSUME NEW x, NEW y PROVE LinkOrKeep(dc, ctx, x, y).ref = x
    <2>1. ASSUME NEW u PROVE Kept(u, x).ref = x /\ Link(u, x).ref = x /\ Unset(x).ref = x
        BY DEF Kept, Link, Unset
    <2> DEFINE some == y # NoUrl /\ (Head(y) \notin Schemes \/ match_domain(Host(y), dc.exclude))
               url == IF KeepUrlSuffix(dc, y) \/ IsPicture(dc, y) \/ ctx.ignore THEN y ELSE Prefixed(dc, y)
    <2>2. LinkOrKeep(dc, ctx, x, y) = CASE y = NoUrl -> Unset(x) [] some -> Kept(TrimRight(x), x)
                                         [] OTHER -> Link(url, x)
        BY DEF LinkOrKeep
    <2> HIDE DEF some, url
    <2>3. QED BY <2>1, <2>2
<1>2. \/ ChangeUrl(dc, ctx, ref) = Kept(ref, ref)
      \/ ChangeUrl(dc, ctx, ref) = Kept(seen, seen)
      \/ ChangeUrl(dc, ctx, ref) = LinkOrKeep(dc, ctx, seen, abs)
    BY DEF ChangeUrl
<1>3. Kept(ref, ref).ref = ref /\ Kept(seen, seen).ref = seen
    BY DEF Kept
<1>4. seen \in Seq(STRING) /\ Straight(seen) = Straight(ref)
    BY SlashedIs
<1>5. ChangeUrl(dc, ctx, ref).ref = ref \/ ChangeUrl(dc, ctx, ref).ref = seen
    <2> HIDE DEF seen, abs
    <2>1. QED BY <1>1, <1>2, <1>3
<1>6. QED BY <1>4, <1>5

\* The parts carry s, but for "\".
Keeps(out, s) == \E t \in Seq(STRING) : Carries(out, t) /\ Straight(t) = Straight(s)

LEMMA CarriesKeeps ==
    ASSUME NEW out, NEW s, s \in Seq(STRING), Carries(out, s)
    PROVE  Keeps(out, s)
BY DEF Keeps

-----------------------------------------------------------------------------
(* Tags *)

InText(s, v) == v.from \in 1 .. Len(s) /\ v.end \in v.from .. Len(s) + 1
LEMMA ValueAtIs ==
    ASSUME NEW s, s \in Seq(STRING), NEW at, NEW b, b \in 1 .. Len(s), b # Len(s)
    PROVE  LET x == ValueAt(s, at, b)
           IN  x = NoValue \/ (x.from \in 1 .. Len(s) + 1 /\ x.end \in 0 .. Len(s))
<1> DEFINE x == ValueAt(s, at, b)
           Good(z) == z = NoValue \/ (z.from \in 1 .. Len(s) + 1 /\ z.end \in 0 .. Len(s))
<1>1. b + 1 \in 1 .. Len(s) /\ b + 2 \in 1 .. Len(s) + 1 /\ Len(s) \in Nat /\ b \in Nat
    OBVIOUS
<1>2. ASSUME NEW q PROVE QuoteEnd(s, b + 1, q) \in 0 .. Len(s)
    <2> DEFINE T == {k \in b + 1 .. Len(s) : s[k] = q}
               e == SelectInSubSeq(s, b + 1, Len(s), LAMBDA y : y = q)
               lo == b + 1
    <2>1. e = IF T # {} THEN Min(T) ELSE 0
        BY DEF SelectInSubSeq
    <2>2. lo \in Nat /\ \A k \in T : k \in lo .. Len(s)
        BY <1>1
    <2>3. QuoteEnd(s, b + 1, q) = IF Cardinality({i \in b + 1 .. e : s[i] = "+"}) > 1 THEN 0 ELSE e
        BY DEF QuoteEnd
    <2>4. e = 0 \/ e \in lo .. Len(s)
        <3> HIDE DEF T, e, lo
        <3>1. QED BY <1>1, <2>1, <2>2, LeastOrNone
    <2>5. e \in 0 .. Len(s)
        <3> HIDE DEF e
        <3>1. QED BY <1>1, <2>4
    <2> HIDE DEF e
    <2>6. QED BY <1>1, <2>3, <2>5
<1>3. BareEnd(s, b, at) \in 0 .. Len(s)
    <2> DEFINE open == SelectLastInSubSeq(s, 2, at, LAMBDA y : y \in Quotes \cup {"="})
               stop == IF Name(s) = "meta" /\ open > 0 /\ s[open] # "=" THEN {s[open]} ELSE {}
               ends == EndOfTag \cup stop
               T == {k \in b .. Len(s) : s[k] \in ends}
               e == BareEnd(s, b, at)
    <2>1. e = IF T # {} THEN Min(T) ELSE 0
        BY DEF BareEnd, SelectInSubSeq
    <2> HIDE DEF ends
    <2>2. \A k \in T : k \in b .. Len(s)
        BY <1>1
    <2> HIDE DEF T, e
    <2>3. e = 0 \/ e \in b .. Len(s)
        BY <1>1, <2>1, <2>2, LeastOrNone
    <2>4. e \in 0 .. Len(s)
        BY <1>1, <2>3
    <2>5. QED BY <2>4 DEF e
<1>4. ASSUME NEW t, Len(t) = 2 PROVE b + 1 + Find(From(s, b + 2), t) \in 0 .. Len(s)
    <2> DEFINE w == From(s, b + 2)
               j == b + 2
               e == Find(w, t)
    <2>1. w \in Seq(STRING) /\ Len(w) = Len(s) - b - 1
        <3>1. 1 \in 1 .. Len(s) + 1 /\ j \in 1 .. Len(s) + 1 /\ Len(s) - j + 1 = Len(s) - b - 1 /\ w = From(s, j)
            BY <1>1
        <3> HIDE DEF w, j
        <3>2. From(s, j) \in Seq(STRING) /\ Len(From(s, j)) = Len(s) - j + 1
            BY <3>1, CutInThree
        <3>3. QED BY <3>1, <3>2
    <2> HIDE DEF w
    <2>2. e = 0 \/ (e \in 1 .. Len(w) /\ e + 2 - 1 \in 1 .. Len(w))
        <3>1. Len(t) \in Nat \ {0}
            BY <1>4
        <3>2. QED BY <1>4, <2>1, <3>1, FindIs
    <2> HIDE DEF e
    <2>3. b + 1 + e \in 0 .. Len(s)
        BY <1>1, <2>1, <2>2
    <2>4. QED BY <2>3 DEF e, w
<1>5. CASE s[b] \in Quotes
    <2>1. x = [from |-> b + 1, end |-> QuoteEnd(s, b + 1, s[b])]
        BY <1>5 DEF ValueAt, Quotes
    <2>2. x.from = b + 1 /\ x.end = QuoteEnd(s, b + 1, s[b])
        BY <2>1
    <2>3. b + 1 \in 1 .. Len(s) + 1
        BY <1>1
    <2> HIDE DEF x
    <2>4. Good(x)
        BY <1>2, <2>2, <2>3
    <2>5. QED BY <2>4 DEF x
<1>6. CASE s[b] \notin Quotes /\ s[b] = "\\" /\ s[b + 1] \in Quotes
    <2> DEFINE t == <<"\\", s[b + 1]>>
               e == Find(From(s, b + 2), t)
               end == b + 1 + e
    <2>1. Len(t) = 2
        OBVIOUS
    <2>2. end \in 0 .. Len(s)
        <3> HIDE DEF t
        <3>1. QED BY <1>4, <2>1
    <2>3. x = IF s[b + 2] = s[b + 1] \/ e = 0 THEN NoValue ELSE [from |-> b + 2, end |-> end]
        BY <1>6 DEF ValueAt
    <2> HIDE DEF end, e, x
    <2>4. Good(x)
        BY <1>1, <2>2, <2>3
    <2>5. QED BY <2>4 DEF x
<1>7. CASE ~(s[b] \in Quotes) /\ ~(s[b] = "\\" /\ s[b + 1] \in Quotes)
    <2>1. x = [from |-> b, end |-> BareEnd(s, b, at)]
        BY <1>7 DEF ValueAt
    <2>2. x.from = b /\ x.end = BareEnd(s, b, at) /\ b \in 1 .. Len(s) + 1
        BY <1>1, <2>1
    <2> HIDE DEF x
    <2>3. Good(x)
        BY <1>3, <2>2
    <2>4. QED BY <2>3 DEF x
<1>8. QED BY <1>5, <1>6, <1>7

LEMMA ValueIs ==
    ASSUME NEW s, s \in Seq(STRING), NEW attr
    PROVE  Value(s, attr) = NoValue \/ InText(s, Value(s, attr))
<1> DEFINE NextOf(i, marks) == SelectInSubSeq(s, i + 1, Len(s), LAMBDA x : x \notin marks)
           at == SelectInSubSeq(s, NameAt(s) + 1, Len(s), LAMBDA x : x = attr)
           eq == NextOf(at, {" ", "\t"})
           b == NextOf(eq, Blanks)
           v == ValueAt(s, at, b)
<1>1. \/ Value(s, attr) = NoValue
      \/ /\ ~(at = 0 \/ eq = 0 \/ b \in {0, Len(s)})
         /\ Value(s, attr) = IF v.end <= v.from THEN NoValue ELSE v
    BY DEF Value
<1>2. Len(s) \in Nat
    OBVIOUS
<1>3. ASSUME NEW i \in Nat, NEW marks PROVE NextOf(i, marks) = 0 \/ NextOf(i, marks) \in i + 1 .. Len(s)
    <2> DEFINE T == {k \in i + 1 .. Len(s) : s[k] \notin marks}
               e == NextOf(i, marks)
               lo == i + 1
    <2>1. e = IF T # {} THEN Min(T) ELSE 0
        BY DEF SelectInSubSeq
    <2>2. lo \in Nat /\ \A k \in T : k \in lo .. Len(s)
        BY <1>2
    <2>3. e = 0 \/ e \in lo .. Len(s)
        <3> HIDE DEF T, e, lo
        <3>1. QED BY <1>2, <2>1, <2>2, LeastOrNone
    <2>4. QED BY <2>3
<1>4. NameAt(s) \in Nat
    <2> DEFINE T == {k \in 2 .. Len(s) : s[k] \notin Blanks}
               e == NameAt(s)
    <2>1. e = IF T # {} THEN Min(T) ELSE 0
        BY DEF NameAt, SelectInSubSeq
    <2>2. 2 \in Nat /\ \A k \in T : k \in 2 .. Len(s)
        BY <1>2
    <2> HIDE DEF T, e
    <2>3. e = 0 \/ e \in 2 .. Len(s)
        BY <1>2, <2>1, <2>2, LeastOrNone
    <2>4. e \in Nat
        BY <2>3
    <2>5. QED BY <2>4 DEF e
<1>5. at \in Nat
    <2> DEFINE T == {k \in NameAt(s) + 1 .. Len(s) : s[k] = attr}
               lo == NameAt(s) + 1
    <2>1. at = IF T # {} THEN Min(T) ELSE 0
        BY DEF SelectInSubSeq
    <2>2. lo \in Nat /\ \A k \in T : k \in lo .. Len(s)
        BY <1>2, <1>4
    <2> HIDE DEF T, at, lo
    <2>3. at = 0 \/ at \in lo .. Len(s)
        BY <1>2, <2>1, <2>2, LeastOrNone
    <2>4. QED BY <1>2, <2>2, <2>3
<1> HIDE DEF NextOf, at
<1>6. eq \in Nat
    <2>1. eq = 0 \/ eq \in at + 1 .. Len(s)
        BY <1>3, <1>5
    <2> HIDE DEF eq
    <2>2. QED BY <1>2, <1>5, <2>1
<1> HIDE DEF eq
<1>7. b = 0 \/ b \in eq + 1 .. Len(s)
    BY <1>3, <1>6
<1> HIDE DEF b
<1>8. SUFFICES ASSUME b \in 1 .. Len(s), b # Len(s), v.end > v.from
               PROVE  v = NoValue \/ InText(s, v)
    <2>1. CASE Value(s, attr) = NoValue
        BY <2>1
    <2>2. CASE ~(at = 0 \/ eq = 0 \/ b \in {0, Len(s)})
               /\ Value(s, attr) = IF v.end <= v.from THEN NoValue ELSE v
        <3>1. b \in 1 .. Len(s) /\ b # Len(s)
            BY <1>2, <1>6, <1>7, <2>2
        <3>2. v = NoValue \/ (v.from \in 1 .. Len(s) + 1 /\ v.end \in 0 .. Len(s))
            BY <3>1, ValueAtIs
        <3>3. NoValue.from = 0 /\ NoValue.end = 0
            BY DEF NoValue
        <3> HIDE DEF v
        <3>4. CASE v.end <= v.from
            BY <2>2, <3>4
        <3>5. CASE ~(v.end <= v.from)
            <4>1. v.end > v.from
                BY <3>2, <3>3, <3>5
            <4>2. Value(s, attr) = v
                BY <2>2, <3>5
            <4>3. QED BY <3>1, <4>1, <4>2 DEF v
        <3>6. QED BY <3>4, <3>5
    <2>3. QED BY <1>1, <2>1, <2>2
<1>9. v = NoValue \/ (v.from \in 1 .. Len(s) + 1 /\ v.end \in 0 .. Len(s))
    BY <1>8, ValueAtIs
<1>10. QED
    <2> HIDE DEF v
    <2>1. CASE v.from \in 1 .. Len(s) + 1 /\ v.end \in 0 .. Len(s)
        <3>1. v.from \in 1 .. Len(s) /\ v.end \in v.from .. Len(s) + 1
            BY <1>2, <1>8, <2>1
        <3>2. QED BY <3>1 DEF InText
    <2>2. QED BY <1>9, <2>1

\* What is put out for a value that is not an address.
LEMMA OtherValueIs ==
    ASSUME NEW ctx, NEW value, value \in Seq(STRING)
    PROVE  Carries(OtherValue(dc, ctx, value), value)
<1> DEFINE u == ChangeUrl(dc, ctx, value)
           url == u.url
           block == BuildBase64Block(value)
           blocked == Find(value, <<".", "/">>) = 0 /\ ~Has(value, "?")
<1>1. OtherValue(dc, ctx, value) =
          CASE blocked -> Part("value", value, block)
            [] OTHER -> IF u.set THEN Part("value", value, url) ELSE Part("dropped", value, <<>>)
    BY DEF OtherValue
<1>2. ~u.set => LooksInto(value)
    BY SetOrLookedInto
<1>3. "value" \in FreeKinds /\ "value" \in PartKinds /\ "dropped" \in PartKinds
    BY DEF FreeKinds, PartKinds
<1> HIDE DEF u, url, block, blocked
<1>4. Carries(Part("value", value, url), value) /\ Carries(Part("value", value, block), value)
    BY <1>3, PartFits, CarriesPart
<1>5. ~u.set => Carries(Part("dropped", value, <<>>), value)
    BY <1>2, <1>3, PartFits, CarriesPart
<1>6. QED BY <1>1, <1>4, <1>5

\* What is put out for a tag with the value found in it.
LEMMA ModifyKeeps ==
    ASSUME NEW ctx, NEW s, s \in Seq(STRING), NEW attr, NEW v, v = NoValue \/ InText(s, v)
    PROVE  Keeps(ModifyValue(dc, ctx, s, attr, v), s)
<1> DEFINE value  == SubSeq(s, v.from, v.end - 1)
           head   == UpTo(s, v.from - 1)
           tail   == From(s, v.end)
           coded  == dc.valueLevel > 0 /\ attr = "value"
           script == dc.scriptLevel > 0 /\ Name(s) = "script"
           u      == ChangeUrl(dc, ctx, IF script THEN TrimRight(value) ELSE value)
           other  == OtherValue(dc, ctx, value)
           m      == ModifyValue(dc, ctx, s, attr, v)
           none   == ~dc.shouldChange \/ v = NoValue \/ (coded /\ ~Has(value, "%"))
           plain  == dc.shouldChange /\ v # NoValue /\ (coded => Has(value, "%"))
                         /\ (coded \/ Name(s) = "option")
           B == Raw(head) \o other \o Raw(tail)
           L == Call(head) \o Part("link", value, u.url) \o Call(tail)
           M == Call(IF script THEN s ELSE head \o u.ref \o tail)
<1>1. m = CASE none -> Call(s) [] plain -> B [] OTHER -> IF u.ok THEN L ELSE M
    BY DEF ModifyValue
<1>2. m = Call(s) \/ (v # NoValue /\ (m = B \/ m = L \/ m = M))
    <2>1. v = NoValue => none
        OBVIOUS
    <2>2. plain => v # NoValue
        OBVIOUS
    <2> HIDE DEF m, none, plain, B, L, M, u
    <2>3. QED BY <1>1, <2>1, <2>2
<1>3. Keeps(Call(s), s)
    BY CarriesText, CarriesKeeps
<1>4. ASSUME v # NoValue PROVE Keeps(B, s) /\ Keeps(L, s) /\ Keeps(M, s)
    <2> DEFINE i == v.from
               j == v.end
    <2>1. i \in 1 .. Len(s) + 1 /\ j \in i .. Len(s) + 1
        BY <1>4 DEF InText
    <2> HIDE DEF i, j
    <2>2. UpTo(s, i - 1) \in Seq(STRING) /\ SubSeq(s, i, j - 1) \in Seq(STRING) /\ From(s, j) \in Seq(STRING)
          /\ UpTo(s, i - 1) \o SubSeq(s, i, j - 1) \o From(s, j) = s
        BY <2>1, CutInThree
    <2>3. head \in Seq(STRING) /\ value \in Seq(STRING) /\ tail \in Seq(STRING) /\ head \o value \o tail = s
        BY <2>2 DEF i, j
    <2>4. "link" \in PartKinds /\ "link" \in FreeKinds
        BY DEF PartKinds, FreeKinds
    <2> HIDE DEF head, value, tail, other, script
    <2>5. Carries(Raw(head), head) /\ Carries(Raw(tail), tail) /\ Carries(Call(head), head) /\ Carries(Call(tail), tail)
        BY <2>3, CarriesText
    <2>6. Carries(other, value)
        BY <2>3, OtherValueIs DEF other
    <2> DEFINE url == u.url
    <2>7. Carries(Part("link", value, url), value)
        <3> HIDE DEF url
        <3>1. QED BY <2>3, <2>4, PartFits, CarriesPart
    <2>8. ASSUME NEW x, NEW y, NEW z, Carries(x, head), Carries(y, value), Carries(z, tail)
          PROVE  Keeps(x \o y \o z, s)
        <3>1. Carries(x \o y \o z, head \o value \o tail)
            BY ONLY <2>8, CarriesThree
        <3>2. Carries(x \o y \o z, s)
            BY <2>3, <3>1
        <3>3. QED BY <3>2 DEF Keeps
    <2>9. Keeps(B, s)
        BY <2>5, <2>6, <2>8
    <2>10. Keeps(L, s)
        <3> HIDE DEF u
        <3>1. QED BY <2>5, <2>7, <2>8
    <2>11. Keeps(M, s)
        <3>1. CASE script
            BY <1>3, <3>1
        <3>2. CASE ~script
            <4>1. u = ChangeUrl(dc, ctx, value)
                BY <3>2
            <4> DEFINE ref == u.ref
                       w == head \o ref \o tail
            <4>2. ref \in Seq(STRING) /\ Straight(ref) = Straight(value)
                <5>1. ChangeUrl(dc, ctx, value).ref \in Seq(STRING)
                      /\ Straight(ChangeUrl(dc, ctx, value).ref) = Straight(value)
                    BY <2>3, ReferenceStays
                <5> HIDE DEF u
                <5>2. QED BY <4>1, <5>1
            <4> HIDE DEF u, ref
            <4>3. ASSUME NEW x, x \in Seq(STRING)
                  PROVE  /\ head \o x \o tail \in Seq(STRING)
                         /\ Straight(head \o x \o tail) = Straight(head) \o Straight(x) \o Straight(tail)
                <5> DEFINE hx == head \o x
                <5>1. hx \in Seq(STRING) /\ Straight(hx) = Straight(head) \o Straight(x)
                    BY <2>3, <4>3, StraightConcat
                <5> HIDE DEF hx
                <5>2. hx \o tail \in Seq(STRING) /\ Straight(hx \o tail) = Straight(hx) \o Straight(tail)
                    BY <2>3, <5>1, StraightConcat
                <5>3. QED BY <5>1, <5>2 DEF hx
            <4>4. w \in Seq(STRING) /\ Straight(w) = Straight(head \o value \o tail)
                BY <2>3, <4>2, <4>3
            <4> HIDE DEF w
            <4>5. Straight(w) = Straight(s)
                BY <2>3, <4>4
            <4>6. Carries(Call(w), w)
                BY <4>4, CarriesText
            <4>7. M = Call(w)
                BY <3>2 DEF w, ref
            <4> HIDE DEF M
            <4>8. QED BY <4>4, <4>5, <4>6, <4>7 DEF Keeps
        <3>3. QED BY <3>1, <3>2
    <2>12. QED BY <2>9, <2>10, <2>11
<1>5. Keeps(m, s)
    <2> HIDE DEF m, B, L, M
    <2>1. QED BY <1>2, <1>3, <1>4
<1>6. QED BY <1>5

\* The name of a character set exchanged.
LEMMA OneSymbol ==
    ASSUME NEW s, s \in Seq(STRING), NEW at, at \in 1 .. Len(s)
    PROVE  /\ UpTo(s, at - 1) \in Seq(STRING) /\ <<s[at]>> \in Seq(STRING) /\ From(s, at + 1) \in Seq(STRING)
           /\ UpTo(s, at - 1) \o <<s[at]>> \o From(s, at + 1) = s
<1> DEFINE j == at + 1
           x == SubSeq(s, at, j - 1)
           y == <<s[at]>>
<1>1. at \in 1 .. Len(s) + 1 /\ j \in at .. Len(s) + 1 /\ j - at = 1 /\ 1 \in 1 .. j - at /\ at + 1 - 1 = at
    OBVIOUS
<1>2. y \in Seq(STRING) /\ Len(y) = 1 /\ y[1] = s[at]
    OBVIOUS
<1> HIDE DEF j
<1>3. x \in Seq(STRING) /\ Len(x) = j - at /\ \A k \in 1 .. j - at : x[k] = s[at + k - 1]
    BY <1>1, Between
<1> HIDE DEF x, y
<1>4. x = y
    <2>1. Len(x) = 1 /\ x[1] = s[at]
        BY <1>1, <1>3
    <2>2. QED BY <1>2, <1>3, <2>1, SameSymbols
<1>5. /\ UpTo(s, at - 1) \in Seq(STRING) /\ From(s, j) \in Seq(STRING)
      /\ UpTo(s, at - 1) \o SubSeq(s, at, j - 1) \o From(s, j) = s
    BY <1>1, CutInThree
<1>6. UpTo(s, at - 1) \o y \o From(s, j) = s
    BY <1>4, <1>5 DEF x
<1>7. QED BY <1>2, <1>5, <1>6 DEF j, y

LEMMA RenamedKeeps ==
    ASSUME NEW s, s \in Seq(STRING), NEW at, at \in 1 .. Len(s), NEW name
    PROVE  /\ Keeps(Renamed(s, at, name), s)
           /\ Keeps(Call(UpTo(s, at - 1)) \o Part("charset", <<s[at]>>, name) \o More(From(s, at + 1)), s)
<1> DEFINE head == UpTo(s, at - 1)
           x == <<s[at]>>
           tail == From(s, at + 1)
<1>1. head \in Seq(STRING) /\ x \in Seq(STRING) /\ tail \in Seq(STRING) /\ head \o x \o tail = s
    BY OneSymbol
<1>2. "charset" \in PartKinds /\ "charset" \in FreeKinds
    BY DEF PartKinds, FreeKinds
<1>3. Renamed(s, at, name) = Raw(head) \o Part("charset", x, name) \o Raw(tail)
    BY DEF Renamed
<1> HIDE DEF head, x, tail
<1>4. Carries(Raw(head), head) /\ Carries(Raw(tail), tail) /\ Carries(Call(head), head) /\ Carries(More(tail), tail)
    BY <1>1, CarriesText
<1>5. Carries(Part("charset", x, name), x)
    BY <1>1, <1>2, PartFits, CarriesPart
<1>6. ASSUME NEW a, NEW b, NEW d, Carries(a, head), Carries(b, x), Carries(d, tail)
      PROVE  Keeps(a \o b \o d, s)
    <2>1. Carries(a \o b \o d, head \o x \o tail)
        BY ONLY <1>6, CarriesThree
    <2>2. Carries(a \o b \o d, s)
        BY <1>1, <2>1
    <2>3. QED BY <2>2 DEF Keeps
<1>7. Keeps(Raw(head) \o Part("charset", x, name) \o Raw(tail), s)
    BY <1>4, <1>5, <1>6
<1>8. Keeps(Call(head) \o Part("charset", x, name) \o More(tail), s)
    BY <1>4, <1>5, <1>6
<1>9. QED BY <1>3, <1>7, <1>8 DEF head, x, tail

\* Where the names of character sets are looked for.
Look(s, lo, x) == LET T == {k \in lo .. Len(s) : s[k] = x} IN IF T # {} THEN Min(T) ELSE 0
LEMMA LookIs ==
    ASSUME NEW s, s \in Seq(STRING), NEW lo \in Nat, NEW x
    PROVE  Look(s, lo, x) \in 0 .. Len(s)
<1> DEFINE T == {k \in lo .. Len(s) : s[k] = x}
           e == Look(s, lo, x)
<1>1. e = IF T # {} THEN Min(T) ELSE 0
    BY DEF Look
<1>2. Len(s) \in Nat /\ \A k \in T : k \in lo .. Len(s)
    OBVIOUS
<1> HIDE DEF T, e
<1>3. e = 0 \/ e \in lo .. Len(s)
    BY <1>1, <1>2, LeastOrNone
<1>4. e \in 0 .. Len(s)
    BY <1>2, <1>3
<1>5. QED BY <1>4 DEF e

LEMMA CharsetPlaces ==
    ASSUME NEW s, s \in Seq(STRING)
    PROVE  XmlCharset(s) \in 0 .. Len(s) /\ MetaCharset(s) \in 0 .. Len(s) /\ ParamExchanged(s) \in 0 .. Len(s)
<1>0. Len(s) \in Nat /\ 0 \in 0 .. Len(s)
    OBVIOUS
<1>1. ASSUME NEW x PROVE First(s, x) \in Nat
    BY <1>0, FirstIs
<1>2. XmlCharset(s) \in 0 .. Len(s)
    <2> DEFINE lo == First(s, "encoding")
               Where(x) == SelectInSubSeq(s, lo, Len(s), LAMBDA y : y = x)
               known == SelectInSeq(Charsets, LAMBDA x : Where(x) > 0)
    <2>1. ASSUME NEW x PROVE Where(x) \in 0 .. Len(s)
        <3>1. lo \in Nat
            BY <1>1
        <3>2. Where(x) = Look(s, lo, x)
            BY DEF SelectInSubSeq, Look
        <3> HIDE DEF lo, Where
        <3>3. QED BY <3>1, <3>2, LookIs
    <2>2. XmlCharset(s) = IF ~Has(s, "encoding") \/ known = 0 THEN 0 ELSE Where(Charsets[known])
        BY DEF XmlCharset
    <2> HIDE DEF Where, known
    <2>3. QED BY <1>0, <2>1, <2>2
<1>3. MetaCharset(s) \in 0 .. Len(s)
    <2> DEFINE lo == First(s, "charset")
               eq == SelectInSubSeq(s, lo, Len(s), LAMBDA x : x = "=")
               T == {k \in eq + 1 .. Len(s) : s[k] \notin Blanks \cup Quotes}
               e == SelectInSubSeq(s, eq + 1, Len(s), LAMBDA x : x \notin Blanks \cup Quotes)
               to == eq + 1
    <2>1. eq \in 0 .. Len(s)
        <3>1. lo \in Nat
            BY <1>1
        <3>2. eq = Look(s, lo, "=")
            BY DEF SelectInSubSeq, Look
        <3> HIDE DEF lo, eq
        <3>3. QED BY <3>1, <3>2, LookIs
    <2> HIDE DEF eq
    <2>2. e = IF T # {} THEN Min(T) ELSE 0
        BY DEF SelectInSubSeq
    <2>3. to \in Nat /\ \A k \in T : k \in to .. Len(s)
        BY <1>0, <2>1
    <2>4. MetaCharset(s) = IF ~Has(s, "charset") \/ eq = 0 THEN 0 ELSE e
        BY DEF MetaCharset, eq
    <2>5. e = 0 \/ e \in to .. Len(s)
        <3> HIDE DEF T, e, to
        <3>1. QED BY <1>0, <2>2, <2>3, LeastOrNone
    <2> HIDE DEF e
    <2>6. e \in 0 .. Len(s)
        BY <1>0, <2>1, <2>5
    <2>7. QED BY <1>0, <2>4, <2>6
<1>4. ParamExchanged(s) \in 0 .. Len(s)
    <2> DEFINE lo == First(s, "charset")
               value == SelectInSubSeq(s, lo, Len(s), LAMBDA x : x = "value")
               Where(x) == SelectInSubSeq(s, value, Len(s), LAMBDA y : y = x)
    <2>1. value \in Nat
        <3>1. lo \in Nat
            BY <1>1
        <3>2. value = Look(s, lo, "value")
            BY DEF SelectInSubSeq, Look
        <3> HIDE DEF lo, value
        <3>3. value \in 0 .. Len(s)
            BY <3>1, <3>2, LookIs
        <3>4. QED BY <1>0, <3>3
    <2>2. ASSUME NEW x PROVE Where(x) \in 0 .. Len(s)
        <3>1. Where(x) = Look(s, value, x)
            BY DEF SelectInSubSeq, Look
        <3> HIDE DEF value, Where
        <3>2. QED BY <2>1, <3>1, LookIs
    <2>3. ParamExchanged(s) = IF Name(s) # "param" \/ ~Has(s, "charset") \/ value = 0 THEN 0
                              ELSE IF Where("gb2312") > 0 THEN Where("gb2312") ELSE Where("big5")
        BY DEF ParamExchanged
    <2> HIDE DEF value, Where
    <2>4. QED BY <1>0, <2>2, <2>3
<1>5. QED BY <1>2, <1>3, <1>4

\* A tag is put out whole, but for "\".
LEMMA ProcessTagKeeps ==
    ASSUME NEW ctx, NEW s, s \in Seq(STRING)
    PROVE  Keeps(ProcessTag(dc, ctx, s).out, s)
<1> DEFINE out == ProcessTag(dc, ctx, s).out
           xml == XmlCharset(s)
           meta == MetaCharset(s)
           param == ParamExchanged(s)
           in == Entered(dc, ctx, s)
           Other(at) == IF s[at] = "big5" THEN <<"gb2312">> ELSE <<"big5">>
           AsXml == Renamed(s, xml, XmlName(dc, ctx, s[xml]))
           AsMeta == IF meta = 0 THEN Raw(s) ELSE Renamed(s, meta, MetaName(dc, s[meta]))
           AsParam == Call(UpTo(s, param - 1)) \o Part("charset", <<s[param]>>, Other(param))
                      \o More(From(s, param + 1))
           AsAny == DoModiUrlTag(dc, in, s, AttrName(dc, in, s))
           Put(parts, c2) == [out |-> parts, c |-> c2]
           one == Name(s) = "?xml" /\ xml > 0
           two == Name(s) = "meta" /\ Has(s, "charset")
           three == Name(s) = "param" /\ param > 0
           four == ~(Name(s) = "param" /\ param > 0) /\ WithoutReference(dc, s)
<1>1. ProcessTag(dc, ctx, s) =
          CASE one -> Put(AsXml, ctx) [] two -> Put(AsMeta, in) [] three -> Put(AsParam, ctx)
            [] four -> Put(Call(s), ctx) [] OTHER -> Put(AsAny, in)
    BY DEF ProcessTag
<1>2. ASSUME NEW x, NEW y PROVE Put(x, y).out = x
    OBVIOUS
<1>3. \/ xml > 0 /\ out = AsXml
      \/ out = AsMeta
      \/ param > 0 /\ out = AsParam
      \/ out = Call(s)
      \/ out = AsAny
    <2>1. (one => xml > 0) /\ (three => param > 0)
        OBVIOUS
    <2> HIDE DEF one, two, three, four, AsXml, AsMeta, AsParam, AsAny, in, xml, param, Put
    <2>2. QED BY <1>1, <1>2, <2>1
<1>4. xml \in 0 .. Len(s) /\ meta \in 0 .. Len(s) /\ param \in 0 .. Len(s) /\ Len(s) \in Nat
    BY CharsetPlaces
<1>5. Keeps(Call(s), s) /\ Keeps(Raw(s), s)
    BY CarriesText, CarriesKeeps
<1>6. xml > 0 => Keeps(AsXml, s)
    <2> DEFINE name == XmlName(dc, ctx, s[xml])
    <2> HIDE DEF name, xml
    <2>1. SUFFICES ASSUME xml > 0 PROVE Keeps(Renamed(s, xml, name), s)
        BY DEF name
    <2>2. xml \in 1 .. Len(s)
        BY <1>4, <2>1
    <2>3. QED BY <2>2, RenamedKeeps
<1>7. Keeps(AsMeta, s)
    <2> DEFINE name == MetaName(dc, s[meta])
    <2> HIDE DEF name, meta
    <2>1. CASE meta = 0
        BY <1>5, <2>1
    <2>2. CASE meta # 0
        <3>1. meta \in 1 .. Len(s)
            BY <1>4, <2>2
        <3>2. Keeps(Renamed(s, meta, name), s)
            BY <3>1, RenamedKeeps
        <3>3. QED BY <2>2, <3>2 DEF name
    <2>3. QED BY <2>1, <2>2
<1>8. param > 0 => Keeps(AsParam, s)
    <2> DEFINE name == Other(param)
    <2> HIDE DEF name, param
    <2>1. SUFFICES ASSUME param > 0
                   PROVE  Keeps(Call(UpTo(s, param - 1)) \o Part("charset", <<s[param]>>, name)
                                \o More(From(s, param + 1)), s)
        BY DEF name
    <2>2. param \in 1 .. Len(s)
        BY <1>4, <2>1
    <2>3. QED BY <2>2, RenamedKeeps
<1>9. Keeps(AsAny, s)
    <2> DEFINE attr == AttrName(dc, in, s)
               v == Value(s, attr)
    <2>1. v = NoValue \/ InText(s, v)
        <3> HIDE DEF attr
        <3>1. QED BY ValueIs
    <2>2. AsAny = ModifyValue(dc, in, s, attr, v)
        BY DEF DoModiUrlTag
    <2> HIDE DEF attr, v, in, AsAny
    <2>3. Keeps(ModifyValue(dc, in, s, attr, v), s)
        BY <2>1, ModifyKeeps
    <2>4. QED BY <2>2, <2>3
<1> HIDE DEF out, AsXml, AsMeta, AsParam, AsAny
<1>10. Keeps(out, s)
    BY <1>3, <1>5, <1>6, <1>7, <1>8, <1>9
<1>11. QED BY <1>10 DEF out

LEMMA ProcessScriptKeeps ==
    ASSUME NEW ctx, NEW s, s \in Seq(STRING)
    PROVE  Keeps(ProcessScript(dc, ctx, s).out, s)
<1> DEFINE tag == First(s, ">")
           head == UpTo(s, tag)
           tail == From(s, tag + 1)
           done == ProcessTag(dc, ctx, head)
           out == done.out
<1>1. tag \in 0 .. Len(s)
    <2>1. tag = 0 \/ tag \in 1 .. Len(s)
        BY FirstIs
    <2> HIDE DEF tag
    <2>2. Len(s) \in Nat
        OBVIOUS
    <2>3. QED BY <2>1, <2>2
<1>2. head \in Seq(STRING) /\ tail \in Seq(STRING) /\ head \o tail = s
    <2> HIDE DEF tag
    <2>1. QED BY <1>1, CutAt
<1>3. ProcessScript(dc, ctx, s).out = out \o Call(tail)
    <2>1. DOMAIN done = {"out", "c"}
        <3> HIDE DEF head
        <3>1. QED BY DEF ProcessTag
    <2>2. ProcessScript(dc, ctx, s) = [done EXCEPT !.out = @ \o Call(tail)]
        BY DEF ProcessScript
    <2> HIDE DEF done
    <2>3. QED BY <2>1, <2>2
<1> HIDE DEF head, tail
<1>4. Keeps(out, head)
    BY <1>2, ProcessTagKeeps
<1> HIDE DEF out
<1>5. PICK t \in Seq(STRING) : Carries(out, t) /\ Straight(t) = Straight(head)
    BY <1>4 DEF Keeps
<1>6. Carries(Call(tail), tail)
    BY <1>2, CarriesText
<1>7. Carries(out \o Call(tail), t \o tail)
    <2> DEFINE x == Call(tail)
    <2>1. Carries(out, t) /\ Carries(x, tail)
        BY <1>5, <1>6
    <2> HIDE DEF x
    <2>2. Carries(out \o x, t \o tail)
        BY ONLY <2>1, CarriesBoth
    <2>3. QED BY <2>2 DEF x
<1>8. t \o tail \in Seq(STRING) /\ Straight(t \o tail) = Straight(t) \o Straight(tail)
    BY <1>2, <1>5, StraightConcat
<1>9. Straight(s) = Straight(head) \o Straight(tail)
    <2>1. Straight(head \o tail) = Straight(head) \o Straight(tail)
        BY <1>2, StraightConcat
    <2>2. QED BY <1>2, <2>1
<1>10. QED BY <1>3, <1>5, <1>7, <1>8, <1>9 DEF Keeps

\* Whatever the piece of a page, the parts put out for it stand for all of it,
\* and each is what it should be.
Arrives(out, s) ==
    /\ Straight(StandsFor(out)) = Straight(s)
    /\ \A j \in DOMAIN out : AsItShould(out[j])
LEMMA ConvertedWhole ==
    ASSUME Maps, NEW ctx, NEW item, item.s \in Seq(STRING)
    PROVE  Arrives(Converted(dc, ctx, item).out, item.s)
<1> DEFINE s == item.s
           at == IF Name(s) = "base" /\ HasLink(s) THEN [ctx EXCEPT !.base = GetLink(dc, s)] ELSE ctx
           told == [out |-> IF dc.replaceHttpInText THEN Call(s) ELSE Text(s), c |-> ctx]
           put == CASE item.kind = "text" -> told
                    [] item.kind = "script" -> ProcessScript(dc, ctx, s)
                    [] OTHER -> ProcessTag(dc, at, s)
<1>1. Converted(dc, ctx, item) = Finished(dc, put)
    BY DEF Converted
<1>2. Keeps(told.out, s)
    <2>1. Keeps(Call(s), s) /\ Keeps(Text(s), s)
        BY CarriesText, CarriesKeeps
    <2>2. told.out = Call(s) \/ told.out = Text(s)
        OBVIOUS
    <2> HIDE DEF told
    <2>3. QED BY <2>1, <2>2
<1>3. Keeps(ProcessScript(dc, ctx, s).out, s)
    BY ProcessScriptKeeps
<1>4. Keeps(ProcessTag(dc, at, s).out, s)
    <2> HIDE DEF at
    <2>1. QED BY ProcessTagKeeps
<1>5. Keeps(put.out, s)
    <2> HIDE DEF at, told
    <2>1. QED BY <1>2, <1>3, <1>4
<1> HIDE DEF put
<1>6. PICK t \in Seq(STRING) : Carries(put.out, t) /\ Straight(t) = Straight(s)
    BY <1>5 DEF Keeps
<1>7. Carries(Finished(dc, put).out, t)
    BY <1>6, FinishedCarries
<1> DEFINE out == Finished(dc, put).out
<1>8. PICK U : out \in Seq(AnyPart(U)) /\ StandsFor(out) = t
    BY <1>7 DEF Carries
<1> HIDE DEF out
<1>9. ASSUME NEW j \in DOMAIN out PROVE AsItShould(out[j])
    <2>1. out[j] \in AnyPart(U)
        BY <1>8, <1>9
    <2>2. QED BY <2>1 DEF AnyPart
<1>10. Arrives(out, s)
    BY <1>6, <1>8, <1>9 DEF Arrives
<1>11. QED BY <1>1, <1>10 DEF out

-----------------------------------------------------------------------------
(* The page, whole *)

PageItems == [kind : STRING, s : Seq(STRING)]
IsScenario == \E sc \in Scenarios : dc = sc.dc /\ site = sc.site
SoFar ==
    /\ page \in Seq(PageItems) /\ \E X : outs \in Seq(X)
    /\ pos = Len(outs) + 1 /\ Len(outs) <= Len(page)
PageInv == IsScenario /\ SoFar /\ PageWhole

LEMMA PageBegins == BrowseInit => PageInv
<1> SUFFICES ASSUME BrowseInit PROVE PageInv
    OBVIOUS
<1>1. IsScenario
    BY DEF BrowseInit, IsScenario
<1>2. page = <<>> /\ outs = <<>> /\ pos = 1 /\ phase = "request"
    BY DEF BrowseInit
<1>3. SoFar
    <2>1. <<>> \in Seq(PageItems) /\ <<>> \in Seq({}) /\ Len(<<>>) = 0
        OBVIOUS
    <2>2. QED BY <1>2, <2>1 DEF SoFar
<1>4. PageWhole
    BY <1>2 DEF PageWhole
<1>5. QED BY <1>1, <1>3, <1>4 DEF PageInv

LEMMA ArrivesStill ==
    ASSUME dc' = dc, outs' = outs, page' = page, \A i \in DOMAIN outs : Arrives(outs[i], page[i].s),
           phase' = "shown" => Len(outs) = Len(page)
    PROVE  PageWhole'
BY DEF Arrives, PageWhole, StandsFor, Straight, AsItShould, LooksInto

\* What leaves the page alone, and does not show it.
LEMMA PageStays ==
    ASSUME PageInv, UNCHANGED <<dc, site, pageVars>>, phase' = phase \/ phase' # "shown"
    PROVE  PageInv'
<1>1. dc' = dc /\ site' = site /\ page' = page /\ pos' = pos /\ outs' = outs
    BY DEF pageVars
<1>2. IsScenario' /\ SoFar'
    BY <1>1 DEF PageInv, IsScenario, SoFar
<1>3. \A i \in DOMAIN outs : Arrives(outs[i], page[i].s)
    BY DEF PageInv, PageWhole, Arrives
<1>4. phase' = "shown" => Len(outs) = Len(page)
    BY DEF PageInv, PageWhole
<1>5. PageWhole'
    BY <1>1, <1>3, <1>4, ArrivesStill
<1>6. QED BY <1>2, <1>5 DEF PageInv

LEMMA PageGoesOn == PageInv /\ [BrowseNext]_browseVars => PageInv'
<1> SUFFICES ASSUME PageInv, [BrowseNext]_browseVars PROVE PageInv'
    OBVIOUS
<1>1. CASE Request
    <2>1. dc' = dc /\ site' = site /\ page' \in Pages[site] /\ pos' = 1 /\ outs' = <<>> /\ phase' = "page"
        BY <1>1 DEF Request
    <2>2. IsScenario'
        BY <2>1 DEF PageInv, IsScenario
    <2>3. page' \in Seq(PageItems)
        <3>1. Pages[site] \subseteq Seq(PageItems)
            BY PagesAssumption DEF PageInv, IsScenario, PageItems
        <3>2. QED BY <2>1, <3>1
    <2>4. SoFar'
        <3>1. <<>> \in Seq({}) /\ Len(<<>>) = 0 /\ Len(page') \in Nat
            BY <2>3
        <3>2. QED BY <2>1, <2>3, <3>1 DEF SoFar
    <2>5. PageWhole'
        <3>1. \A i \in DOMAIN outs' : FALSE
            BY <2>1
        <3>2. QED BY <2>1, <3>1 DEF PageWhole
    <2>6. QED BY <2>2, <2>4, <2>5 DEF PageInv
<1>2. CASE Leave
    BY <1>2, PageStays DEF Leave
<1>3. ASSUME ConvertPiece, NEW left, NEW res, res = Converted(dc, [c EXCEPT !.stack = left], page[pos]),
             PutOut(res)
      PROVE  PageInv'
    <2>1. outs' = Append(outs, res.out)
        BY <1>3 DEF PutOut
    <2>2. /\ phase = "page" /\ phase' = "page" /\ pos <= Len(page) /\ pos' = pos + 1
          /\ dc' = dc /\ site' = site /\ page' = page
        BY <1>3 DEF ConvertPiece, PutOut
    <2>3. page \in Seq(PageItems) /\ pos = Len(outs) + 1 /\ Len(outs) <= Len(page)
        BY DEF PageInv, SoFar
    <2>4. PICK X : outs \in Seq(X)
        BY DEF PageInv, SoFar
    <2> DEFINE e == res.out
               Y == X \cup {e}
    <2>5. outs \in Seq(Y) /\ e \in Y
        BY <2>4
    <2> HIDE DEF Y, e
    <2>6. /\ outs' \in Seq(Y) /\ Len(outs') = Len(outs) + 1 /\ outs'[Len(outs) + 1] = e
          /\ \A i \in 1 .. Len(outs) : outs'[i] = outs[i]
        <3>1. outs' = Append(outs, e)
            BY <2>1 DEF e
        <3>2. QED BY <2>5, <3>1
    <2>7. Len(outs) \in Nat /\ pos \in 1 .. Len(page)
        BY <2>2, <2>3, <2>4
    <2>8. page[pos] \in PageItems
        BY <2>3, <2>7
    <2>9. Arrives(e, page[pos].s)
        <3> DEFINE item == page[pos]
                   ctx == [c EXCEPT !.stack = left]
        <3>1. item.s \in Seq(STRING)
            BY <2>8 DEF PageItems
        <3>2. Maps
            BY ScenariosAssumption DEF PageInv, IsScenario, Maps
        <3> HIDE DEF item, ctx
        <3>3. Arrives(Converted(dc, ctx, item).out, item.s)
            BY <3>1, <3>2, ConvertedWhole
        <3>4. QED BY <1>3, <3>3 DEF item, ctx, e
    <2>10. SoFar'
        <3>1. Len(outs') <= Len(page) /\ pos' = Len(outs') + 1
            BY <2>2, <2>3, <2>6, <2>7
        <3>2. QED BY <2>2, <2>3, <2>6, <3>1 DEF SoFar
    <2>11. ASSUME NEW i \in DOMAIN outs' PROVE Arrives(outs'[i], page[i].s)
        <3>1. i \in 1 .. Len(outs) + 1 /\ DOMAIN outs = 1 .. Len(outs)
            BY <2>4, <2>6
        <3>2. CASE i = Len(outs) + 1
            BY <2>3, <2>6, <2>9, <3>2
        <3>3. CASE i # Len(outs) + 1
            <4>1. i \in DOMAIN outs /\ outs'[i] = outs[i]
                BY <2>6, <2>7, <3>1, <3>3
            <4>2. Arrives(outs[i], page[i].s)
                BY <4>1 DEF PageInv, PageWhole, Arrives
            <4>3. QED BY <4>1, <4>2
        <3>4. QED BY <3>2, <3>3
    <2>12. PageWhole'
        BY <2>2, <2>11 DEF PageWhole, Arrives, StandsFor, Straight, AsItShould, LooksInto
    <2>13. IsScenario'
        BY <2>2 DEF PageInv, IsScenario
    <2>14. QED BY <2>10, <2>12, <2>13 DEF PageInv
<1>4. CASE PageDone
    <2>1. /\ pos > Len(page) /\ phase' = "shown"
          /\ dc' = dc /\ site' = site /\ page' = page /\ pos' = pos /\ outs' = outs
        BY <1>4 DEF PageDone, pageVars
    <2>2. IsScenario' /\ SoFar'
        BY <2>1 DEF PageInv, IsScenario, SoFar
    <2>3. Len(outs) = Len(page)
        <3>1. Len(outs) \in Nat /\ Len(page) \in Nat /\ pos = Len(outs) + 1 /\ Len(outs) <= Len(page)
            BY DEF PageInv, SoFar
        <3>2. QED BY <2>1, <3>1
    <2>4. \A i \in DOMAIN outs : Arrives(outs[i], page[i].s)
        BY DEF PageInv, PageWhole, Arrives
    <2>5. PageWhole'
        BY <2>1, <2>3, <2>4, ArrivesStill
    <2>6. QED BY <2>2, <2>5 DEF PageInv
<1>5. CASE Send
    BY <1>5, PageStays DEF Send
<1>6. CASE Body
    BY <1>6, PageStays DEF Body, webVars
<1>7. ASSUME NEW i \in DOMAIN page, Follow(i) PROVE PageInv'
    BY <1>7, PageStays DEF Follow
<1>8. CASE UNCHANGED browseVars
    BY <1>8, PageStays DEF browseVars, webVars
<1>9. ASSUME ConvertPiece, NEW res, PieceCrashes(res) PROVE PageInv'
    BY <1>9, PageStays DEF ConvertPiece, PieceCrashes, pageVars
<1>10. CASE ConvertPiece
    <2>1. PICK left, res : /\ res = Converted(dc, [c EXCEPT !.stack = left], page[pos])
                           /\ PutOut(res) \/ PieceCrashes(res)
        BY <1>10 DEF ConvertPiece
    <2>2. QED BY <1>3, <1>9, <1>10, <2>1
<1>11. QED BY <1>1, <1>2, <1>4, <1>5, <1>6, <1>7, <1>8, <1>10 DEF BrowseNext

(* Whatever the page: the parts put out for a piece of it stand for all of *)
(* that piece, in order and once, however often ReplaceHTTPAndConvert cuts *)
(* the text in two and wherever ProcessTag finds a reference; text is      *)
(* written converted, the rest of a tag as it stands, and nothing at all   *)
(* or what stands in memory only where the code passes over text behind an *)
(* address of the URL map (htmlparser.c:712) or found no address for a     *)
(* reference it looked into; and with the page shown no piece is missing.  *)
THEOREM PageArrivesWhole == BrowseSpec => []PageWhole
<1>1. PageInv => PageWhole
    BY DEF PageInv
<1>2. QED BY <1>1, PageBegins, PageGoesOn, PTL DEF BrowseSpec
=============================================================================
