---------------------------- MODULE NotFoundUrls ----------------------------
(***************************************************************************)
(* notfoundurls.c: the 404 cache that all worker threads of a process      *)
(* share, a uthash table in insertion order behind one mutex.              *)
(*                                                                         *)
(* Entries are malloc'ed nodes.  uthash threads them on a doubly linked    *)
(* list (head, hh.next, hh.prev, tbl->tail), which gives the order of age, *)
(* and hangs them on bucket chains, which is where HASH_FIND looks.  The   *)
(* chains are abstracted to the set `chained' of nodes that hang on one:   *)
(* which chain a node is on shows in no answer.                            *)
(*                                                                         *)
(* Every statement between lock and unlock is a step of its own.           *)
(***************************************************************************)
EXTENDS Naturals, Sequences, FiniteSets

CONSTANTS Threads,         \* the workers of the process
          Urls,
          Nodes,           \* addresses malloc can return, as many as memory has
          MAX_CACHE_SIZE,
          Null, Nobody

ASSUME SizeAssumption == MAX_CACHE_SIZE \in Nat /\ MAX_CACHE_SIZE >= 2
ASSUME NodesAssumption == IsFiniteSet(Nodes)
ASSUME NullAssumption == Null \notin Nodes \cup Urls /\ Nobody \notin Threads

VARIABLES
    owner,                 \* who holds hash_mutex
    head, tail,            \* urls_cache and its table's tail
    next, prev, key,       \* of each node; key is Null while it is free
    chained,               \* the nodes on the bucket chains
    num_items,             \* tbl->num_items
    pc, op, url, entry,    \* of each thread: where it is in which call
    answer,                \* what the last finished call returned
    atLock                 \* history: the URLs by age when the mutex was taken

list   == <<head, tail, next, prev>>
table  == <<list, chained, num_items>>
vars   == <<owner, table, key, pc, op, url, entry, answer, atLock>>

NoAnswer == [op |-> "none"]

Goto(t, where) == pc' = [pc EXCEPT ![t] = where]

-----------------------------------------------------------------------------
(* uthash.h *)

\* HASH_ADD_KEYPTR: the node becomes the list's tail; the first one makes the
\* table.
HashAdd(n) ==
    /\ IF head = Null
       THEN /\ head' = n /\ prev' = [prev EXCEPT ![n] = Null]
            /\ next' = [next EXCEPT ![n] = Null]
            /\ num_items' = 1 /\ chained' = {n}
       ELSE /\ prev' = [prev EXCEPT ![n] = tail]
            /\ next' = [next EXCEPT ![n] = Null, ![tail] = n]
            /\ num_items' = num_items + 1 /\ chained' = chained \cup {n}
            /\ UNCHANGED head
    /\ tail' = n

\* Wrong variant: the table's tail is not moved when the tail is deleted.
HashDeleteKeepsTail(n) ==
    IF prev[n] = Null /\ next[n] = Null
    THEN /\ head' = Null /\ tail' = Null /\ num_items' = 0 /\ chained' = {}
         /\ UNCHANGED <<next, prev>>
    ELSE /\ tail' = tail
         /\ head' = IF prev[n] = Null THEN next[n] ELSE head
         /\ next' = [m \in Nodes |-> CASE m = n -> Null [] m = prev[n] -> next[n]
                                          [] OTHER -> next[m]]
         /\ prev' = [m \in Nodes |-> CASE m = n -> Null [] m = next[n] -> prev[n]
                                          [] OTHER -> prev[m]]
         /\ num_items' = num_items - 1
         /\ chained' = chained \ {n}

\* HASH_DELETE: the last node takes the table with it.  What the deleted node's
\* own pointers still hold is not kept: HASH_ADD overwrites both.
HashDelete(n) ==
    IF prev[n] = Null /\ next[n] = Null
    THEN /\ head' = Null /\ tail' = Null /\ num_items' = 0 /\ chained' = {}
         /\ UNCHANGED <<next, prev>>
    ELSE /\ tail' = IF n = tail THEN prev[n] ELSE tail
         /\ head' = IF prev[n] = Null THEN next[n] ELSE head
         /\ next' = [m \in Nodes |-> CASE m = n -> Null [] m = prev[n] -> next[n]
                                          [] OTHER -> next[m]]
         /\ prev' = [m \in Nodes |-> CASE m = n -> Null [] m = next[n] -> prev[n]
                                          [] OTHER -> prev[m]]
         /\ num_items' = num_items - 1
         /\ chained' = chained \ {n}

HashCount == IF head = Null THEN 0 ELSE num_items

-----------------------------------------------------------------------------
(* The list, followed from head to tail *)

\* Age[k]: the k-th node from the head on, Null past the end.
Age == LET node[k \in 1 .. Cardinality(Nodes) + 1] ==
             IF k = 1 THEN head
             ELSE IF node[k - 1] = Null THEN Null ELSE next[node[k - 1]]
       IN  node

Length == Cardinality({k \in DOMAIN Age : Age[k] # Null})

UrlsByAge == [k \in 1 .. Length |-> key[Age[k]]]

-----------------------------------------------------------------------------
Init ==                                        \* init_not_found_urls_cache
    /\ owner = Nobody
    /\ head = Null /\ tail = Null
    /\ next = [n \in Nodes |-> Null] /\ prev = [n \in Nodes |-> Null]
    /\ key = [n \in Nodes |-> Null]
    /\ chained = {} /\ num_items = 0
    /\ pc = [t \in Threads |-> "idle"] /\ op = [t \in Threads |-> "none"]
    /\ url = [t \in Threads |-> Null] /\ entry = [t \in Threads |-> Null]
    /\ answer = NoAnswer /\ atLock = <<>>

\* isUrlNotFound(u) or addUrlNotFound(u) is called.
Call(t, f, u) ==
    /\ pc[t] = "idle"
    /\ Goto(t, "lock")
    /\ op' = [op EXCEPT ![t] = f] /\ url' = [url EXCEPT ![t] = u]
    /\ answer' = NoAnswer
    /\ UNCHANGED <<owner, table, key, entry, atLock>>

Lock(t) ==
    /\ pc[t] = "lock" /\ owner = Nobody
    /\ owner' = t
    /\ Goto(t, "find")
    /\ atLock' = UrlsByAge
    /\ UNCHANGED <<table, key, op, url, entry, answer>>

AfterFind(t, found) ==
    CASE op[t] = "lookup" /\ found  -> "del"
      [] op[t] = "add"    /\ ~found -> "malloc"
      [] OTHER                      -> "unlock"

Find(t) ==                                     \* HASH_FIND_STR
    /\ pc[t] = "find"
    /\ LET hits == {n \in chained : key[n] = url[t]}
       IN  /\ entry' = [entry EXCEPT ![t] = IF hits = {} THEN Null ELSE CHOOSE n \in hits : TRUE]
           /\ Goto(t, AfterFind(t, hits # {}))
    /\ UNCHANGED <<owner, table, key, op, url, answer, atLock>>

\* Wrong variant: a hit is added again without being deleted first.
DelForgotten(t) ==
    /\ pc[t] = "del"
    /\ Goto(t, "add")
    /\ UNCHANGED <<owner, table, key, op, url, entry, answer, atLock>>

Del(t) ==                                      \* isUrlNotFound: HASH_DEL ...
    /\ pc[t] = "del"
    /\ HashDelete(entry[t])
    /\ Goto(t, "add")
    /\ UNCHANGED <<owner, key, op, url, entry, answer, atLock>>

Malloc(t) ==                                   \* addUrlNotFound: malloc and strdup
    /\ pc[t] = "malloc"
    /\ LET unused == {m \in Nodes : key[m] = Null}
           n == CHOOSE m \in unused : TRUE
       IN  /\ unused # {}
           /\ entry' = [entry EXCEPT ![t] = n]
           /\ key' = [key EXCEPT ![n] = url[t]]
    /\ Goto(t, "add")
    /\ UNCHANGED <<owner, table, op, url, answer, atLock>>

Add(t) ==                                      \* HASH_ADD_KEYPTR, in both functions
    /\ pc[t] = "add"
    /\ HashAdd(entry[t])
    /\ Goto(t, IF op[t] = "lookup" THEN "unlock" ELSE "prune")
    /\ UNCHANGED <<owner, key, op, url, entry, answer, atLock>>

\* Wrong variant: prunes only what is above the limit.
PruneLate(t) ==
    /\ pc[t] = "prune"
    /\ IF HashCount > MAX_CACHE_SIZE
       THEN HashDelete(head) /\ key' = [key EXCEPT ![head] = Null]
       ELSE UNCHANGED <<table, key>>
    /\ Goto(t, "unlock")
    /\ UNCHANGED <<owner, op, url, entry, answer, atLock>>

\* Wrong variant: prunes the entry that was just added.
PruneYoungest(t) ==
    /\ pc[t] = "prune"
    /\ IF HashCount >= MAX_CACHE_SIZE
       THEN HashDelete(tail) /\ key' = [key EXCEPT ![tail] = Null]
       ELSE UNCHANGED <<table, key>>
    /\ Goto(t, "unlock")
    /\ UNCHANGED <<owner, op, url, entry, answer, atLock>>

\* The first iteration of HASH_ITER, at the oldest entry; then break.
Prune(t) ==
    /\ pc[t] = "prune"
    /\ IF HashCount >= MAX_CACHE_SIZE
       THEN HashDelete(head) /\ key' = [key EXCEPT ![head] = Null]
       ELSE UNCHANGED <<table, key>>
    /\ Goto(t, "unlock")
    /\ UNCHANGED <<owner, op, url, entry, answer, atLock>>

Answer(t) == IF op[t] = "lookup"
             THEN [op |-> "lookup", url |-> url[t], found |-> entry[t] # Null]
             ELSE [op |-> "add", url |-> url[t]]

\* Wrong variant: an early return keeps the mutex.
UnlockForgotten(t) ==
    /\ pc[t] = "unlock"
    /\ owner' = IF op[t] = "add" /\ entry[t] # Null /\ num_items > 1 THEN owner ELSE Nobody
    /\ Goto(t, "idle")
    /\ op' = [op EXCEPT ![t] = "none"] /\ url' = [url EXCEPT ![t] = Null]
    /\ entry' = [entry EXCEPT ![t] = Null]
    /\ answer' = Answer(t) /\ atLock' = <<>>
    /\ UNCHANGED <<table, key>>

Unlock(t) ==                                   \* and return
    /\ pc[t] = "unlock"
    /\ owner' = Nobody
    /\ Goto(t, "idle")
    /\ op' = [op EXCEPT ![t] = "none"] /\ url' = [url EXCEPT ![t] = Null]
    /\ entry' = [entry EXCEPT ![t] = Null]
    /\ answer' = Answer(t) /\ atLock' = <<>>
    /\ UNCHANGED <<table, key>>

\* The steps of a call that is running.
Step(t) == \/ Lock(t) \/ Find(t) \/ Del(t) \/ Malloc(t) \/ Add(t) \/ Prune(t) \/ Unlock(t)

Next == \E t \in Threads :
           \/ \E f \in {"lookup", "add"}, u \in Urls : Call(t, f, u)
           \/ Step(t)

\* A thread inside a call is scheduled again and again.  Nothing is assumed
\* about who gets a contended mutex: pthreads promises nothing.
Spec == Init /\ [][Next]_vars /\ \A t \in Threads : WF_vars(Step(t))

-----------------------------------------------------------------------------
(* Properties *)

Critical == {"find", "del", "malloc", "add", "prune", "unlock"}

\* Every variable keeps its type.
TypeOK ==
    /\ owner \in Threads \cup {Nobody}
    /\ head \in Nodes \cup {Null} /\ tail \in Nodes \cup {Null}
    /\ next \in [Nodes -> Nodes \cup {Null}] /\ prev \in [Nodes -> Nodes \cup {Null}]
    /\ key \in [Nodes -> Urls \cup {Null}]
    /\ chained \subseteq Nodes /\ num_items \in 0 .. Cardinality(Nodes)
    /\ pc \in [Threads -> Critical \cup {"idle", "lock"}]
    /\ op \in [Threads -> {"none", "lookup", "add"}]
    /\ url \in [Threads -> Urls \cup {Null}]
    /\ entry \in [Threads -> Nodes \cup {Null}]

\* Only the owner of the mutex is between lock and unlock, and it is always
\* somewhere there: every return path of both functions has unlocked.
OnlyOwnerInside == \A t \in Threads : pc[t] \in Critical <=> owner = t

\* Between calls the two structures uthash keeps agree: the list, followed
\* either way, meets exactly the nodes the chains hold and ends at tail, the
\* count is right, every entry is allocated, and no URL is cached twice.
TableSound ==
    owner = Nobody =>
        LET on == {Age[k] : k \in 1 .. Length}
        IN  /\ on = chained /\ Cardinality(on) = Length /\ HashCount = Length
            /\ Length > 0 => tail = Age[Length] /\ prev[head] = Null
            /\ \A k \in 2 .. Length : prev[Age[k]] = Age[k - 1]
            /\ {n \in Nodes : key[n] # Null} = chained
            /\ \A m, n \in chained : key[m] = key[n] => m = n

\* Whoever takes the mutex finds fewer than MAX_CACHE_SIZE entries, and the
\* count never exceeds the limit even between an insertion and its pruning.
CacheBound == /\ HashCount <= MAX_CACHE_SIZE
              /\ owner = Nobody => HashCount < MAX_CACHE_SIZE

\* To its callers the cache is atomic and prunes the least recently used URL:
\* every interleaving of lookups (which delete an entry and add it again) and
\* insertions gives the answers of LruCache.
LRU == INSTANCE LruCache WITH cache <- IF owner = Nobody THEN UrlsByAge ELSE atLock
CacheRefinement == LRU!Spec

\* The mutex never stays taken.
MutexReleased == owner # Nobody ~> owner = Nobody
=============================================================================
