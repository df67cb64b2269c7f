------------------------- MODULE NotFoundUrlsProofs -------------------------
(***************************************************************************)
(* For every number of threads, URLs and nodes and every size of the       *)
(* cache: only the owner of the mutex is between lock and unlock, the      *)
(* cache stays below its limit, the table is sound whenever the mutex is   *)
(* free, and to its callers the cache is an LruCache.                      *)
(***************************************************************************)
EXTENDS NotFoundUrls, Integers, SequenceLemmas, FiniteSetTheorems, TLAPS

\* The types that mutual exclusion and the limit rest on.
CallTypes ==
    /\ owner \in Threads \cup {Nobody}
    /\ pc \in [Threads -> Critical \cup {"idle", "lock"}]
    /\ op \in [Threads -> {"none", "lookup", "add"}]
    /\ entry \in [Threads -> Nodes \cup {Null}]
    /\ num_items \in Int /\ chained \subseteq Nodes

\* How far the count is from the limit at each step of a call: a lookup that
\* has deleted its entry has made room for it, and only the insertion of a new
\* URL can reach the limit, just before it prunes.
Room ==
    /\ num_items <= MAX_CACHE_SIZE
    /\ (\A t \in Threads : pc[t] # "prune") => num_items < MAX_CACHE_SIZE
    /\ \A t \in Threads :
          /\ pc[t] = "del" => op[t] = "lookup" /\ entry[t] \in Nodes
          /\ pc[t] = "malloc" => op[t] = "add"
          /\ pc[t] = "add" => entry[t] \in Nodes
          /\ pc[t] = "add" /\ op[t] = "lookup" => num_items < MAX_CACHE_SIZE - 1
          /\ pc[t] = "prune" => head # Null

Inv == CallTypes /\ OnlyOwnerInside /\ Room

-----------------------------------------------------------------------------
\* Deleting lowers the count, by one or to zero.
LEMMA DeleteCount ==
    ASSUME NEW n, HashDelete(n)
    PROVE  /\ num_items' = 0 \/ num_items' = num_items - 1
           /\ chained' \subseteq chained
BY DEF HashDelete

\* Adding a node raises the count by at most one and leaves a head.
LEMMA AddCount ==
    ASSUME NEW n \in Nodes, HashAdd(n)
    PROVE  /\ num_items' = 1 \/ num_items' = num_items + 1
           /\ chained' \subseteq chained \cup {n}
           /\ head' # Null
BY NullAssumption DEF HashAdd

\* Two threads are never both between lock and unlock.
LEMMA AloneInside ==
    ASSUME CallTypes, OnlyOwnerInside, NEW t \in Threads, pc[t] \in Critical
    PROVE  \A s \in Threads \ {t} : pc[s] \notin Critical
BY DEF OnlyOwnerInside

LEMMA InvInit == Init => Inv
BY NullAssumption, SizeAssumption
   DEF Init, Inv, CallTypes, OnlyOwnerInside, Room, Critical

\* One step of each kind keeps the invariant.
LEMMA InvStep == Inv /\ [Next]_vars => Inv'
<1> SUFFICES ASSUME Inv, [Next]_vars PROVE CallTypes' /\ OnlyOwnerInside' /\ Room'
  BY DEF Inv
<1>0. CallTypes /\ OnlyOwnerInside /\ Room
  BY DEF Inv
<1> USE SizeAssumption, NullAssumption
<1>1. ASSUME NEW t \in Threads, NEW f \in {"lookup", "add"}, NEW u \in Urls, Call(t, f, u)
      PROVE  CallTypes' /\ OnlyOwnerInside' /\ Room'
  <2>1. /\ pc[t] = "idle" /\ pc' = [pc EXCEPT ![t] = "lock"]
        /\ op' = [op EXCEPT ![t] = f]
        /\ UNCHANGED <<owner, entry, num_items, chained, head>>
    BY <1>1 DEF Call, Goto, table, list
  <2>2. CallTypes'
    BY <1>0, <2>1 DEF CallTypes
  <2>3. OnlyOwnerInside'
    BY <1>0, <2>1 DEF CallTypes, OnlyOwnerInside, Critical
  <2>4. Room'
    BY <1>0, <2>1 DEF CallTypes, Room
  <2> QED
    BY <2>2, <2>3, <2>4
<1>2. ASSUME NEW t \in Threads, Lock(t)
      PROVE  CallTypes' /\ OnlyOwnerInside' /\ Room'
  <2>1. /\ pc[t] = "lock" /\ owner = Nobody
        /\ owner' = t /\ pc' = [pc EXCEPT ![t] = "find"]
        /\ UNCHANGED <<op, entry, num_items, chained, head>>
    BY <1>2 DEF Lock, Goto, table, list
  <2>2. CallTypes'
    BY <1>0, <2>1 DEF CallTypes, Critical
  <2>3. OnlyOwnerInside'
    BY <1>0, <2>1 DEF CallTypes, OnlyOwnerInside, Critical
  <2>4. Room'
    BY <1>0, <2>1 DEF CallTypes, Room
  <2> QED
    BY <2>2, <2>3, <2>4
\* A step between lock and unlock concerns one thread and its place.
<1>3. ASSUME NEW t \in Threads, pc[t] \in Critical, NEW where \in Critical,
             pc' = [pc EXCEPT ![t] = where], UNCHANGED <<owner, op>>
      PROVE  OnlyOwnerInside'
  BY <1>0, <1>3 DEF CallTypes, OnlyOwnerInside
<1>4. ASSUME NEW t \in Threads, pc[t] \in Critical
      PROVE  \A s \in Threads \ {t} : pc[s] \notin Critical
  BY <1>0, <1>4, AloneInside
<1>5. ASSUME NEW t \in Threads, Find(t)
      PROVE  CallTypes' /\ OnlyOwnerInside' /\ Room'
  <2> DEFINE hits == {n \in chained : key[n] = url[t]}
  <2>1. /\ pc[t] = "find" /\ pc' = [pc EXCEPT ![t] = AfterFind(t, hits # {})]
        /\ entry' = [entry EXCEPT ![t] = IF hits = {} THEN Null ELSE CHOOSE n \in hits : TRUE]
        /\ UNCHANGED <<owner, op, num_items, chained, head>>
    BY <1>5 DEF Find, Goto, table, list
  <2>2. hits # {} => (CHOOSE n \in hits : TRUE) \in Nodes
    BY <1>0 DEF CallTypes
  <2> DEFINE n == IF hits = {} THEN Null ELSE CHOOSE n \in hits : TRUE
  <2>3. n \in Nodes \cup {Null} /\ (hits # {} => n \in Nodes)
    BY <2>2
  <2> DEFINE where == AfterFind(t, hits # {})
  <2>4. /\ where \in {"del", "malloc", "unlock"}
        /\ where = "del" => op[t] = "lookup" /\ hits # {}
        /\ where = "malloc" => op[t] = "add"
    BY DEF AfterFind
  <2>5. pc' = [pc EXCEPT ![t] = where] /\ entry' = [entry EXCEPT ![t] = n]
    BY <2>1
  <2> HIDE DEF n, where, hits
  <2>6. CallTypes'
    <3>1. where \in Critical
      BY <2>4 DEF Critical
    <3>2. pc' \in [Threads -> Critical \cup {"idle", "lock"}]
      BY <1>0, <2>5, <3>1 DEF CallTypes
    <3>3. entry' \in [Threads -> Nodes \cup {Null}]
      BY <1>0, <2>3, <2>5 DEF CallTypes
    <3>4. UNCHANGED <<owner, op, num_items, chained>>
      BY <2>1
    <3> QED
      BY <1>0, <3>2, <3>3, <3>4 DEF CallTypes, Critical
  <2>7. OnlyOwnerInside'
    BY <1>3, <2>1, <2>4, <2>5 DEF Critical
  <2>8. Room'
    BY <1>0, <2>1, <2>3, <2>4, <2>5 DEF CallTypes, Room
  <2> QED
    BY <2>6, <2>7, <2>8
<1>6. ASSUME NEW t \in Threads, Del(t)
      PROVE  CallTypes' /\ OnlyOwnerInside' /\ Room'
  <2>1. /\ pc[t] = "del" /\ pc' = [pc EXCEPT ![t] = "add"]
        /\ HashDelete(entry[t])
        /\ UNCHANGED <<owner, op, entry>>
    BY <1>6 DEF Del, Goto
  <2>2. num_items < MAX_CACHE_SIZE /\ \A s \in Threads \ {t} : pc[s] \notin Critical
    BY <1>0, <1>4, <2>1 DEF Room, CallTypes, Critical
  <2>3. num_items' < MAX_CACHE_SIZE - 1 /\ num_items' \in Int /\ chained' \subseteq Nodes
    BY <1>0, <2>1, <2>2, DeleteCount DEF CallTypes
  <2>4. CallTypes'
    BY <1>0, <2>1, <2>3 DEF CallTypes, Critical
  <2>5. OnlyOwnerInside'
    BY <1>3, <2>1 DEF Critical
  <2>6. Room'
    BY <1>0, <2>1, <2>2, <2>3 DEF CallTypes, Room, Critical
  <2> QED
    BY <2>4, <2>5, <2>6
<1>7. ASSUME NEW t \in Threads, Malloc(t)
      PROVE  CallTypes' /\ OnlyOwnerInside' /\ Room'
  <2>1. PICK n \in Nodes : entry' = [entry EXCEPT ![t] = n]
    BY <1>7 DEF Malloc
  <2>2. /\ pc[t] = "malloc" /\ pc' = [pc EXCEPT ![t] = "add"]
        /\ UNCHANGED <<owner, op, num_items, chained, head>>
    BY <1>7 DEF Malloc, Goto, table, list
  <2>3. op[t] # "lookup"
    BY <1>0, <2>2 DEF Room
  <2>4. CallTypes'
    BY <1>0, <2>1, <2>2 DEF CallTypes, Critical
  <2>5. OnlyOwnerInside'
    BY <1>3, <2>2 DEF Critical
  <2>6. Room'
    BY <1>0, <2>1, <2>2, <2>3 DEF CallTypes, Room
  <2> QED
    BY <2>4, <2>5, <2>6
<1>8. ASSUME NEW t \in Threads, Add(t)
      PROVE  CallTypes' /\ OnlyOwnerInside' /\ Room'
  <2> DEFINE where == IF op[t] = "lookup" THEN "unlock" ELSE "prune"
  <2>1. /\ pc[t] = "add" /\ pc' = [pc EXCEPT ![t] = where]
        /\ HashAdd(entry[t]) /\ entry[t] \in Nodes
        /\ UNCHANGED <<owner, op, entry>>
    BY <1>0, <1>8 DEF Add, Goto, Room
  <2>2. num_items < MAX_CACHE_SIZE /\ \A s \in Threads \ {t} : pc[s] \notin Critical
    BY <1>0, <1>4, <2>1 DEF Room, CallTypes, Critical
  <2>3. /\ num_items' \in Int /\ num_items' <= MAX_CACHE_SIZE
        /\ op[t] = "lookup" => num_items' < MAX_CACHE_SIZE
        /\ chained' \subseteq Nodes /\ head' # Null
    <3>1. num_items' = 1 \/ num_items' = num_items + 1
      BY <2>1, AddCount
    <3>2. op[t] = "lookup" => num_items < MAX_CACHE_SIZE - 1
      BY <1>0, <2>1 DEF Room
    <3>3. chained' \subseteq Nodes /\ head' # Null
      BY <1>0, <2>1, AddCount DEF CallTypes
    <3> QED
      BY <1>0, <2>2, <3>1, <3>2, <3>3 DEF CallTypes
  <2>4. CallTypes'
    BY <1>0, <2>1, <2>3 DEF CallTypes, Critical
  <2>5. OnlyOwnerInside'
    BY <1>3, <2>1 DEF Critical
  <2>6. Room'
    BY <1>0, <2>1, <2>2, <2>3 DEF CallTypes, Room, Critical
  <2> QED
    BY <2>4, <2>5, <2>6
<1>9. ASSUME NEW t \in Threads, Prune(t)
      PROVE  CallTypes' /\ OnlyOwnerInside' /\ Room'
  <2>1. /\ pc[t] = "prune" /\ pc' = [pc EXCEPT ![t] = "unlock"]
        /\ UNCHANGED <<owner, op, entry>>
    BY <1>9 DEF Prune, Goto
  <2>2. \A s \in Threads \ {t} : pc[s] \notin Critical
    BY <1>4, <2>1 DEF Critical
  <2>3. num_items' \in Int /\ num_items' < MAX_CACHE_SIZE /\ chained' \subseteq Nodes
    <3>1. CASE HashCount >= MAX_CACHE_SIZE
      <4>1. HashDelete(head)
        BY <1>9, <3>1 DEF Prune
      <4> QED
        BY <1>0, <4>1, DeleteCount DEF CallTypes, Room
    <3>2. CASE ~(HashCount >= MAX_CACHE_SIZE)
      <4>1. UNCHANGED <<num_items, chained>> /\ head # Null
        BY <1>0, <1>9, <2>1, <3>2 DEF Prune, table, Room
      <4> QED
        BY <1>0, <3>2, <4>1 DEF HashCount, CallTypes
    <3> QED
      BY <3>1, <3>2
  <2>4. CallTypes'
    BY <1>0, <2>1, <2>3 DEF CallTypes, Critical
  <2>5. OnlyOwnerInside'
    BY <1>3, <2>1 DEF Critical
  <2>6. Room'
    BY <1>0, <2>1, <2>2, <2>3 DEF CallTypes, Room, Critical
  <2> QED
    BY <2>4, <2>5, <2>6
<1>10. ASSUME NEW t \in Threads, Unlock(t)
      PROVE  CallTypes' /\ OnlyOwnerInside' /\ Room'
  <2>1. /\ pc[t] = "unlock" /\ pc' = [pc EXCEPT ![t] = "idle"]
        /\ owner' = Nobody
        /\ op' = [op EXCEPT ![t] = "none"] /\ entry' = [entry EXCEPT ![t] = Null]
        /\ UNCHANGED <<num_items, chained, head>>
    BY <1>10 DEF Unlock, Goto, table, list
  <2>2. \A s \in Threads \ {t} : pc[s] \notin Critical
    BY <1>4, <2>1 DEF Critical
  <2>3. CallTypes'
    BY <1>0, <2>1 DEF CallTypes
  <2>4. OnlyOwnerInside'
    BY <1>0, <2>1, <2>2 DEF CallTypes, OnlyOwnerInside, Critical
  <2>5. Room'
    BY <1>0, <2>1, <2>2 DEF CallTypes, Room, Critical
  <2> QED
    BY <2>3, <2>4, <2>5
<1>11. ASSUME UNCHANGED vars PROVE CallTypes' /\ OnlyOwnerInside' /\ Room'
  BY <1>0, <1>11 DEF vars, table, list, CallTypes, OnlyOwnerInside, Room
<1> QED
  BY <1>1, <1>2, <1>5, <1>6, <1>7, <1>8, <1>9, <1>10, <1>11 DEF Next, Step

LEMMA InvAlways == Spec => []Inv
BY InvInit, InvStep, PTL DEF Spec

-----------------------------------------------------------------------------
\* The mutex protects everything between lock and unlock, and every return of
\* both functions has released it, with any number of threads.
THEOREM MutualExclusion == Spec => []OnlyOwnerInside
<1>1. Inv => OnlyOwnerInside
  BY DEF Inv
<1> QED
  BY InvAlways, <1>1, PTL

\* The cache keeps below MAX_CACHE_SIZE whenever the mutex is free, and never
\* goes above it.
THEOREM Bounded == Spec => []CacheBound
<1>1. Inv => CacheBound
  <2> SUFFICES ASSUME Inv PROVE CacheBound
    OBVIOUS
  <2>1. num_items <= MAX_CACHE_SIZE /\ num_items \in Int
    BY DEF Inv, Room, CallTypes
  <2>2. owner = Nobody => \A t \in Threads : pc[t] # "prune"
    BY NullAssumption DEF Inv, OnlyOwnerInside, Critical
  <2>3. owner = Nobody => num_items < MAX_CACHE_SIZE
    BY <2>2 DEF Inv, Room
  <2> QED
    BY <2>1, <2>3, SizeAssumption DEF CacheBound, HashCount
<1> QED
  BY InvAlways, <1>1, PTL
-----------------------------------------------------------------------------
(* The list of uthash *)

\* What follows and what precedes the j-th of the nodes s.
Behind(s, j) == IF j = Len(s) THEN Null ELSE s[j + 1]
Before(s, j) == IF j = 1 THEN Null ELSE s[j - 1]

\* The links thread the nodes s, each once, in this order.
IsLine(s, hd, tl, nx, pv) ==
    /\ s \in Seq(Nodes)
    /\ \A i, j \in DOMAIN s : s[i] = s[j] => i = j
    /\ hd = (IF s = <<>> THEN Null ELSE s[1])
    /\ tl = (IF s = <<>> THEN Null ELSE s[Len(s)])
    /\ \A j \in DOMAIN s : nx[s[j]] = Behind(s, j) /\ pv[s[j]] = Before(s, j)

\* The list, the chains and the count agree that the table holds the nodes s.
Linked(s) ==
    /\ IsLine(s, head, tail, next, prev)
    /\ chained = Elements(s) /\ num_items = Len(s)

\* The URLs of the nodes s.
Keys(s, k) == [i \in DOMAIN s |-> k[s[i]]]

\* There are n numbers from 1 to n.
LEMMA FirstNumbers ==
    ASSUME NEW n \in Nat
    PROVE  IsFiniteSet(1 .. n) /\ Cardinality(1 .. n) = n
<1>1. 1 \in Int /\ n \in Int
  OBVIOUS
<1>2. IsFiniteSet(1 .. n) /\ Cardinality(1 .. n) = IF 1 > n THEN 0 ELSE n - 1 + 1
  BY <1>1, FS_Interval
<1> QED
  BY <1>2

\* A list of different nodes is not longer than there are nodes.
LEMMA LineFits ==
    ASSUME NEW s \in Seq(Nodes), \A i, j \in DOMAIN s : s[i] = s[j] => i = j
    PROVE  /\ Len(s) <= Cardinality(Nodes) /\ Cardinality(Nodes) \in Nat
           /\ Cardinality(Elements(s)) = Len(s)
<1>1. Len(s) \in Nat /\ DOMAIN s = 1 .. Len(s) /\ s \in [1 .. Len(s) -> Nodes]
  OBVIOUS
<1>2. s \in Injection(1 .. Len(s), Nodes)
  BY <1>1 DEF Injection, IsInjective
<1>3. IsFiniteSet(1 .. Len(s)) /\ Cardinality(1 .. Len(s)) = Len(s)
  BY <1>1, FirstNumbers
<1>4. Len(s) <= Cardinality(Nodes)
  BY <1>2, <1>3, NodesAssumption, FS_Injection
<1>5. s \in Surjection(1 .. Len(s), Elements(s)) /\ s \in Injection(1 .. Len(s), Elements(s))
  BY <1>1 DEF Surjection, Injection, IsInjective, Elements
<1>6. Cardinality(Elements(s)) = Cardinality(1 .. Len(s))
  BY <1>3, <1>5, FS_Surjection
<1> QED
  BY <1>3, <1>4, <1>6, NodesAssumption, FS_CardinalityType

\* Following `nx' from hd for c steps.
IsWalk(f, hd, nx, c) ==
    f = [k \in 1 .. c + 1 |-> IF k = 1 THEN hd ELSE IF f[k - 1] = Null THEN Null ELSE nx[f[k - 1]]]

\* The nodes s, and then nothing.
Path(s, c) == [k \in 1 .. c + 1 |-> IF k <= Len(s) THEN s[k] ELSE Null]

\* Age is what its recursion says.
LEMMA AgeIsWalk == Age = CHOOSE f : IsWalk(f, head, next, Cardinality(Nodes))
BY DEF Age, IsWalk

\* Whoever follows the links of a line meets its nodes.
LEMMA WalkOfLine ==
    ASSUME NEW s, NEW hd, NEW tl, NEW nx, NEW pv, IsLine(s, hd, tl, nx, pv),
           NEW c \in Nat, Len(s) <= c
    PROVE  (CHOOSE f : IsWalk(f, hd, nx, c)) = Path(s, c)
<1>0. /\ s \in Seq(Nodes) /\ Len(s) \in Nat /\ DOMAIN s = 1 .. Len(s)
      /\ \A k \in 1 .. Len(s) : s[k] \in Nodes /\ s[k] # Null
  BY NullAssumption DEF IsLine
<1> DEFINE P == Path(s, c)
<1>1. \A k \in 1 .. c + 1 : P[k] = IF k <= Len(s) THEN s[k] ELSE Null
  BY DEF Path
<1>2. ASSUME NEW k \in 1 .. c + 1
      PROVE  P[k] = IF k = 1 THEN hd ELSE IF P[k - 1] = Null THEN Null ELSE nx[P[k - 1]]
  <2>1. CASE k = 1
    <3>1. P[k] = hd
      BY <1>0, <1>1, <2>1 DEF IsLine
    <3> QED
      BY <2>1, <3>1
  <2>2. CASE k # 1 /\ k - 1 <= Len(s)
    <3>1. k - 1 \in 1 .. Len(s) /\ k - 1 \in 1 .. c + 1 /\ (k - 1) + 1 = k
      BY <1>0, <2>2
    <3>2. P[k - 1] = s[k - 1] /\ P[k - 1] # Null
      BY <1>0, <1>1, <3>1
    <3>3. nx[s[k - 1]] = Behind(s, k - 1)
      BY <1>0, <3>1 DEF IsLine
    <3>4. Behind(s, k - 1) = IF k <= Len(s) THEN s[k] ELSE Null
      BY <1>0, <3>1 DEF Behind
    <3> QED
      BY <1>1, <2>2, <3>2, <3>3, <3>4
  <2>3. CASE k # 1 /\ ~(k - 1 <= Len(s))
    <3>1. k - 1 \in 1 .. c + 1 /\ ~(k <= Len(s))
      BY <1>0, <2>3
    <3> QED
      BY <1>1, <2>3, <3>1
  <2> QED
    BY <2>1, <2>2, <2>3
<1>3. IsWalk(P, hd, nx, c)
  <2>1. P = [k \in 1 .. c + 1 |-> P[k]]
    BY DEF Path
  <2> HIDE DEF P
  <2> QED
    BY <1>2, <2>1 DEF IsWalk
<1>4. ASSUME NEW f, IsWalk(f, hd, nx, c)
      PROVE  f = P
  <2>1. f = [k \in 1 .. c + 1 |-> f[k]]
    BY <1>4 DEF IsWalk
  <2>2. \A k \in 1 .. c + 1 :
           f[k] = IF k = 1 THEN hd ELSE IF f[k - 1] = Null THEN Null ELSE nx[f[k - 1]]
    BY <1>4 DEF IsWalk
  <2> DEFINE T == {m \in Nat : m <= c => f[m + 1] = P[m + 1]}
  <2>3. P = [k \in 1 .. c + 1 |-> P[k]]
    BY DEF Path
  <2> HIDE DEF P
  <2>4. 0 \in T
    BY <1>2, <2>2
  <2>5. ASSUME NEW m \in T
        PROVE  m + 1 \in T
    <3>1. SUFFICES ASSUME m + 1 <= c PROVE f[(m + 1) + 1] = P[(m + 1) + 1]
      OBVIOUS
    <3>2. m \in Nat /\ f[m + 1] = P[m + 1]
      BY <3>1
    <3> DEFINE k == (m + 1) + 1
    <3>3. k \in 1 .. c + 1 /\ k # 1 /\ k - 1 = m + 1
      BY <3>1, <3>2
    <3> HIDE DEF k, T
    <3>4. f[k - 1] = P[k - 1]
      BY <3>2, <3>3
    <3>5. f[k] = P[k]
      BY <1>2, <2>2, <3>3, <3>4
    <3> QED
      BY <3>5 DEF k
  <2>6. T = Nat
    <3>1. T \in SUBSET Nat
      OBVIOUS
    <3> HIDE DEF T
    <3> QED
      BY <2>4, <2>5, <3>1, AllNumbers
  <2>7. ASSUME NEW k \in 1 .. c + 1 PROVE f[k] = P[k]
    <3>1. k - 1 \in Nat /\ k - 1 <= c /\ (k - 1) + 1 = k
      OBVIOUS
    <3>2. k - 1 \in T
      BY <2>6, <3>1
    <3> QED
      BY <3>1, <3>2
  <2> QED
    BY <2>1, <2>3, <2>7
<1> QED
  BY <1>3, <1>4

\* If the table holds the nodes s, they are what is met from the head on.
LineIsMet == \A s \in Seq(Nodes) :
    Linked(s) => /\ Length = Len(s) /\ UrlsByAge = Keys(s, key)
                 /\ \A k \in 1 .. Len(s) : Age[k] = s[k]

LEMMA LineMet == LineIsMet
<1> SUFFICES ASSUME NEW s \in Seq(Nodes), Linked(s)
             PROVE  /\ Length = Len(s) /\ UrlsByAge = Keys(s, key)
                    /\ \A k \in 1 .. Len(s) : Age[k] = s[k]
  BY DEF LineIsMet
<1> DEFINE c == Cardinality(Nodes)
<1>1. IsLine(s, head, tail, next, prev)
  BY DEF Linked
<1>2. Len(s) <= c /\ c \in Nat /\ Len(s) \in Nat /\ DOMAIN s = 1 .. Len(s)
  BY <1>1, LineFits DEF IsLine
<1>3. Age = Path(s, c)
  <2> HIDE DEF c
  <2>1. (CHOOSE f : IsWalk(f, head, next, c)) = Path(s, c)
    BY <1>1, <1>2, WalkOfLine
  <2> QED
    BY <2>1, AgeIsWalk DEF c
<1> HIDE DEF c
<1>4. \A k \in 1 .. Len(s) : s[k] # Null
  BY NullAssumption
<1>5. {k \in DOMAIN Age : Age[k] # Null} = 1 .. Len(s)
  BY <1>2, <1>3, <1>4 DEF Path
<1>6. Length = Len(s)
  <2>1. Length = Cardinality(1 .. Len(s))
    BY <1>5 DEF Length
  <2>2. Cardinality(1 .. Len(s)) = Len(s)
    <3>1. Len(s) \in Nat
      BY <1>2
    <3> QED
      BY <3>1, FirstNumbers
  <2> QED
    BY <2>1, <2>2
<1>7. \A k \in 1 .. Len(s) : Age[k] = s[k]
  BY <1>2, <1>3 DEF Path
<1>8. UrlsByAge = Keys(s, key)
  BY <1>2, <1>6, <1>7 DEF UrlsByAge, Keys
<1> QED
  BY <1>6, <1>7, <1>8

\* HASH_ADD puts the node behind the last.
LEMMA AddToLine ==
    ASSUME NEW s, Linked(s), NEW n \in Nodes, n \notin Elements(s), HashAdd(n),
           next \in [Nodes -> Nodes \cup {Null}], prev \in [Nodes -> Nodes \cup {Null}]
    PROVE  Linked(Append(s, n))'
<1> DEFINE t == Append(s, n)
<1>0. IsLine(s, head, tail, next, prev) /\ chained = Elements(s) /\ num_items = Len(s)
  BY DEF Linked
<1>1. /\ s \in Seq(Nodes) /\ Len(s) \in Nat /\ DOMAIN s = 1 .. Len(s)
      /\ \A j \in 1 .. Len(s) : s[j] \in Nodes /\ s[j] # Null /\ s[j] # n
  BY <1>0, NullAssumption DEF IsLine, Elements
<1>2. /\ t \in Seq(Nodes) /\ Len(t) = Len(s) + 1 /\ DOMAIN t = 1 .. Len(s) + 1
      /\ t[Len(s) + 1] = n /\ t # <<>>
      /\ \A j \in 1 .. Len(s) : t[j] = s[j]
  BY <1>1
<1>3. Elements(t) = Elements(s) \cup {n}
  BY <1>1, AppendElements
<1> HIDE DEF t
<1>4. ASSUME NEW i \in DOMAIN t, NEW j \in DOMAIN t, t[i] = t[j]
      PROVE  i = j
  <2>1. \A k, m \in 1 .. Len(s) : s[k] = s[m] => k = m
    BY <1>0, <1>1 DEF IsLine
  <2>2. CASE i \in 1 .. Len(s) /\ j \in 1 .. Len(s)
    BY <1>2, <1>4, <2>1, <2>2
  <2>3. CASE i = Len(s) + 1
    BY <1>1, <1>2, <1>4, <2>3
  <2>4. CASE j = Len(s) + 1
    BY <1>1, <1>2, <1>4, <2>4
  <2> QED
    BY <1>1, <1>2, <2>2, <2>3, <2>4
<1>5. CASE head = Null
  <2>1. s = <<>> /\ Len(s) = 0
    BY <1>0, <1>1, <1>5 DEF IsLine
  <2>2. /\ head' = n /\ tail' = n /\ prev'[n] = Null /\ next'[n] = Null
        /\ num_items' = 1 /\ chained' = {n}
    BY <1>5 DEF HashAdd
  <2>3. Elements(s) = {}
    BY <2>1 DEF Elements
  <2>4. head' = t[1] /\ tail' = t[Len(t)] /\ DOMAIN t = {1}
    BY <1>2, <2>1, <2>2
  <2>5. \A j \in DOMAIN t : next'[t[j]] = Behind(t, j) /\ prev'[t[j]] = Before(t, j)
    BY <1>2, <2>1, <2>2, <2>4 DEF Behind, Before
  <2>6. IsLine(t, head, tail, next, prev)'
    BY <1>2, <1>4, <2>4, <2>5 DEF IsLine
  <2> QED
    BY <1>2, <1>3, <2>1, <2>2, <2>3, <2>6 DEF Linked, t
<1>6. CASE head # Null
  <2>1. s # <<>> /\ Len(s) # 0 /\ head = s[1] /\ tail = s[Len(s)]
    BY <1>0, <1>1, <1>6 DEF IsLine
  <2>2. /\ head' = head /\ tail' = n
        /\ prev' = [prev EXCEPT ![n] = tail] /\ next' = [next EXCEPT ![n] = Null, ![tail] = n]
        /\ num_items' = num_items + 1 /\ chained' = chained \cup {n}
    BY <1>6 DEF HashAdd
  <2>3. tail \in Nodes /\ tail # n /\ 1 \in 1 .. Len(s) /\ Len(s) \in 1 .. Len(s)
    BY <1>1, <2>1
  <2>4. /\ next'[n] = Null /\ next'[tail] = n /\ prev'[n] = tail
        /\ \A m \in Nodes \ {n, tail} : next'[m] = next[m]
        /\ \A m \in Nodes \ {n} : prev'[m] = prev[m]
    BY <2>2, <2>3
  <2>5. head' = t[1] /\ tail' = t[Len(t)]
    BY <1>2, <2>1, <2>2, <2>3
  <2>6. ASSUME NEW j \in 1 .. Len(s)
        PROVE  next'[s[j]] = Behind(t, j) /\ prev'[s[j]] = Before(t, j)
    <3>1. next[s[j]] = Behind(s, j) /\ prev[s[j]] = Before(s, j)
      BY <1>0, <1>1 DEF IsLine
    <3>2. prev'[s[j]] = Before(s, j)
      BY <1>1, <2>4, <3>1
    <3>3. Before(s, j) = Before(t, j)
      <4>1. j # 1 => j - 1 \in 1 .. Len(s)
        BY <1>1
      <4> QED
        BY <1>2, <4>1 DEF Before
    <3>4. CASE j = Len(s)
      <4>1. next'[s[j]] = n
        BY <2>1, <2>4, <3>4
      <4>2. j # Len(t) /\ t[j + 1] = n
        BY <1>1, <1>2, <3>4
      <4> QED
        BY <3>2, <3>3, <4>1, <4>2 DEF Behind
    <3>5. CASE j # Len(s)
      <4>1. s[j] # s[Len(s)]
        BY <1>0, <1>1, <2>3, <3>5 DEF IsLine
      <4>2. next'[s[j]] = s[j + 1]
        BY <1>1, <2>1, <2>4, <3>1, <3>5, <4>1 DEF Behind
      <4>3. j + 1 \in 1 .. Len(s) /\ j # Len(t)
        <5>1. Len(s) \in Nat /\ Len(t) = Len(s) + 1
          BY <1>1, <1>2
        <5> QED
          BY <3>5, <5>1
      <4> QED
        BY <1>2, <3>2, <3>3, <4>2, <4>3 DEF Behind
    <3> QED
      BY <3>4, <3>5
  <2>7. next'[n] = Behind(t, Len(s) + 1) /\ prev'[n] = Before(t, Len(s) + 1)
    BY <1>1, <1>2, <2>1, <2>3, <2>4 DEF Behind, Before
  <2>8. \A j \in DOMAIN t : next'[t[j]] = Behind(t, j) /\ prev'[t[j]] = Before(t, j)
    BY <1>1, <1>2, <2>6, <2>7
  <2>9. IsLine(t, head, tail, next, prev)'
    BY <1>2, <1>4, <2>5, <2>8 DEF IsLine
  <2> QED
    BY <1>0, <1>2, <1>3, <2>2, <2>9 DEF Linked, t
<1> QED
  BY <1>5, <1>6

\* HASH_DELETE closes the gap, wherever the node stands.
LEMMA DeleteFromLine ==
    ASSUME NEW s, Linked(s), NEW i \in DOMAIN s, HashDelete(s[i])
    PROVE  Linked(RemoveAt(s, i))'
<1> DEFINE n == s[i]
           L == Len(s)
           r == RemoveAt(s, i)
<1>0. IsLine(s, head, tail, next, prev) /\ chained = Elements(s) /\ num_items = L
  BY DEF Linked
<1>1. /\ s \in Seq(Nodes) /\ L \in Nat /\ DOMAIN s = 1 .. L /\ i \in 1 .. L
      /\ \A j \in 1 .. L : s[j] \in Nodes /\ s[j] # Null
      /\ \A j, k \in 1 .. L : s[j] = s[k] => j = k
      /\ s # <<>> /\ head = s[1] /\ tail = s[L]
  <2>1. s \in Seq(Nodes) /\ L \in Nat /\ DOMAIN s = 1 .. L /\ i \in 1 .. L /\ s # <<>>
    BY <1>0 DEF IsLine
  <2>2. \A j \in 1 .. L : s[j] \in Nodes /\ s[j] # Null
    BY <2>1, NullAssumption
  <2> QED
    BY <1>0, <2>1, <2>2 DEF IsLine
<1>2. /\ r \in Seq(Nodes) /\ Len(r) = L - 1 /\ DOMAIN r = 1 .. L - 1
      /\ \A k \in 1 .. L - 1 : r[k] = IF k < i THEN s[k] ELSE s[k + 1]
  <2>1. /\ r \in Seq(Nodes) /\ Len(r) = L - 1
        /\ \A k \in 1 .. L - 1 : r[k] = IF k < i THEN s[k] ELSE s[k + 1]
    BY <1>1, RemoveAtIs
  <2> HIDE DEF r
  <2> QED
    BY <1>1, <2>1
<1>3. Elements(r) = Elements(s) \ {n}
  <2>1. Elements(r) \cup {n} = Elements(s)
    BY <1>1, RemoveAtElements
  <2>2. n \notin Elements(r)
    <3> SUFFICES ASSUME NEW k \in 1 .. L - 1, r[k] = n PROVE FALSE
      BY <1>2 DEF Elements
    <3>1. k \in 1 .. L /\ k + 1 \in 1 .. L
      BY <1>1
    <3> HIDE DEF r
    <3> QED
      BY <1>1, <1>2, <3>1
  <2> QED
    BY <2>1, <2>2
<1>4. ASSUME NEW j \in 1 .. L
      PROVE  next[s[j]] = Behind(s, j) /\ prev[s[j]] = Before(s, j)
  BY <1>0, <1>1 DEF IsLine
<1>5. \A j, k \in DOMAIN r : r[j] = r[k] => j = k
  <2> SUFFICES ASSUME NEW j \in 1 .. L - 1, NEW k \in 1 .. L - 1, r[j] = r[k] PROVE j = k
    BY <1>2
  <2>1. j \in 1 .. L /\ j + 1 \in 1 .. L /\ k \in 1 .. L /\ k + 1 \in 1 .. L
    BY <1>1
  <2> HIDE DEF r, L
  <2> QED
    BY <1>1, <1>2, <2>1
<1> HIDE DEF r, L
<1>6. (prev[n] = Null <=> i = 1) /\ (next[n] = Null <=> i = L)
  <2>1. i # 1 => i - 1 \in 1 .. L
    BY <1>1
  <2>2. i # L => i + 1 \in 1 .. L
    BY <1>1
  <2>3. prev[n] = Before(s, i) /\ next[n] = Behind(s, i)
    BY <1>1, <1>4
  <2>4. Before(s, i) = Null <=> i = 1
    BY <1>1, <2>1 DEF Before
  <2>5. Behind(s, i) = Null <=> i = L
    BY <1>1, <2>2 DEF Behind, L
  <2> QED
    BY <2>3, <2>4, <2>5
<1>7. CASE i = 1 /\ i = L
  <2>1. r = <<>> /\ Len(r) = 0 /\ DOMAIN r = {}
    BY <1>1, <1>2, <1>7
  <2>2. head' = Null /\ tail' = Null /\ num_items' = 0 /\ chained' = {}
    BY <1>6, <1>7 DEF HashDelete
  <2>3. Elements(r) = {}
    BY <2>1 DEF Elements
  <2>4. IsLine(r, head, tail, next, prev)'
    BY <1>2, <2>1, <2>2 DEF IsLine
  <2> QED
    BY <2>1, <2>2, <2>3, <2>4 DEF Linked, r
<1>8. CASE ~(i = 1 /\ i = L)
  <2> DEFINE p == prev[n]
             q == next[n]
  <2>1. /\ tail' = (IF n = tail THEN p ELSE tail)
        /\ head' = (IF p = Null THEN q ELSE head)
        /\ next' = [m \in Nodes |-> CASE m = n -> Null [] m = p -> q [] OTHER -> next[m]]
        /\ prev' = [m \in Nodes |-> CASE m = n -> Null [] m = q -> p [] OTHER -> prev[m]]
        /\ num_items' = num_items - 1 /\ chained' = chained \ {n}
    BY <1>6, <1>8 DEF HashDelete
  <2>2. p = Before(s, i) /\ q = Behind(s, i)
    BY <1>1, <1>4
  <2> HIDE DEF p, q
  <2>3. /\ \A m \in Nodes \ {n} : m = p => next'[m] = q
        /\ \A m \in Nodes \ {n} : m # p => next'[m] = next[m]
        /\ \A m \in Nodes \ {n} : m = q => prev'[m] = p
        /\ \A m \in Nodes \ {n} : m # q => prev'[m] = prev[m]
    BY <2>1
  <2>4. L - 1 \in Nat /\ L - 1 > 0 /\ r # <<>> /\ 1 \in 1 .. L /\ L \in 1 .. L
    BY <1>1, <1>2, <1>8
  \* The neighbours of the node are the only ones whose links change.
  <2>5. ASSUME NEW j \in 1 .. L, j # i
        PROVE  /\ s[j] \in Nodes \ {n}
               /\ s[j] = p <=> j = i - 1
               /\ s[j] = q <=> j = i + 1
    <3>1. s[j] \in Nodes \ {n}
      BY <1>1, <2>5
    <3>2. s[j] = p <=> j = i - 1
      <4>1. CASE i = 1
        BY <1>1, <2>2, <4>1 DEF Before
      <4>2. CASE i # 1
        <5>1. i - 1 \in 1 .. L /\ p = s[i - 1]
          BY <1>1, <2>2, <4>2 DEF Before
        <5> QED
          BY <1>1, <5>1
      <4> QED
        BY <4>1, <4>2
    <3>3. s[j] = q <=> j = i + 1
      <4>1. CASE i = L
        BY <1>1, <2>2, <4>1 DEF Behind, L
      <4>2. CASE i # L
        <5>1. i + 1 \in 1 .. L /\ q = s[i + 1]
          BY <1>1, <2>2, <4>2 DEF Behind, L
        <5> QED
          BY <1>1, <5>1
      <4> QED
        BY <4>1, <4>2
    <3> QED
      BY <3>1, <3>2, <3>3
  <2>6. ASSUME NEW j \in 1 .. L, j # i
        PROVE  /\ next'[s[j]] = IF j = i - 1 THEN q ELSE Behind(s, j)
               /\ prev'[s[j]] = IF j = i + 1 THEN p ELSE Before(s, j)
    BY <1>4, <2>3, <2>5, <2>6
  <2>7. head' = r[1] /\ tail' = r[Len(r)]
    <3>1. head' = r[1]
      <4>1. CASE i = 1
        <5>1. p = Null /\ q = s[2] /\ r[1] = s[2]
          BY <1>1, <1>2, <1>8, <2>2, <2>4, <4>1 DEF Before, Behind, L
        <5> QED
          BY <2>1, <5>1
      <4>2. CASE i # 1
        <5>1. p # Null /\ r[1] = s[1]
          <6>1. i - 1 \in 1 .. L /\ 1 < i /\ 1 \in 1 .. L - 1
            BY <1>1, <2>4, <4>2
          <6> QED
            BY <1>1, <1>2, <2>2, <4>2, <6>1 DEF Before
        <5> QED
          BY <1>1, <2>1, <5>1
      <4> QED
        BY <4>1, <4>2
    <3>2. tail' = r[L - 1]
      <4>1. CASE i = L
        <5>1. p = s[L - 1] /\ n = tail /\ r[L - 1] = s[L - 1]
          BY <1>1, <1>2, <1>8, <2>2, <2>4, <4>1 DEF Before
        <5> QED
          BY <2>1, <5>1
      <4>2. CASE i # L
        <5>1. n # tail /\ r[L - 1] = s[L]
          <6>1. ~(L - 1 < i) /\ (L - 1) + 1 = L /\ L - 1 \in 1 .. L - 1
            BY <1>1, <2>4, <4>2
          <6> QED
            BY <1>1, <1>2, <2>4, <4>2, <6>1
        <5> QED
          BY <1>1, <2>1, <5>1
      <4> QED
        BY <4>1, <4>2
    <3> QED
      BY <1>2, <3>1, <3>2
  <2>8. ASSUME NEW k \in 1 .. L - 1
        PROVE  next'[r[k]] = Behind(r, k)
    <3>1. CASE k < i - 1
      <4>1. k \in 1 .. L /\ k # i /\ k # i - 1 /\ k + 1 \in 1 .. L - 1 /\ k + 1 < i /\ k # L /\ k # L - 1 /\ k < i
        BY <1>1, <3>1
      <4>2. r[k] = s[k] /\ r[k + 1] = s[k + 1]
        BY <1>2, <4>1
      <4> QED
        BY <1>2, <2>6, <4>1, <4>2 DEF Behind, L
    <3>2. CASE k = i - 1
      <4>1. k \in 1 .. L /\ k # i /\ k < i
        BY <1>1, <3>2
      <4>2. r[k] = s[k] /\ next'[r[k]] = q
        BY <1>2, <2>6, <3>2, <4>1
      <4>3. CASE i = L
        BY <1>1, <1>2, <2>2, <3>2, <4>2, <4>3 DEF Behind, L
      <4>4. CASE i # L
        <5>1. k + 1 \in 1 .. L - 1 /\ ~(k + 1 < i) /\ k # L - 1 /\ (k + 1) + 1 = i + 1
          BY <1>1, <3>2, <4>4
        <5>2. r[k + 1] = s[i + 1]
          BY <1>2, <5>1
        <5> QED
          BY <1>2, <2>2, <4>2, <4>4, <5>1, <5>2 DEF Behind, L
      <4> QED
        BY <4>3, <4>4
    <3>3. CASE k >= i
      <4>1. k + 1 \in 1 .. L /\ k + 1 # i /\ k + 1 # i - 1 /\ ~(k < i)
        BY <1>1, <3>3
      <4>2. r[k] = s[k + 1] /\ next'[r[k]] = Behind(s, k + 1)
        BY <1>2, <2>6, <4>1
      <4>3. CASE k = L - 1
        BY <1>1, <1>2, <4>2, <4>3 DEF Behind, L
      <4>4. CASE k # L - 1
        <5>1. k + 1 \in 1 .. L - 1 /\ ~(k + 1 < i) /\ k + 1 # L
          BY <1>1, <3>3, <4>4
        <5>2. r[k + 1] = s[(k + 1) + 1]
          BY <1>2, <5>1
        <5> QED
          BY <1>2, <4>2, <4>4, <5>1, <5>2 DEF Behind, L
      <4> QED
        BY <4>3, <4>4
    <3> QED
      BY <1>1, <3>1, <3>2, <3>3
  <2>9. ASSUME NEW k \in 1 .. L - 1
        PROVE  prev'[r[k]] = Before(r, k)
    <3>1. CASE k < i
      <4>1. k \in 1 .. L /\ k # i /\ k # i + 1
        BY <1>1, <3>1
      <4>2. r[k] = s[k] /\ prev'[r[k]] = Before(s, k)
        BY <1>2, <2>6, <3>1, <4>1
      <4>3. k # 1 => k - 1 \in 1 .. L - 1 /\ k - 1 < i
        BY <1>1, <3>1
      <4> QED
        BY <1>2, <4>2, <4>3 DEF Before
    <3>2. CASE k = i
      <4>1. k + 1 \in 1 .. L /\ k + 1 # i /\ k + 1 = i + 1 /\ ~(k < i)
        BY <1>1, <3>2
      <4>2. r[k] = s[k + 1] /\ prev'[r[k]] = p
        BY <1>2, <2>6, <4>1
      <4>3. k # 1 => k - 1 \in 1 .. L - 1 /\ k - 1 < i
        BY <1>1, <3>2
      <4> QED
        BY <1>2, <2>2, <3>2, <4>2, <4>3 DEF Before
    <3>3. CASE k > i
      <4>1. k + 1 \in 1 .. L /\ k + 1 # i /\ k + 1 # i + 1 /\ ~(k < i) /\ (k + 1) - 1 = k /\ k + 1 # 1
        BY <1>1, <3>3
      <4>2. r[k] = s[k + 1] /\ prev'[r[k]] = Before(s, k + 1)
        BY <1>2, <2>6, <4>1
      <4>3. k # 1 /\ k - 1 \in 1 .. L - 1 /\ ~(k - 1 < i) /\ (k - 1) + 1 = k
        BY <1>1, <3>3
      <4>4. r[k - 1] = s[k]
        BY <1>2, <4>3
      <4> QED
        BY <4>1, <4>2, <4>3, <4>4 DEF Before
    <3> QED
      BY <1>1, <3>1, <3>2, <3>3
  <2>10. IsLine(r, head, tail, next, prev)'
    BY <1>2, <1>5, <2>4, <2>7, <2>8, <2>9 DEF IsLine
  <2> QED
    BY <1>0, <1>2, <1>3, <2>1, <2>10 DEF Linked, r
<1> QED
  BY <1>7, <1>8

\* The URLs of a line are a sequence with the line's places.
LEMMA KeysType ==
    ASSUME NEW s \in Seq(Nodes), NEW S, NEW k \in [Nodes -> S]
    PROVE  /\ Keys(s, k) \in Seq(S) /\ Len(Keys(s, k)) = Len(s) /\ DOMAIN Keys(s, k) = DOMAIN s
           /\ \A i \in 1 .. Len(s) : Keys(s, k)[i] = k[s[i]]
<1>1. Len(s) \in Nat /\ DOMAIN s = 1 .. Len(s) /\ \A i \in 1 .. Len(s) : s[i] \in Nodes
  OBVIOUS
<1>2. Keys(s, k) \in [1 .. Len(s) -> S] /\ \A i \in 1 .. Len(s) : Keys(s, k)[i] = k[s[i]]
  BY <1>1 DEF Keys
<1>3. Keys(s, k) \in Seq(S) /\ Len(Keys(s, k)) = Len(s)
  BY <1>1, <1>2, FunctionIsSeq
<1>4. DOMAIN Keys(s, k) = DOMAIN s
  BY DEF Keys
<1> QED
  BY <1>2, <1>3, <1>4

LEMMA KeysElements ==
    ASSUME NEW s, NEW k
    PROVE  \A u : u \in Elements(Keys(s, k)) <=> \E n \in Elements(s) : k[n] = u
BY DEF Elements, Keys

LEMMA KeysAppend ==
    ASSUME NEW s \in Seq(Nodes), NEW S, NEW k \in [Nodes -> S], NEW n \in Nodes
    PROVE  Keys(Append(s, n), k) = Append(Keys(s, k), k[n])
<1> DEFINE t == Append(s, n)
           c == Keys(t, k)
           d == Append(Keys(s, k), k[n])
<1>1. /\ Len(s) \in Nat /\ t \in Seq(Nodes) /\ Len(t) = Len(s) + 1 /\ t[Len(s) + 1] = n
      /\ \A i \in 1 .. Len(s) : t[i] = s[i]
      /\ DOMAIN t = 1 .. Len(s) + 1 /\ DOMAIN s = 1 .. Len(s)
  OBVIOUS
<1> HIDE DEF t
<1>2. /\ c \in Seq(S) /\ Len(c) = Len(s) + 1
      /\ \A i \in 1 .. Len(s) + 1 : c[i] = k[t[i]]
  <2>1. t \in Seq(Nodes)
    BY <1>1
  <2>2. c \in Seq(S) /\ Len(c) = Len(t) /\ \A i \in 1 .. Len(t) : c[i] = k[t[i]]
    BY <2>1, KeysType
  <2> HIDE DEF c
  <2> QED
    BY <1>1, <2>2
<1>3. /\ Keys(s, k) \in Seq(S) /\ Len(Keys(s, k)) = Len(s)
      /\ \A i \in 1 .. Len(s) : Keys(s, k)[i] = k[s[i]]
  BY <1>1, KeysType
<1>4. d \in Seq(S) /\ Len(d) = Len(s) + 1 /\ d[Len(s) + 1] = k[n]
      /\ \A i \in 1 .. Len(s) : d[i] = Keys(s, k)[i]
  <2>1. k[n] \in S
    OBVIOUS
  <2> QED
    BY <1>3, <2>1, AppendProperties
<1> HIDE DEF c, d
<1>5. \A i \in 1 .. Len(s) + 1 : c[i] = d[i]
  BY <1>1, <1>2, <1>3, <1>4
<1>6. c = d
  BY <1>1, <1>2, <1>4, <1>5, SeqEqual
<1> QED
  BY <1>6 DEF c, d, t

LEMMA KeysRemove ==
    ASSUME NEW s \in Seq(Nodes), NEW S, NEW k \in [Nodes -> S], NEW i \in DOMAIN s
    PROVE  Keys(RemoveAt(s, i), k) = RemoveAt(Keys(s, k), i)
<1> DEFINE r == RemoveAt(s, i)
           c == Keys(r, k)
           d == RemoveAt(Keys(s, k), i)
<1>1. /\ Len(s) \in Nat /\ DOMAIN s = 1 .. Len(s) /\ i \in 1 .. Len(s)
      /\ r \in Seq(Nodes) /\ Len(r) = Len(s) - 1
      /\ \A j \in 1 .. Len(s) - 1 : r[j] = IF j < i THEN s[j] ELSE s[j + 1]
  BY RemoveAtIs
<1> HIDE DEF r
<1>2. DOMAIN r = 1 .. Len(s) - 1 /\ Len(s) - 1 \in Nat
  BY <1>1
<1>3. /\ c \in Seq(S) /\ Len(c) = Len(s) - 1
      /\ \A j \in 1 .. Len(s) - 1 : c[j] = k[r[j]]
  <2>1. r \in Seq(Nodes)
    BY <1>1
  <2>2. c \in Seq(S) /\ Len(c) = Len(r) /\ \A j \in 1 .. Len(r) : c[j] = k[r[j]]
    BY <2>1, KeysType
  <2> HIDE DEF c
  <2> QED
    BY <1>1, <2>2
<1>4. /\ Keys(s, k) \in Seq(S) /\ Len(Keys(s, k)) = Len(s) /\ DOMAIN Keys(s, k) = DOMAIN s
      /\ \A j \in 1 .. Len(s) : Keys(s, k)[j] = k[s[j]]
  BY <1>1, KeysType
<1>5. /\ d \in Seq(S) /\ Len(d) = Len(s) - 1
      /\ \A j \in 1 .. Len(s) - 1 : d[j] = IF j < i THEN Keys(s, k)[j] ELSE Keys(s, k)[j + 1]
  <2> DEFINE e == Keys(s, k)
  <2>1. e \in Seq(S) /\ i \in DOMAIN e /\ Len(e) = Len(s)
    BY <1>4
  <2> HIDE DEF e
  <2>2. /\ RemoveAt(e, i) \in Seq(S) /\ Len(RemoveAt(e, i)) = Len(e) - 1
        /\ \A j \in 1 .. Len(e) - 1 : RemoveAt(e, i)[j] = IF j < i THEN e[j] ELSE e[j + 1]
    BY <2>1, RemoveAtIs
  <2> QED
    BY <2>1, <2>2 DEF e
<1> HIDE DEF c, d
<1>6. \A j \in 1 .. Len(s) - 1 : c[j] = d[j]
  <2> SUFFICES ASSUME NEW j \in 1 .. Len(s) - 1 PROVE c[j] = d[j]
    OBVIOUS
  <2>1. j \in 1 .. Len(s) /\ j + 1 \in 1 .. Len(s)
    BY <1>1
  <2> QED
    BY <1>1, <1>3, <1>4, <1>5, <2>1
<1>7. c = d
  BY <1>2, <1>3, <1>5, <1>6, SeqEqual
<1> QED
  BY <1>7 DEF c, d, r

-----------------------------------------------------------------------------
(* What the table and the call in progress have to do with each other *)

\* The nodes malloc has given out, and the one that hangs in no table: a call
\* has it in its hands.
Allocated == {n \in Nodes : key[n] # Null}
Loose == {entry[t] : t \in {r \in Threads : pc[r] = "add"}}

TableTypes ==
    /\ head \in Nodes \cup {Null} /\ tail \in Nodes \cup {Null}
    /\ next \in [Nodes -> Nodes \cup {Null}] /\ prev \in [Nodes -> Nodes \cup {Null}]

KeyTypes ==
    /\ key \in [Nodes -> Urls \cup {Null}] /\ url \in [Threads -> Urls \cup {Null}]
    /\ \A t \in Threads : pc[t] # "idle" => op[t] \in {"lookup", "add"} /\ url[t] \in Urls

\* No node is lost or given out twice, and no two hold the same URL.
Owned(s) ==
    /\ Allocated = Elements(s) \cup Loose /\ Elements(s) \cap Loose = {}
    /\ \A m, n \in Allocated : key[m] = key[n] => m = n

\* What addUrlNotFound makes of the URLs all.
Pruned(all) == IF Len(all) >= MAX_CACHE_SIZE THEN Tail(all) ELSE all

\* c is what t's call makes of the URLs that it found.
Made(t, c) ==
    /\ op[t] = "lookup" /\ entry[t] # Null =>
          \E i \in DOMAIN atLock : atLock[i] = url[t] /\ c = Append(RemoveAt(atLock, i), url[t])
    /\ op[t] = "lookup" /\ entry[t] = Null => url[t] \notin Elements(atLock) /\ c = atLock
    /\ op[t] = "add" => IF url[t] \in Elements(atLock) THEN c = atLock
                        ELSE c = Pruned(Append(atLock, url[t]))

\* How far t's call has come, when the table holds the URLs c.
Doing(t, c) ==
    /\ pc[t] \in {"find", "del", "malloc"} => c = atLock
    /\ pc[t] = "del" => op[t] = "lookup" /\ entry[t] \in chained /\ key[entry[t]] = url[t]
    /\ pc[t] = "malloc" => op[t] = "add" /\ url[t] \notin Elements(atLock)
    /\ pc[t] = "add" =>
          /\ key[entry[t]] = url[t]
          /\ op[t] = "lookup" =>
                \E i \in DOMAIN atLock : atLock[i] = url[t] /\ c = RemoveAt(atLock, i)
          /\ op[t] = "add" => url[t] \notin Elements(atLock) /\ c = atLock
    /\ pc[t] = "prune" => /\ op[t] = "add" /\ url[t] \notin Elements(atLock)
                          /\ c = Append(atLock, url[t])
    /\ pc[t] = "unlock" => Made(t, c)

Sound(s) == Linked(s) /\ Owned(s) /\ \A t \in Threads : Doing(t, Keys(s, key))

ListInv == TableTypes /\ KeyTypes /\ \E s \in Seq(Nodes) : Sound(s)

\* While a thread is inside no other has a node in its hands.
LEMMA AloneLoose ==
    ASSUME Inv, NEW t \in Threads, pc[t] \in Critical
    PROVE  /\ \A r \in Threads \ {t} : pc[r] \notin Critical
           /\ Loose = IF pc[t] = "add" THEN {entry[t]} ELSE {}
<1>1. \A r \in Threads \ {t} : pc[r] \notin Critical
  BY AloneInside DEF Inv
<1>2. \A r \in Threads \ {t} : pc[r] # "add"
  BY <1>1 DEF Critical
<1> QED
  BY <1>1, <1>2 DEF Loose

\* A step between lock and unlock has to account for its own thread only.
LEMMA Resume ==
    ASSUME Inv, NEW t \in Threads, pc[t] \in Critical, NEW where, pc' = [pc EXCEPT ![t] = where],
           NEW s \in Seq(Nodes), Linked(s)', Owned(s)', TableTypes', KeyTypes', Doing(t, Keys(s, key))'
    PROVE  ListInv'
<1>1. \A r \in Threads \ {t} : pc[r] \notin Critical
  BY AloneLoose
<1>2. pc \in [Threads -> Critical \cup {"idle", "lock"}]
  BY DEF Inv, CallTypes
<1>3. ASSUME NEW r \in Threads, r # t
      PROVE  Doing(r, Keys(s, key))'
  <2>1. pc'[r] \notin Critical
    BY <1>1, <1>2, <1>3
  <2> QED
    BY <2>1 DEF Doing, Critical
<1>4. \A r \in Threads : Doing(r, Keys(s, key))'
  BY <1>3
<1>5. Sound(s)'
  BY <1>4 DEF Sound
<1> QED
  BY <1>5 DEF ListInv

\* What such a step leaves loose.
LEMMA LooseAfter ==
    ASSUME Inv, NEW t \in Threads, pc[t] \in Critical, NEW where, pc' = [pc EXCEPT ![t] = where]
    PROVE  Loose' = IF where = "add" THEN {entry'[t]} ELSE {}
<1>1. \A r \in Threads \ {t} : pc[r] \notin Critical
  BY AloneLoose
<1>2. pc \in [Threads -> Critical \cup {"idle", "lock"}]
  BY DEF Inv, CallTypes
<1>3. pc'[t] = where /\ \A r \in Threads \ {t} : pc'[r] # "add"
  BY <1>1, <1>2 DEF Critical
<1> QED
  BY <1>3 DEF Loose

LEMMA NoneAfter ==
    ASSUME Inv, NEW t \in Threads, pc[t] \in Critical,
           pc' = [pc EXCEPT ![t] = "unlock"] \/ pc' = [pc EXCEPT ![t] = "idle"]
    PROVE  Loose' = {}
<1>1. \A r \in Threads \ {t} : pc[r] \notin Critical
  BY AloneLoose
<1>2. pc \in [Threads -> Critical \cup {"idle", "lock"}]
  BY DEF Inv, CallTypes
<1>3. pc'[t] # "add" /\ \A r \in Threads \ {t} : pc'[r] # "add"
  BY <1>1, <1>2 DEF Critical
<1> QED
  BY <1>3 DEF Loose

\* The types of the links are kept.
LEMMA AddTypes ==
    ASSUME TableTypes, NEW n \in Nodes, HashAdd(n)
    PROVE  TableTypes'
<1>1. CASE head = Null
  BY <1>1 DEF TableTypes, HashAdd
<1>2. CASE head # Null
  <2>1. /\ head' = head /\ tail' = n
        /\ prev' = [prev EXCEPT ![n] = tail] /\ next' = [next EXCEPT ![n] = Null, ![tail] = n]
    BY <1>2 DEF HashAdd
  <2> QED
    BY <2>1 DEF TableTypes
<1> QED
  BY <1>1, <1>2

LEMMA DeleteTypes ==
    ASSUME TableTypes, NEW n \in Nodes, HashDelete(n)
    PROVE  TableTypes'
<1>1. CASE prev[n] = Null /\ next[n] = Null
  BY <1>1 DEF TableTypes, HashDelete
<1>2. CASE ~(prev[n] = Null /\ next[n] = Null)
  <2>1. /\ tail' = (IF n = tail THEN prev[n] ELSE tail)
        /\ head' = (IF prev[n] = Null THEN next[n] ELSE head)
        /\ next' = [m \in Nodes |-> CASE m = n -> Null [] m = prev[n] -> next[n] [] OTHER -> next[m]]
        /\ prev' = [m \in Nodes |-> CASE m = n -> Null [] m = next[n] -> prev[n] [] OTHER -> prev[m]]
    BY <1>2 DEF HashDelete
  <2> QED
    BY <2>1 DEF TableTypes
<1> QED
  BY <1>1, <1>2

\* A step that leaves key and the calls' arguments alone leaves their types.
LEMMA SameKeys ==
    ASSUME Inv, KeyTypes, NEW t \in Threads, pc[t] \in Critical, NEW where,
           pc' = [pc EXCEPT ![t] = where], UNCHANGED <<key, op, url>>
    PROVE  KeyTypes'
<1>1. pc \in [Threads -> Critical \cup {"idle", "lock"}]
  BY DEF Inv, CallTypes
<1>2. pc[t] # "idle"
  BY DEF Critical
<1> QED
  BY <1>1, <1>2 DEF KeyTypes

\* A table that is not touched holds what it held.
LEMMA SameTable ==
    ASSUME NEW s, Linked(s), UNCHANGED table
    PROVE  Linked(s)'
BY DEF Linked, IsLine, table, list

-----------------------------------------------------------------------------
(* Each statement keeps the table sound *)

LEMMA ListFind ==
    ASSUME Inv, ListInv, NEW t \in Threads, Find(t)
    PROVE  ListInv'
<1>0. PICK s \in Seq(Nodes) : Sound(s)
  BY DEF ListInv
<1> DEFINE hits == {n \in chained : key[n] = url[t]}
           n == IF hits = {} THEN Null ELSE CHOOSE m \in hits : TRUE
           where == AfterFind(t, hits # {})
<1>1. /\ pc[t] = "find" /\ pc' = [pc EXCEPT ![t] = where]
      /\ entry' = [entry EXCEPT ![t] = n]
      /\ UNCHANGED <<owner, table, key, op, url, atLock>>
  BY DEF Find, Goto
<1>2. pc[t] \in Critical /\ entry \in [Threads -> Nodes \cup {Null}] /\ pc \in [Threads -> Critical \cup {"idle", "lock"}]
  BY <1>1 DEF Inv, CallTypes, Critical
<1>3. TableTypes' /\ KeyTypes'
  <2>1. TableTypes'
    BY <1>1 DEF ListInv, TableTypes, table, list
  <2> HIDE DEF where
  <2> QED
    BY <1>1, <1>2, <2>1, SameKeys DEF ListInv
<1>4. Linked(s) /\ Owned(s) /\ Doing(t, Keys(s, key)) /\ Linked(s)'
  BY <1>0, <1>1, SameTable DEF Sound
<1>5. op[t] \in {"lookup", "add"}
  BY <1>1 DEF ListInv, KeyTypes
<1>6. /\ where = "del" => op[t] = "lookup" /\ hits # {}
      /\ where = "malloc" => op[t] = "add" /\ hits = {}
      /\ where = "unlock" => (op[t] = "lookup" /\ hits = {}) \/ (op[t] = "add" /\ hits # {})
      /\ where \in {"del", "malloc", "unlock"}
  BY <1>5 DEF AfterFind
<1>7. /\ hits = {} => n = Null /\ url[t] \notin Elements(atLock)
      /\ hits # {} => n \in hits /\ n # Null /\ url[t] \in Elements(atLock)
  <2>1. Keys(s, key) = atLock /\ chained = Elements(s)
    BY <1>1, <1>4 DEF Doing, Linked
  <2>2. hits # {} => (CHOOSE m \in hits : TRUE) \in hits
    OBVIOUS
  <2>3. hits # {} <=> url[t] \in Elements(atLock)
    BY <2>1, KeysElements
  <2>4. \A m \in hits : m # Null
    BY NullAssumption DEF Inv, CallTypes
  <2> HIDE DEF hits
  <2> QED
    BY <2>2, <2>3, <2>4
<1>8. Keys(s, key) = atLock
  BY <1>1, <1>4 DEF Doing
<1>9. hits # {} => n \in chained /\ key[n] = url[t]
  BY <1>7
<1> HIDE DEF hits, n, where
<1>10. Loose = {} /\ Loose' = {}
  <2>1. where # "add" /\ pc[t] # "add"
    BY <1>1, <1>6
  <2> QED
    BY <1>1, <1>2, <2>1, AloneLoose, LooseAfter
<1>11. Owned(s)'
  BY <1>1, <1>4, <1>10 DEF Owned, Allocated
<1>12. Doing(t, Keys(s, key))'
  <2>1. /\ pc'[t] = where /\ entry'[t] = n /\ op'[t] = op[t] /\ url'[t] = url[t]
        /\ atLock' = atLock /\ key' = key /\ chained' = chained /\ Keys(s, key)' = atLock
    BY <1>1, <1>2, <1>8 DEF table
  <2>2. CASE where = "del"
    <3>1. hits # {} /\ op[t] = "lookup"
      BY <1>6, <2>2
    <3> QED
      BY <1>9, <2>1, <2>2, <3>1 DEF Doing
  <2>3. CASE where = "malloc"
    <3>1. hits = {} /\ op[t] = "add"
      BY <1>6, <2>3
    <3> QED
      BY <1>7, <2>1, <2>3, <3>1 DEF Doing
  <2>4. CASE where = "unlock"
    <3>1. Made(t, atLock)'
      <4>1. CASE op[t] = "lookup" /\ hits = {}
        BY <1>7, <2>1, <4>1 DEF Made
      <4>2. CASE op[t] = "add" /\ hits # {}
        BY <1>7, <2>1, <4>2 DEF Made
      <4> QED
        BY <1>6, <2>4, <4>1, <4>2
    <3>2. Made(t, Keys(s, key))'
      BY <2>1, <3>1
    <3> QED
      BY <2>1, <2>4, <3>2 DEF Doing
  <2> QED
    BY <1>6, <2>2, <2>3, <2>4
<1> QED
  BY <1>1, <1>2, <1>3, <1>4, <1>11, <1>12, Resume

LEMMA ListDel ==
    ASSUME Inv, ListInv, NEW t \in Threads, Del(t)
    PROVE  ListInv'
<1>0. PICK s \in Seq(Nodes) : Sound(s)
  BY DEF ListInv
<1>1. /\ pc[t] = "del" /\ pc' = [pc EXCEPT ![t] = "add"] /\ HashDelete(entry[t])
      /\ UNCHANGED <<owner, key, op, url, entry, atLock>>
  BY DEF Del, Goto
<1>2. pc[t] \in Critical /\ pc \in [Threads -> Critical \cup {"idle", "lock"}]
  BY <1>1 DEF Inv, CallTypes, Critical
<1>3. Linked(s) /\ Owned(s) /\ Doing(t, Keys(s, key))
  BY <1>0 DEF Sound
<1>4. /\ Keys(s, key) = atLock /\ op[t] = "lookup"
      /\ entry[t] \in Elements(s) /\ key[entry[t]] = url[t]
  BY <1>1, <1>3 DEF Doing, Linked
<1>5. PICK i \in DOMAIN s : entry[t] = s[i]
  BY <1>4 DEF Elements
<1> DEFINE r == RemoveAt(s, i)
<1>6. r \in Seq(Nodes) /\ Elements(r) \cup {s[i]} = Elements(s)
  BY RemoveAtElements
<1>7. Linked(r)'
  <2>1. HashDelete(s[i])
    BY <1>1, <1>5
  <2> QED
    BY <1>3, <2>1, DeleteFromLine
<1>8. TableTypes' /\ KeyTypes'
  <2>1. s[i] \in Nodes /\ HashDelete(s[i]) /\ TableTypes /\ KeyTypes
    BY <1>1, <1>5 DEF ListInv
  <2> QED
    BY <1>1, <1>2, <2>1, DeleteTypes, SameKeys
<1>9. Loose = {} /\ Loose' = {s[i]}
  <2>1. pc[t] # "add" /\ entry'[t] = s[i]
    BY <1>1, <1>5
  <2> QED
    BY <1>1, <1>2, <2>1, AloneLoose, LooseAfter
<1>10. s[i] \notin Elements(r)
  <2>1. Linked(r)' /\ HashDelete(s[i])
    BY <1>1, <1>5, <1>7
  <2>2. chained' = Elements(r)
    BY <1>7 DEF Linked
  <2>3. s[i] \notin chained'
    BY <2>1 DEF HashDelete
  <2> QED
    BY <2>2, <2>3
<1> HIDE DEF r
<1>11. Owned(r)'
  <2>1. Allocated' = Allocated
    BY <1>1 DEF Allocated
  <2>2. Allocated = Elements(r) \cup {s[i]}
    BY <1>3, <1>6, <1>9 DEF Owned
  <2> QED
    BY <1>1, <1>3, <1>9, <1>10, <2>1, <2>2 DEF Owned
<1>12. Doing(t, Keys(r, key))'
  <2>1. Keys(r, key)' = RemoveAt(atLock, i)
    <3>1. key \in [Nodes -> Urls \cup {Null}]
      BY DEF ListInv, KeyTypes
    <3>2. Keys(r, key) = RemoveAt(Keys(s, key), i)
      BY <3>1, KeysRemove DEF r
    <3> QED
      BY <1>1, <1>4, <3>2
  <2>2. i \in DOMAIN atLock /\ atLock[i] = url[t]
    <3>1. DOMAIN Keys(s, key) = DOMAIN s /\ Keys(s, key)[i] = key[s[i]]
      BY DEF Keys
    <3> QED
      BY <1>4, <1>5, <3>1
  <2>3. pc'[t] = "add" /\ op'[t] = "lookup" /\ key'[entry'[t]] = url'[t] /\ url'[t] = url[t] /\ atLock' = atLock
    BY <1>1, <1>2, <1>4
  <2> QED
    BY <2>1, <2>2, <2>3 DEF Doing
<1> QED
  BY <1>1, <1>2, <1>6, <1>7, <1>8, <1>11, <1>12, Resume

LEMMA ListMalloc ==
    ASSUME Inv, ListInv, NEW t \in Threads, Malloc(t)
    PROVE  ListInv'
<1>0. PICK s \in Seq(Nodes) : Sound(s)
  BY DEF ListInv
<1>1. PICK n \in Nodes : key[n] = Null /\ entry' = [entry EXCEPT ![t] = n]
                         /\ key' = [key EXCEPT ![n] = url[t]]
  <2>1. /\ {m \in Nodes : key[m] = Null} # {}
        /\ entry' = [entry EXCEPT ![t] = CHOOSE m \in {x \in Nodes : key[x] = Null} : TRUE]
        /\ key' = [key EXCEPT ![CHOOSE m \in {x \in Nodes : key[x] = Null} : TRUE] = url[t]]
    BY DEF Malloc
  <2>2. (CHOOSE m \in {x \in Nodes : key[x] = Null} : TRUE) \in {m \in Nodes : key[m] = Null}
    BY <2>1
  <2> QED
    BY <2>1, <2>2
<1>2. /\ pc[t] = "malloc" /\ pc' = [pc EXCEPT ![t] = "add"]
      /\ UNCHANGED <<owner, table, op, url, atLock>>
  BY DEF Malloc, Goto
<1>3. /\ pc[t] \in Critical /\ pc \in [Threads -> Critical \cup {"idle", "lock"}]
      /\ entry \in [Threads -> Nodes \cup {Null}]
  BY <1>2 DEF Inv, CallTypes, Critical
<1>4. Linked(s) /\ Owned(s) /\ Doing(t, Keys(s, key)) /\ Linked(s)'
  BY <1>0, <1>2, SameTable DEF Sound
<1>5. /\ key \in [Nodes -> Urls \cup {Null}] /\ url[t] \in Urls /\ url[t] # Null
      /\ entry'[t] = n /\ key'[n] = url[t] /\ \A m \in Nodes \ {n} : key'[m] = key[m]
  <2>1. key \in [Nodes -> Urls \cup {Null}] /\ url[t] \in Urls
    BY <1>2 DEF ListInv, KeyTypes
  <2>2. url[t] # Null
    BY <2>1, NullAssumption
  <2> QED
    BY <1>1, <1>3, <2>1, <2>2
<1>6. Keys(s, key) = atLock /\ op[t] = "add" /\ url[t] \notin Elements(atLock)
  BY <1>2, <1>4 DEF Doing
<1>7. Loose = {} /\ Loose' = {n}
  <2>1. pc[t] # "add"
    BY <1>2
  <2> QED
    BY <1>2, <1>3, <1>5, <2>1, AloneLoose, LooseAfter
<1>8. Allocated = Elements(s) /\ n \notin Elements(s)
  <2>1. Allocated = Elements(s)
    BY <1>4, <1>7 DEF Owned
  <2> QED
    BY <1>1, <2>1 DEF Allocated
<1>9. Allocated' = Elements(s) \cup {n}
  BY <1>5, <1>8 DEF Allocated
<1>10. \A m \in Elements(s) : key'[m] = key[m] /\ key[m] # url[t] /\ m \in Nodes
  BY <1>5, <1>6, <1>8, KeysElements DEF Allocated
<1>11. Owned(s)'
  <2>1. \A k, m \in Elements(s) : key[k] = key[m] => k = m
    BY <1>4, <1>8 DEF Owned
  <2>2. \A k, m \in Allocated' : key'[k] = key'[m] => k = m
    BY <1>5, <1>9, <1>10, <2>1
  <2> QED
    BY <1>7, <1>8, <1>9, <2>2 DEF Owned
<1>12. Keys(s, key)' = atLock
  <2>1. \A i \in DOMAIN s : key'[s[i]] = key[s[i]]
    BY <1>10 DEF Elements
  <2> QED
    BY <1>6, <2>1 DEF Keys
<1>13. Doing(t, Keys(s, key))'
  <2>1. /\ pc'[t] = "add" /\ op'[t] = "add" /\ url'[t] = url[t] /\ atLock' = atLock
        /\ key'[entry'[t]] = url[t]
    BY <1>2, <1>3, <1>5, <1>6
  <2> QED
    BY <1>6, <1>12, <2>1 DEF Doing
<1>14. TableTypes' /\ KeyTypes'
  <2>1. TableTypes'
    BY <1>2 DEF ListInv, TableTypes, table, list
  <2>2. key' \in [Nodes -> Urls \cup {Null}]
    BY <1>1, <1>5
  <2>3. \A r \in Threads : pc'[r] # "idle" => pc[r] # "idle"
    BY <1>2, <1>3
  <2> QED
    BY <1>2, <2>1, <2>2, <2>3 DEF ListInv, KeyTypes
<1> QED
  BY <1>2, <1>3, <1>4, <1>11, <1>13, <1>14, Resume

LEMMA ListAdd ==
    ASSUME Inv, ListInv, NEW t \in Threads, Add(t)
    PROVE  ListInv'
<1>0. PICK s \in Seq(Nodes) : Sound(s)
  BY DEF ListInv
<1> DEFINE where == IF op[t] = "lookup" THEN "unlock" ELSE "prune"
<1>1. /\ pc[t] = "add" /\ pc' = [pc EXCEPT ![t] = where] /\ HashAdd(entry[t])
      /\ UNCHANGED <<owner, key, op, url, entry, atLock>>
  BY DEF Add, Goto
<1>2. pc[t] \in Critical /\ pc \in [Threads -> Critical \cup {"idle", "lock"}]
  BY <1>1 DEF Inv, CallTypes, Critical
<1>3. Linked(s) /\ Owned(s) /\ Doing(t, Keys(s, key))
  BY <1>0 DEF Sound
<1>4. PICK n \in Nodes : n = entry[t]
  BY <1>1 DEF Inv, Room
<1>5. Loose = {n} /\ Loose' = {}
  <2>1. where # "add"
    OBVIOUS
  <2> HIDE DEF where
  <2> QED
    BY <1>1, <1>2, <1>4, <2>1, AloneLoose, LooseAfter
<1>6. n \notin Elements(s) /\ Allocated = Elements(s) \cup {n}
  BY <1>3, <1>5 DEF Owned
<1>7. HashAdd(n)
  BY <1>1, <1>4
<1> DEFINE r == Append(s, n)
<1>8. Linked(r)'
  <2>1. next \in [Nodes -> Nodes \cup {Null}] /\ prev \in [Nodes -> Nodes \cup {Null}]
    BY DEF ListInv, TableTypes
  <2> QED
    BY <1>3, <1>6, <1>7, <2>1, AddToLine
<1>9. r \in Seq(Nodes) /\ Elements(r) = Elements(s) \cup {n}
  BY AppendElements
<1>10. TableTypes' /\ KeyTypes'
  <2>1. TableTypes /\ KeyTypes
    BY DEF ListInv
  <2> HIDE DEF where
  <2> QED
    BY <1>1, <1>2, <1>7, <2>1, AddTypes, SameKeys
<1>11. Keys(r, key)' = Append(Keys(s, key), url[t])
  <2>1. key \in [Nodes -> Urls \cup {Null}]
    BY DEF ListInv, KeyTypes
  <2>2. Keys(r, key) = Append(Keys(s, key), key[n])
    BY <2>1, KeysAppend
  <2>3. key[n] = url[t]
    BY <1>1, <1>3, <1>4 DEF Doing
  <2> HIDE DEF r
  <2> QED
    BY <1>1, <2>2, <2>3
<1> HIDE DEF r
<1>12. Owned(r)'
  <2>1. Allocated' = Allocated
    BY <1>1 DEF Allocated
  <2> QED
    BY <1>1, <1>3, <1>5, <1>6, <1>9, <2>1 DEF Owned
<1>13. Doing(t, Keys(r, key))'
  <2>1. /\ pc'[t] = where /\ op'[t] = op[t] /\ url'[t] = url[t] /\ entry'[t] = n
        /\ atLock' = atLock /\ n # Null
    BY <1>1, <1>2, <1>4, NullAssumption
  <2>2. op[t] \in {"lookup", "add"}
    BY <1>1 DEF ListInv, KeyTypes
  <2>3. CASE op[t] = "lookup"
    <3>1. PICK i \in DOMAIN atLock : atLock[i] = url[t] /\ Keys(s, key) = RemoveAt(atLock, i)
      BY <1>1, <1>3, <2>3 DEF Doing
    <3>2. Keys(r, key)' = Append(RemoveAt(atLock, i), url[t])
      BY <1>11, <3>1
    <3>3. Made(t, Keys(r, key))'
      BY <2>1, <2>3, <3>1, <3>2 DEF Made
    <3> QED
      BY <2>1, <2>3, <3>3 DEF Doing
  <2>4. CASE op[t] = "add"
    <3>1. url[t] \notin Elements(atLock) /\ Keys(s, key) = atLock
      BY <1>1, <1>3, <2>4 DEF Doing
    <3> QED
      BY <1>11, <2>1, <2>4, <3>1 DEF Doing
  <2> QED
    BY <2>2, <2>3, <2>4
<1> HIDE DEF where
<1> QED
  BY <1>1, <1>2, <1>8, <1>9, <1>10, <1>12, <1>13, Resume

LEMMA ListPrune ==
    ASSUME Inv, ListInv, NEW t \in Threads, Prune(t)
    PROVE  ListInv'
<1>0. PICK s \in Seq(Nodes) : Sound(s)
  BY DEF ListInv
<1>1. /\ pc[t] = "prune" /\ pc' = [pc EXCEPT ![t] = "unlock"]
      /\ UNCHANGED <<owner, op, url, entry, atLock>>
  BY DEF Prune, Goto
<1>2. pc[t] \in Critical /\ pc \in [Threads -> Critical \cup {"idle", "lock"}]
  BY <1>1 DEF Inv, CallTypes, Critical
<1>3. Linked(s) /\ Owned(s) /\ Doing(t, Keys(s, key))
  BY <1>0 DEF Sound
<1>4. key \in [Nodes -> Urls \cup {Null}]
  BY DEF ListInv, KeyTypes
<1>5. op[t] = "add" /\ url[t] \notin Elements(atLock) /\ Keys(s, key) = Append(atLock, url[t])
  BY <1>1, <1>3 DEF Doing
<1>6. Loose = {} /\ Loose' = {}
  <2>1. pc[t] # "add"
    BY <1>1
  <2>2. Loose = {}
    BY <1>2, <2>1, AloneLoose
  <2>3. Loose' = {}
    BY <1>1, <1>2, NoneAfter
  <2> QED
    BY <2>2, <2>3
<1>7. Allocated = Elements(s)
  BY <1>3, <1>6 DEF Owned
<1>8. /\ head # Null /\ s # <<>> /\ 1 \in DOMAIN s /\ head = s[1] /\ s[1] \in Nodes
      /\ HashCount = Len(Keys(s, key))
  <2>1. head # Null
    BY <1>1 DEF Inv, Room
  <2>2. s # <<>> /\ head = s[1]
    BY <1>3, <2>1 DEF Linked, IsLine
  <2>3. 1 \in DOMAIN s /\ s[1] \in Nodes
    BY <2>2
  <2>4. Len(Keys(s, key)) = Len(s)
    BY <1>4, KeysType
  <2> QED
    BY <1>3, <2>1, <2>2, <2>3, <2>4 DEF HashCount, Linked
<1>9. ASSUME NEW r \in Seq(Nodes), Keys(r, key)' = Pruned(Append(atLock, url[t]))
      PROVE  Doing(t, Keys(r, key))'
  <2>1. pc'[t] = "unlock" /\ op'[t] = "add" /\ url'[t] = url[t] /\ atLock' = atLock
    BY <1>1, <1>2, <1>5
  <2>2. Made(t, Keys(r, key))'
    BY <1>5, <1>9, <2>1 DEF Made, Pruned
  <2> QED
    BY <2>1, <2>2 DEF Doing
<1>10. CASE HashCount >= MAX_CACHE_SIZE
  <2> DEFINE r == RemoveAt(s, 1)
  <2>1. HashDelete(s[1]) /\ key' = [key EXCEPT ![s[1]] = Null]
    BY <1>8, <1>10 DEF Prune
  <2>2. Linked(r)'
    BY <1>3, <1>8, <2>1, DeleteFromLine
  <2>3. r \in Seq(Nodes) /\ Elements(r) \cup {s[1]} = Elements(s)
    BY <1>8, RemoveAtElements
  <2>4. s[1] \notin Elements(r)
    <3>1. chained' = Elements(r)
      BY <2>2 DEF Linked
    <3>2. s[1] \notin chained'
      BY <2>1 DEF HashDelete
    <3> QED
      BY <3>1, <3>2
  <2>5. TableTypes' /\ KeyTypes'
    <3>1. TableTypes'
      BY <1>8, <2>1, DeleteTypes DEF ListInv
    <3>2. key' \in [Nodes -> Urls \cup {Null}]
      BY <1>4, <2>1
    <3>3. \A x \in Threads : pc'[x] # "idle" => pc[x] # "idle"
      BY <1>1, <1>2
    <3> QED
      BY <1>1, <3>1, <3>2, <3>3 DEF ListInv, KeyTypes
  <2>6. Keys(r, key) = Tail(Append(atLock, url[t]))
    <3> DEFINE c == Keys(s, key)
    <3>1. Keys(r, key) = RemoveAt(c, 1)
      BY <1>4, <1>8, KeysRemove
    <3>2. c \in Seq(Urls \cup {Null}) /\ Len(c) = Len(s)
      BY <1>4, KeysType
    <3> HIDE DEF c
    <3>3. c # <<>>
      BY <1>8, <3>2
    <3>4. RemoveAt(c, 1) = Tail(c)
      BY <3>2, <3>3, RemoveAtHead
    <3> QED
      BY <1>5, <3>1, <3>4 DEF c
  <2> HIDE DEF r
  <2>7. \A m \in Nodes \ {s[1]} : key'[m] = key[m]
    BY <1>4, <2>1
  <2>8. key'[s[1]] = Null
    BY <1>4, <1>8, <2>1
  <2>9. Allocated' = Elements(r)
    BY <1>7, <2>3, <2>4, <2>7, <2>8 DEF Allocated
  <2>10. Owned(r)'
    <3>1. \A m \in Elements(r) : m \in Allocated /\ key'[m] = key[m]
      BY <1>7, <2>3, <2>4, <2>7 DEF Allocated
    <3> QED
      BY <1>3, <1>6, <2>9, <3>1 DEF Owned
  <2>11. Keys(r, key)' = Pruned(Append(atLock, url[t]))
    <3>1. \A i \in DOMAIN r : key'[r[i]] = key[r[i]]
      <4>1. \A i \in DOMAIN r : r[i] \in Nodes \ {s[1]}
        BY <2>3, <2>4 DEF Elements
      <4> QED
        BY <2>7, <4>1
    <3>2. Keys(r, key)' = Keys(r, key)
      BY <3>1 DEF Keys
    <3>3. Len(Append(atLock, url[t])) >= MAX_CACHE_SIZE
      BY <1>5, <1>8, <1>10
    <3> QED
      BY <2>6, <3>2, <3>3 DEF Pruned
  <2>12. Doing(t, Keys(r, key))'
    BY <1>9, <2>3, <2>11
  <2> QED
    BY <1>1, <1>2, <2>2, <2>3, <2>5, <2>10, <2>12, Resume
<1>11. CASE ~(HashCount >= MAX_CACHE_SIZE)
  <2>1. UNCHANGED <<table, key>>
    BY <1>11 DEF Prune
  <2>2. Linked(s)'
    BY <1>3, <2>1, SameTable
  <2>3. TableTypes' /\ KeyTypes'
    <3>1. TableTypes'
      BY <2>1 DEF ListInv, TableTypes, table, list
    <3> QED
      BY <1>1, <1>2, <2>1, <3>1, SameKeys DEF ListInv
  <2>4. Owned(s)'
    BY <1>3, <1>6, <2>1 DEF Owned, Allocated
  <2>5. Keys(s, key)' = Pruned(Append(atLock, url[t]))
    <3>1. ~(Len(Append(atLock, url[t])) >= MAX_CACHE_SIZE)
      BY <1>5, <1>8, <1>11
    <3> QED
      BY <1>5, <2>1, <3>1 DEF Pruned
  <2>6. Doing(t, Keys(s, key))'
    BY <1>9, <2>5
  <2> QED
    BY <1>1, <1>2, <2>2, <2>3, <2>4, <2>6, Resume
<1> QED
  BY <1>10, <1>11

\* Outside the mutex nothing changes but what the callers want.
LEMMA ListCall ==
    ASSUME Inv, ListInv, NEW t \in Threads, NEW f \in {"lookup", "add"}, NEW u \in Urls, Call(t, f, u)
    PROVE  ListInv'
<1>0. PICK s \in Seq(Nodes) : Sound(s)
  BY DEF ListInv
<1>1. /\ pc[t] = "idle" /\ pc' = [pc EXCEPT ![t] = "lock"]
      /\ op' = [op EXCEPT ![t] = f] /\ url' = [url EXCEPT ![t] = u]
      /\ UNCHANGED <<owner, table, key, entry, atLock>>
  BY DEF Call, Goto
<1>2. /\ pc \in [Threads -> Critical \cup {"idle", "lock"}]
      /\ op \in [Threads -> {"none", "lookup", "add"}]
      /\ url \in [Threads -> Urls \cup {Null}] /\ key \in [Nodes -> Urls \cup {Null}]
      /\ \A r \in Threads : pc[r] # "idle" => op[r] \in {"lookup", "add"} /\ url[r] \in Urls
  BY DEF Inv, CallTypes, ListInv, KeyTypes
<1>3. TableTypes'
  BY <1>1 DEF ListInv, TableTypes, table, list
<1>4. KeyTypes'
  <2>1. ASSUME NEW r \in Threads, pc'[r] # "idle"
        PROVE  op'[r] \in {"lookup", "add"} /\ url'[r] \in Urls
    BY <1>1, <1>2, <2>1
  <2>2. url' \in [Threads -> Urls \cup {Null}] /\ key' \in [Nodes -> Urls \cup {Null}]
    BY <1>1, <1>2
  <2> QED
    BY <2>1, <2>2 DEF KeyTypes
<1>5. Linked(s)'
  BY <1>0, <1>1, SameTable DEF Sound
<1>6. \A r \in Threads : pc'[r] = "add" <=> pc[r] = "add"
  BY <1>1, <1>2
<1>7. Loose' = Loose
  BY <1>1, <1>6 DEF Loose
<1>8. Owned(s)'
  BY <1>0, <1>1, <1>7 DEF Sound, Owned, Allocated
<1>9. ASSUME NEW r \in Threads
      PROVE  Doing(r, Keys(s, key))'
  <2>1. Doing(r, Keys(s, key))
    BY <1>0 DEF Sound
  <2>2. Keys(s, key)' = Keys(s, key)
    BY <1>1
  <2>3. CASE r = t
    <3>1. pc'[r] = "lock"
      BY <1>1, <1>2, <2>3
    <3> QED
      BY <3>1 DEF Doing
  <2>4. CASE r # t
    <3>1. pc'[r] = pc[r] /\ op'[r] = op[r] /\ url'[r] = url[r] /\ entry'[r] = entry[r]
      BY <1>1, <1>2, <2>4
    <3>2. Made(r, Keys(s, key)) => Made(r, Keys(s, key))'
      BY <1>1, <2>2, <3>1 DEF Made
    <3> QED
      BY <1>1, <2>1, <2>2, <3>1, <3>2 DEF Doing, table
  <2> QED
    BY <2>3, <2>4
<1>10. Sound(s)'
  BY <1>5, <1>8, <1>9 DEF Sound
<1> QED
  BY <1>3, <1>4, <1>10 DEF ListInv

\* Taking the mutex starts a call with the URLs there are.
LEMMA ListLock ==
    ASSUME Inv, ListInv, NEW t \in Threads, Lock(t)
    PROVE  ListInv'
<1>0. PICK s \in Seq(Nodes) : Sound(s)
  BY DEF ListInv
<1>1. /\ pc[t] = "lock" /\ pc' = [pc EXCEPT ![t] = "find"] /\ owner = Nobody
      /\ atLock' = UrlsByAge /\ UNCHANGED <<table, key, op, url, entry>>
  BY DEF Lock, Goto
<1>2. /\ pc \in [Threads -> Critical \cup {"idle", "lock"}]
      /\ \A r \in Threads : pc[r] # "idle" => op[r] \in {"lookup", "add"} /\ url[r] \in Urls
      /\ \A r \in Threads : pc[r] \notin Critical
  BY <1>1, NullAssumption DEF Inv, CallTypes, ListInv, KeyTypes, OnlyOwnerInside
<1>3. TableTypes'
  BY <1>1 DEF ListInv, TableTypes, table, list
<1>4. KeyTypes'
  <2>1. \A r \in Threads : pc'[r] # "idle" => pc[r] # "idle"
    BY <1>1, <1>2
  <2> QED
    BY <1>1, <2>1 DEF ListInv, KeyTypes
<1>5. Linked(s) /\ Owned(s) /\ Linked(s)'
  BY <1>0, <1>1, SameTable DEF Sound
<1>6. Loose = {} /\ Loose' = {}
  <2>1. \A r \in Threads : pc[r] # "add" /\ pc'[r] # "add"
    BY <1>1, <1>2 DEF Critical
  <2> QED
    BY <2>1 DEF Loose
<1>7. Owned(s)'
  BY <1>1, <1>5, <1>6 DEF Owned, Allocated
<1>8. Keys(s, key)' = atLock'
  BY <1>1, <1>5, LineMet DEF LineIsMet
<1>9. ASSUME NEW r \in Threads
      PROVE  Doing(r, Keys(s, key))'
  <2>1. CASE r = t
    <3>1. pc'[r] = "find"
      BY <1>1, <1>2, <2>1
    <3> QED
      BY <1>8, <3>1 DEF Doing
  <2>2. CASE r # t
    <3>1. pc'[r] \notin Critical
      BY <1>1, <1>2, <2>2
    <3> QED
      BY <3>1 DEF Doing, Critical
  <2> QED
    BY <2>1, <2>2
<1>10. Sound(s)'
  BY <1>5, <1>7, <1>9 DEF Sound
<1> QED
  BY <1>3, <1>4, <1>10 DEF ListInv

LEMMA ListUnlock ==
    ASSUME Inv, ListInv, NEW t \in Threads, Unlock(t)
    PROVE  ListInv'
<1>0. PICK s \in Seq(Nodes) : Sound(s)
  BY DEF ListInv
<1>1. /\ pc[t] = "unlock" /\ pc' = [pc EXCEPT ![t] = "idle"]
      /\ op' = [op EXCEPT ![t] = "none"] /\ url' = [url EXCEPT ![t] = Null]
      /\ UNCHANGED <<table, key>>
  BY DEF Unlock, Goto
<1>2. /\ pc[t] \in Critical /\ pc \in [Threads -> Critical \cup {"idle", "lock"}]
      /\ op \in [Threads -> {"none", "lookup", "add"}]
      /\ url \in [Threads -> Urls \cup {Null}] /\ key \in [Nodes -> Urls \cup {Null}]
      /\ \A r \in Threads : pc[r] # "idle" => op[r] \in {"lookup", "add"} /\ url[r] \in Urls
  BY <1>1 DEF Inv, CallTypes, Critical, ListInv, KeyTypes
<1>3. Linked(s) /\ Owned(s) /\ Linked(s)'
  BY <1>0, <1>1, SameTable DEF Sound
<1>4. TableTypes'
  BY <1>1 DEF ListInv, TableTypes, table, list
<1>5. KeyTypes'
  <2>1. ASSUME NEW r \in Threads, pc'[r] # "idle"
        PROVE  op'[r] \in {"lookup", "add"} /\ url'[r] \in Urls
    BY <1>1, <1>2, <2>1
  <2>2. url' \in [Threads -> Urls \cup {Null}] /\ key' \in [Nodes -> Urls \cup {Null}]
    BY <1>1, <1>2
  <2> QED
    BY <2>1, <2>2 DEF KeyTypes
<1>6. Loose = {} /\ Loose' = {}
  <2>1. pc[t] # "add"
    BY <1>1
  <2>2. Loose = {}
    BY <1>2, <2>1, AloneLoose
  <2>3. Loose' = {}
    BY <1>1, <1>2, NoneAfter
  <2> QED
    BY <2>2, <2>3
<1>7. Owned(s)'
  BY <1>1, <1>3, <1>6 DEF Owned, Allocated
<1>8. Doing(t, Keys(s, key))'
  <2>1. pc'[t] = "idle"
    BY <1>1, <1>2
  <2> QED
    BY <2>1 DEF Doing
<1> QED
  BY <1>1, <1>2, <1>3, <1>4, <1>5, <1>7, <1>8, Resume

LEMMA ListStep == Inv /\ ListInv /\ [Next]_vars => ListInv'
<1> SUFFICES ASSUME Inv, ListInv, [Next]_vars PROVE ListInv'
  OBVIOUS
<1>1. ASSUME NEW t \in Threads, Step(t)
      PROVE  ListInv'
  BY <1>1, ListLock, ListFind, ListDel, ListMalloc, ListAdd, ListPrune, ListUnlock DEF Step
<1>2. ASSUME NEW t \in Threads, NEW f \in {"lookup", "add"}, NEW u \in Urls, Call(t, f, u)
      PROVE  ListInv'
  BY <1>2, ListCall
<1>3. CASE UNCHANGED vars
  <2>1. UNCHANGED <<head, tail, next, prev, chained, num_items, key, pc, op, url, entry, atLock>>
    BY <1>3 DEF vars, table, list
  <2>2. PICK s \in Seq(Nodes) : Sound(s)
    BY DEF ListInv
  <2>3. Linked(s)'
    BY <2>1, <2>2 DEF Sound, Linked, IsLine
  <2>4. Owned(s)'
    BY <2>1, <2>2 DEF Sound, Owned, Allocated, Loose
  <2>5. ASSUME NEW t \in Threads PROVE Doing(t, Keys(s, key))'
    <3>1. Doing(t, Keys(s, key))
      BY <2>2 DEF Sound
    <3>2. Keys(s, key)' = Keys(s, key)
      BY <2>1
    <3>3. Made(t, Keys(s, key)) => Made(t, Keys(s, key))'
      BY <2>1, <3>2 DEF Made
    <3> QED
      BY <2>1, <3>1, <3>2, <3>3 DEF Doing
  <2>6. TableTypes' /\ KeyTypes'
    BY <2>1 DEF ListInv, TableTypes, KeyTypes
  <2> QED
    BY <2>3, <2>4, <2>5, <2>6 DEF ListInv, Sound
<1> QED
  BY <1>1, <1>2, <1>3 DEF Next

LEMMA ListInit == Init => ListInv
<1> SUFFICES ASSUME Init PROVE ListInv
  OBVIOUS
<1>1. TableTypes /\ KeyTypes
  BY DEF Init, TableTypes, KeyTypes
<1>2. <<>> \in Seq(Nodes) /\ Elements(<<>>) = {} /\ Len(<<>>) = 0 /\ DOMAIN <<>> = {}
  BY DEF Elements
<1>3. Linked(<<>>)
  BY <1>2 DEF Init, Linked, IsLine
<1>4. Loose = {} /\ Allocated = {}
  BY DEF Init, Loose, Allocated
<1>5. Owned(<<>>)
  BY <1>2, <1>4 DEF Owned
<1>6. \A t \in Threads : Doing(t, Keys(<<>>, key))
  BY DEF Init, Doing
<1>7. Sound(<<>>)
  BY <1>3, <1>5, <1>6 DEF Sound
<1> QED
  BY <1>1, <1>2, <1>7 DEF ListInv

LEMMA ListAlways == Spec => []ListInv
BY InvAlways, ListInit, ListStep, PTL DEF Spec

-----------------------------------------------------------------------------
\* Every variable keeps its type; in particular the table never counts more
\* nodes than there are.
THEOREM Typed == Spec => []TypeOK
<1>1. Inv /\ ListInv => TypeOK
  <2> SUFFICES ASSUME Inv, ListInv PROVE TypeOK
    OBVIOUS
  <2>1. PICK s \in Seq(Nodes) : Sound(s)
    BY DEF ListInv
  <2>2. num_items = Len(s) /\ \A i, j \in DOMAIN s : s[i] = s[j] => i = j
    BY <2>1 DEF Sound, Linked, IsLine
  <2>3. Len(s) \in Nat /\ Len(s) <= Cardinality(Nodes) /\ Cardinality(Nodes) \in Nat
    BY <2>2, LineFits
  <2>4. num_items \in 0 .. Cardinality(Nodes)
    BY <2>2, <2>3
  <2> QED
    BY <2>4 DEF Inv, CallTypes, ListInv, TableTypes, KeyTypes, TypeOK
<1> QED
  BY InvAlways, ListAlways, <1>1, PTL

\* Whenever the mutex is free the list, followed either way, the chains, the
\* count and the entries malloc has given out agree, whatever was deleted,
\* added and pruned before.
THEOREM SoundBetweenCalls == Spec => []TableSound
<1>1. Inv /\ ListInv => TableSound
  <2> SUFFICES ASSUME Inv, ListInv, owner = Nobody
               PROVE  LET on == {Age[k] : k \in 1 .. Length}
                      IN  /\ on = chained /\ Cardinality(on) = Length /\ HashCount = Length
                          /\ Length > 0 => tail = Age[Length] /\ prev[head] = Null
                          /\ \A k \in 2 .. Length : prev[Age[k]] = Age[k - 1]
                          /\ {n \in Nodes : key[n] # Null} = chained
                          /\ \A m, n \in chained : key[m] = key[n] => m = n
    BY DEF TableSound
  <2> DEFINE on == {Age[k] : k \in 1 .. Length}
  <2>1. PICK s \in Seq(Nodes) : Linked(s) /\ Owned(s)
    BY DEF ListInv, Sound
  <2>2. IsLine(s, head, tail, next, prev) /\ chained = Elements(s) /\ num_items = Len(s)
    BY <2>1 DEF Linked
  <2>3. Length = Len(s) /\ \A k \in 1 .. Len(s) : Age[k] = s[k]
    BY <2>1, LineMet DEF LineIsMet
  <2>4. Len(s) \in Nat /\ DOMAIN s = 1 .. Len(s) /\ \A k \in 1 .. Len(s) : s[k] \in Nodes /\ s[k] # Null
    BY NullAssumption
  <2>5. on = Elements(s)
    BY <2>3, <2>4 DEF Elements
  <2>6. Cardinality(Elements(s)) = Len(s)
    BY <2>2, LineFits DEF IsLine
  <2>7. Loose = {}
    <3>1. \A t \in Threads : pc[t] # "add"
      BY NullAssumption DEF Inv, OnlyOwnerInside, Critical
    <3> QED
      BY <3>1 DEF Loose
  <2>8. Allocated = chained /\ \A m, n \in chained : key[m] = key[n] => m = n
    BY <2>1, <2>2, <2>7 DEF Owned
  <2>9. HashCount = Len(s)
    <3>1. CASE s = <<>>
      BY <2>2, <3>1 DEF IsLine, HashCount
    <3>2. CASE s # <<>>
      BY <2>2, <2>4, <3>2 DEF IsLine, HashCount
    <3> QED
      BY <3>1, <3>2
  <2>10. ASSUME Length > 0 PROVE tail = Age[Length] /\ prev[head] = Null
    <3>1. s # <<>> /\ Len(s) \in 1 .. Len(s) /\ 1 \in 1 .. Len(s)
      BY <2>3, <2>4, <2>10
    <3>2. tail = s[Len(s)] /\ head = s[1]
      BY <2>2, <3>1 DEF IsLine
    <3>3. prev[s[1]] = Null
      BY <2>2, <2>4, <3>1 DEF IsLine, Before
    <3> QED
      BY <2>3, <3>1, <3>2, <3>3
  <2>11. ASSUME NEW k \in 2 .. Length PROVE prev[Age[k]] = Age[k - 1]
    <3>1. k \in 1 .. Len(s) /\ k - 1 \in 1 .. Len(s) /\ k # 1
      BY <2>3, <2>4
    <3>2. prev[s[k]] = Before(s, k)
      BY <2>2, <2>4, <3>1 DEF IsLine
    <3> QED
      BY <2>3, <3>1, <3>2 DEF Before
  <2>12. {n \in Nodes : key[n] # Null} = chained
    BY <2>8 DEF Allocated
  <2> HIDE DEF on
  <2>13. on = chained /\ Cardinality(on) = Length /\ HashCount = Length
    BY <2>2, <2>3, <2>5, <2>6, <2>9
  <2> QED
    BY <2>8, <2>10, <2>11, <2>12, <2>13 DEF on
<1> QED
  BY InvAlways, ListAlways, <1>1, PTL

-----------------------------------------------------------------------------
(* The cache is an LruCache whose calls take effect when they return *)

LEMMA KnownInit == Init /\ ListInv => LRU!Init
<1> SUFFICES ASSUME Init PROVE UrlsByAge = <<>> /\ owner = Nobody /\ answer = NoAnswer
  BY DEF LRU!Init, LRU!NoAnswer, NoAnswer
<1>1. <<>> \in Seq(Nodes) /\ Elements(<<>>) = {} /\ Len(<<>>) = 0 /\ DOMAIN <<>> = {}
  BY DEF Elements
<1>2. Linked(<<>>)
  BY <1>1 DEF Init, Linked, IsLine
<1>3. UrlsByAge = Keys(<<>>, key)
  BY <1>1, <1>2, LineMet DEF LineIsMet
<1>4. UrlsByAge = <<>>
  BY <1>3 DEF Keys
<1> QED
  BY <1>4 DEF Init

\* The URLs in the table do not change but with it.
LEMMA SameUrls ==
    ASSUME UNCHANGED <<table, key>>
    PROVE  UrlsByAge' = UrlsByAge
BY DEF table, list, UrlsByAge, Length, Age

\* A call's effect shows when it unlocks; before, nobody has seen anything.
LEMMA KnownStep == Inv /\ ListInv /\ [Next]_vars => [LRU!Next]_(LRU!vars)
<1> SUFFICES ASSUME Inv, ListInv, [Next]_vars PROVE [LRU!Next]_(LRU!vars)
  OBVIOUS
<1>1. ASSUME NEW t \in Threads, NEW f \in {"lookup", "add"}, NEW u \in Urls, Call(t, f, u)
      PROVE  LRU!Begin
  <2>1. UNCHANGED <<table, key, owner, atLock>> /\ answer' = NoAnswer
    BY <1>1 DEF Call
  <2>2. UrlsByAge' = UrlsByAge
    BY <2>1, SameUrls
  <2> QED
    BY <2>1, <2>2 DEF LRU!Begin, LRU!NoAnswer, NoAnswer
<1>2. ASSUME NEW t \in Threads, Lock(t)
      PROVE  UNCHANGED LRU!vars
  <2>1. owner = Nobody /\ owner' # Nobody /\ atLock' = UrlsByAge /\ UNCHANGED answer
    BY <1>2, NullAssumption DEF Lock
  <2> QED
    BY <2>1 DEF LRU!vars
<1>3. ASSUME NEW t \in Threads, pc[t] \in Critical PROVE owner = t /\ owner # Nobody
  BY <1>3, NullAssumption DEF Inv, OnlyOwnerInside
<1>4. ASSUME NEW t \in Threads, Find(t) \/ Del(t) \/ Malloc(t) \/ Add(t) \/ Prune(t)
      PROVE  UNCHANGED LRU!vars
  <2>1. pc[t] \in Critical /\ UNCHANGED <<owner, atLock, answer>>
    BY <1>4 DEF Find, Del, Malloc, Add, Prune, Critical
  <2> QED
    BY <1>3, <2>1 DEF LRU!vars
<1>5. ASSUME NEW t \in Threads, Unlock(t)
      PROVE  LRU!Next
  <2>1. /\ pc[t] = "unlock" /\ owner' = Nobody /\ answer' = Answer(t)
        /\ UNCHANGED <<table, key>>
    BY <1>5 DEF Unlock
  <2>2. owner # Nobody /\ op[t] \in {"lookup", "add"} /\ url[t] \in Urls
    <3>1. pc[t] \in Critical /\ pc[t] # "idle"
      BY <2>1 DEF Critical
    <3> QED
      BY <1>3, <3>1 DEF ListInv, KeyTypes
  <2>3. PICK s \in Seq(Nodes) : Sound(s)
    BY DEF ListInv
  <2>4. UrlsByAge' = Keys(s, key)
    <3>1. UrlsByAge = Keys(s, key)
      BY <2>3, LineMet DEF LineIsMet, Sound
    <3> QED
      BY <2>1, <3>1, SameUrls
  <2>5. Made(t, UrlsByAge')
    BY <2>1, <2>3, <2>4 DEF Sound, Doing
  <2>6. CASE op[t] = "lookup" /\ entry[t] # Null
    <3>1. PICK i \in DOMAIN atLock : atLock[i] = url[t] /\ UrlsByAge' = Append(RemoveAt(atLock, i), url[t])
      BY <2>5, <2>6 DEF Made
    <3>2. answer' = [op |-> "lookup", url |-> url[t], found |-> TRUE]
      BY <2>1, <2>6 DEF Answer
    <3>3. LRU!LookupHit(url[t])
      BY <2>1, <2>2, <3>1, <3>2 DEF LRU!LookupHit, LRU!RemoveAt, RemoveAt
    <3> QED
      BY <2>2, <3>3 DEF LRU!Next
  <2>7. CASE op[t] = "lookup" /\ entry[t] = Null
    <3>1. url[t] \notin Elements(atLock) /\ UrlsByAge' = atLock
      BY <2>5, <2>7 DEF Made
    <3>2. answer' = [op |-> "lookup", url |-> url[t], found |-> FALSE]
      BY <2>1, <2>7 DEF Answer
    <3>3. LRU!LookupMiss(url[t])
      BY <2>1, <2>2, <3>1, <3>2 DEF LRU!LookupMiss, LRU!Held, Elements
    <3> QED
      BY <2>2, <3>3 DEF LRU!Next
  <2>8. CASE op[t] = "add"
    <3>1. answer' = [op |-> "add", url |-> url[t]]
      BY <2>1, <2>8 DEF Answer
    <3>2. CASE url[t] \in Elements(atLock)
      <4>1. UrlsByAge' = atLock
        BY <2>5, <2>8, <3>2 DEF Made
      <4>2. LRU!AddKnown(url[t])
        BY <2>1, <2>2, <3>1, <3>2, <4>1 DEF LRU!AddKnown, LRU!Held, Elements
      <4> QED
        BY <2>2, <4>2 DEF LRU!Next
    <3>3. CASE url[t] \notin Elements(atLock)
      <4>1. UrlsByAge' = Pruned(Append(atLock, url[t]))
        BY <2>5, <2>8, <3>3 DEF Made
      <4>2. LRU!AddNew(url[t])
        BY <2>1, <2>2, <3>1, <3>3, <4>1 DEF LRU!AddNew, LRU!Held, Elements, Pruned
      <4> QED
        BY <2>2, <4>2 DEF LRU!Next
    <3> QED
      BY <3>2, <3>3
  <2> QED
    BY <2>2, <2>6, <2>7, <2>8
<1>6. CASE UNCHANGED vars
  <2>1. UNCHANGED <<owner, atLock, answer, table, key>>
    BY <1>6 DEF vars
  <2>2. UrlsByAge' = UrlsByAge
    BY <2>1, SameUrls
  <2> QED
    BY <2>1, <2>2 DEF LRU!vars
<1>7. ASSUME NEW t \in Threads, Step(t)
      PROVE  [LRU!Next]_(LRU!vars)
  BY <1>2, <1>4, <1>5, <1>7 DEF Step
<1>8. ASSUME NEW t \in Threads, NEW f \in {"lookup", "add"}, NEW u \in Urls, Call(t, f, u)
      PROVE  [LRU!Next]_(LRU!vars)
  BY <1>1, <1>8 DEF LRU!Next
<1> QED
  BY <1>6, <1>7, <1>8 DEF Next

\* With any number of threads, every interleaving of lookups and insertions
\* answers as a cache does in which each call happens at once.
THEOREM IsAnLruCache == Spec => CacheRefinement
<1>1. Init => LRU!Init
  BY ListInit, KnownInit
<1>2. Spec => [][LRU!Next]_(LRU!vars)
  BY InvAlways, ListAlways, KnownStep, PTL DEF Spec
<1> QED
  BY <1>1, <1>2, PTL DEF CacheRefinement, LRU!Spec, Spec
=============================================================================
