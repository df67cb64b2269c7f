------------------------------ MODULE LruCache ------------------------------
(***************************************************************************)
(* What notfoundurls.c promises: a cache of the URLs the origin server     *)
(* answered 404 for, least recently used first, in which every call takes  *)
(* effect at once.  Any number of worker threads call it.                  *)
(***************************************************************************)
EXTENDS Naturals, Sequences, SequencesExt

CONSTANTS Urls,
          MAX_CACHE_SIZE       \* 60000 in notfoundurls.h

VARIABLES cache,               \* the URLs, least recently used first
          answer               \* the last call and what it returned

vars == <<cache, answer>>

NoAnswer == [op |-> "none"]

Held == {cache[i] : i \in DOMAIN cache}

Init == cache = <<>> /\ answer = NoAnswer

\* A call begins: it has not been answered.
Begin == answer' = NoAnswer /\ UNCHANGED cache

\* A hit is moved to the young end, so that it is pruned last.
LookupHit(u) ==
    /\ \E i \in DOMAIN cache :
          cache[i] = u /\ cache' = Append(RemoveAt(cache, i), u)
    /\ answer' = [op |-> "lookup", url |-> u, found |-> TRUE]

LookupMiss(u) ==
    /\ u \notin Held
    /\ answer' = [op |-> "lookup", url |-> u, found |-> FALSE]
    /\ UNCHANGED cache

\* Adding what is there already does not even make it younger.
AddKnown(u) ==
    /\ u \in Held
    /\ answer' = [op |-> "add", url |-> u]
    /\ UNCHANGED cache

\* The oldest one makes room before the cache reaches MAX_CACHE_SIZE.
AddNew(u) ==
    /\ u \notin Held
    /\ LET all == Append(cache, u)
       IN  cache' = IF Len(all) >= MAX_CACHE_SIZE THEN Tail(all) ELSE all
    /\ answer' = [op |-> "add", url |-> u]

Next == Begin \/ \E u \in Urls : LookupHit(u) \/ LookupMiss(u) \/ AddKnown(u) \/ AddNew(u)

Spec == Init /\ [][Next]_vars
=============================================================================
