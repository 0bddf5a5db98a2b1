------------------------------- MODULE LruCache -------------------------------
(***************************************************************************)
(* lru::LruCache (external), as the caches of core/utils use it: a         *)
(* sequence of entries [key, value], least recently used first.            *)
(***************************************************************************)
EXTENDS Integers, SequencesExt

Entries(cache, key) == {i \in DOMAIN cache : cache[i].key = key}

\* A key has one entry at most.
Without(cache, key) ==
    IF Entries(cache, key) = {} THEN cache
    ELSE RemoveAt(cache, CHOOSE i \in Entries(cache, key) : TRUE)

\* get, get_mut and put all make the entry the most recently used one.
UseEntry(cache, key, value) ==
    Append(Without(cache, key), [key |-> key, value |-> value])

\* put drops the least recently used entry of a full cache without the key.
PutEntry(cache, capacity, key, value) ==
    LET used == UseEntry(cache, key, value) IN
    IF Entries(cache, key) = {} /\ Len(cache) = capacity
    THEN Tail(used) ELSE used
=============================================================================
