------------------------------ MODULE LruCache ------------------------------
(***************************************************************************)
(* cache::LruCache (src/server/cache/lru_cache.hpp) as operators on its    *)
(* list entries_, most recently used first: a sequence of [key, value]     *)
(* records.  index_ maps each key to its node of the list, so the two hold *)
(* the same keys exactly when no key occurs twice in the list.             *)
(***************************************************************************)
EXTENDS Naturals, Sequences

HasKey(entries, key) == \E i \in DOMAIN entries : entries[i].key = key

\* The node index_ holds for a key that is present.
Node(entries, key) == CHOOSE i \in DOMAIN entries : entries[i].key = key

Cached(entries, key) == entries[Node(entries, key)]

\* entries_.splice(begin, ...): the node moves to the front, here with its new contents.
MoveToFront(entries, node, entry) ==
  [i \in DOMAIN entries |->
     IF i = 1 THEN entry ELSE IF i <= node THEN entries[i - 1] ELSE entries[i]]

\* Get on a hit: the value is Cached(entries, key).value.
CacheGet(entries, key) == MoveToFront(entries, Node(entries, key), Cached(entries, key))

\* emplace_front; pop_back when there are too many.
PushFront(entries, entry, capacity) ==
  [i \in 1..(IF Len(entries) + 1 > capacity THEN Len(entries) ELSE Len(entries) + 1) |->
     IF i = 1 THEN entry ELSE entries[i - 1]]

\* Mutant of CachePut: a key that is present is added again.
CachePutTwice(entries, key, value, capacity) ==
  IF capacity = 0 THEN entries
  ELSE PushFront(entries, [key |-> key, value |-> value], capacity)

\* Put: a capacity of 0 disables the cache, a key that is present is updated, and
\* the last node goes when there are too many.
CachePut(entries, key, value, capacity) ==
  IF capacity = 0 THEN entries
  ELSE IF HasKey(entries, key)
  THEN MoveToFront(entries, Node(entries, key), [key |-> key, value |-> value])
  ELSE PushFront(entries, [key |-> key, value |-> value], capacity)
=============================================================================
