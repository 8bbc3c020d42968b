----------------------------- MODULE MemoryCache -----------------------------
(***************************************************************************)
(* memory_cache: a least-recently-used cache bounded in entries and in     *)
(* weight.  A cache is a record: `list' is lru_list_, its most recently    *)
(* used node first; `map' is the key set of map_, whose iterator for a key *)
(* leads to the node with that key; `total' is total_weight_.              *)
(***************************************************************************)
EXTENDS Integers, FiniteSets, Sequences

EmptyCache == [list |-> <<>>, map |-> {}, total |-> 0]

KeysOf(list) == {list[i].key : i \in DOMAIN list}

\* The iterator that map_ holds for a key: the place of its node in the list.
PlaceOf(list, key) == CHOOSE i \in DOMAIN list : list[i].key = key

\* lru_list_.splice(lru_list_.begin(), lru_list_, it): what is at place i goes to
\* the front, as e.
Splice(list, i, e) == <<e>> \o (SubSeq(list, 1, i - 1) \o SubSeq(list, i + 1, Len(list)))

\* Mutant: a hit does not count as a use.
TouchNothing(cache, key) == cache

\* with_value and get, of a key in map_.
Touch(cache, key) ==
  LET i == PlaceOf(cache.list, key)
  IN  [list  |-> Splice(cache.list, i, cache.list[i]),
       map   |-> cache.map,
       total |-> cache.total]

Exceeds(cache, limits) ==
  /\ cache.list # <<>>
  /\ \/ Cardinality(cache.map) > limits.entries
     \/ cache.total > limits.bytes

\* The body of the loop of evict_if_needed.
DropLast(cache) ==
  LET last == Len(cache.list)
  IN  [list  |-> SubSeq(cache.list, 1, last - 1),
       map   |-> cache.map \ {cache.list[last].key},
       total |-> cache.total - cache.list[last].weight]

Turn(cache, limits) == IF Exceeds(cache, limits) THEN DropLast(cache) ELSE cache

\* Mutant: one node is dropped at most.
EvictOnce(cache, limits) == Turn(cache, limits)

\* The loop ends after as many turns as there are nodes.
Evict(cache, limits) ==
  LET turn[n \in 0..Len(cache.list)] ==
        IF n = 0 THEN cache ELSE Turn(turn[n - 1], limits)
  IN  turn[Len(cache.list)]

\* do_put before evict_if_needed: the old weight of a known key is taken off
\* before the new one is added.
Insert(cache, node) ==
  LET i == PlaceOf(cache.list, node.key)
  IN  IF node.key \in cache.map
      THEN [list  |-> Splice(cache.list, i, node),
            map   |-> cache.map,
            total |-> cache.total - cache.list[i].weight + node.weight]
      ELSE [list  |-> <<node>> \o cache.list,
            map   |-> cache.map \cup {node.key},
            total |-> cache.total + node.weight]

Disabled(limits) == limits.entries = 0 \/ limits.bytes = 0

Put(cache, limits, node) ==
  IF Disabled(limits) THEN cache ELSE Evict(Insert(cache, node), limits)

-----------------------------------------------------------------------------
\* The sum of the weights of a list.
WeightOf(list) ==
  LET sum[n \in 0..Len(list)] ==
        IF n = 0 THEN 0 ELSE sum[n - 1] + list[n].weight
  IN  sum[Len(list)]

\* The list, the map and the weight agree.
Sound(cache) ==
  /\ \A i, j \in DOMAIN cache.list : cache.list[i].key = cache.list[j].key => i = j
  /\ cache.map = KeysOf(cache.list)
  /\ cache.total = WeightOf(cache.list)
=============================================================================
