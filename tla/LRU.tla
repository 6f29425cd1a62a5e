-------------------------------- MODULE LRU --------------------------------
(***************************************************************************)
(* The gateway's cache (internal/cache): a map from keys to values and the *)
(* list of its keys, the most recently used first.  The hit, miss and      *)
(* eviction counters are left out.                                         *)
(***************************************************************************)
EXTENDS Naturals, Sequences, TLC
LOCAL INSTANCE SequencesExt

CONSTANT CacheCapacity

NewLRU == [items |-> <<>>, order |-> <<>>]

moveToFront(order, key) == <<key>> \o SelectSeq(order, LAMBDA k : k # key)

\* The cache after a Get; the value, if there is one, is c.items[key].
Get(c, key) ==
  IF key \in DOMAIN c.items THEN [c EXCEPT !.order = moveToFront(@, key)] ELSE c

removed(c, key) ==
  [items |-> [k \in DOMAIN c.items \ {key} |-> c.items[k]],
   order |-> SelectSeq(c.order, LAMBDA k : k # key)]

\* Set: the least recently used entry makes room.
Set(c, key, value) ==
  LET grown == [items |-> (key :> value) @@ c.items, order |-> moveToFront(c.order, key)]
  IN  IF CacheCapacity = 0 THEN c
      ELSE IF Len(grown.order) > CacheCapacity THEN removed(grown, Last(grown.order))
      ELSE grown

Delete(c, key) == IF key \in DOMAIN c.items THEN removed(c, key) ELSE c

=============================================================================
