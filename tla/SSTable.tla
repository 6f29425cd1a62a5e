------------------------------ MODULE SSTable ------------------------------
(***************************************************************************)
(* The storage engine's immutable tables (internal/storage/sstable): a     *)
(* data block of encoded entries in key order, an index from key to the    *)
(* offset of its entry, and a footer with the number of entries.           *)
(***************************************************************************)
EXTENDS Naturals, Sequences

CONSTANT NotFound

\* The fields by position.
encodeEntry(e) == <<e.Key, e.Tombstone, e.ExpiresAtUnixNano, e.Version, e.Value>>

decodeEntry(b) ==
  [Key |-> b[1], Tombstone |-> b[2], ExpiresAtUnixNano |-> b[3], Version |-> b[4],
   Value |-> b[5]]

\* The table of entries that are in key order.
WriteSorted(entries) ==
  [data  |-> [i \in 1..Len(entries) |-> encodeEntry(entries[i])],
   index |-> [k \in {entries[i].Key : i \in 1..Len(entries)} |->
                CHOOSE i \in 1..Len(entries) : entries[i].Key = k],
   count |-> Len(entries)]

\* Table.Get: one look in the index, one read of the data block.
TableGet(t, key) ==
  IF key \in DOMAIN t.index THEN decodeEntry(t.data[t.index[key]]) ELSE NotFound

\* Table.Iterate: the data block from front to back.
Iterate(t) == [i \in 1..t.count |-> decodeEntry(t.data[i])]

=============================================================================
