----------------------------- MODULE DurableLog -----------------------------
(***************************************************************************)
(* What raft.Storage promises of the persisted log (interfaces.go): the    *)
(* entries appended, less those truncated from the end and those discarded *)
(* from the front, in order.  base is the index before the first of them.  *)
(* A restart changes nothing; a crash in the middle of an append leaves a  *)
(* prefix of what was being appended, which is an append too.              *)
(***************************************************************************)
EXTENDS Integers, Sequences

CONSTANT Entry

VARIABLES base, entries

Init == base = 0 /\ entries = <<>>

last == base + Len(entries)

AppendEntries ==
  /\ \E k \in 1..Len(entries') :
       /\ entries = SubSeq(entries', 1, Len(entries') - k)
       /\ \A n \in 1..Len(entries') : entries'[n] \in Entry
       /\ \A n \in Len(entries) + 1..Len(entries') : entries'[n].index = base + n
  /\ UNCHANGED base

TruncateFrom ==
  /\ \E index \in base + 1..last : entries' = SubSeq(entries, 1, index - base - 1)
  /\ UNCHANGED base

\* Also what installing a snapshot does to the log, with nothing left of it.
DiscardLogThrough ==
  /\ base' > base
  /\ entries' = SubSeq(entries, base' - base + 1, Len(entries))

Next == AppendEntries \/ TruncateFrom \/ DiscardLogThrough

Spec == Init /\ [][Next]_<<base, entries>>

=============================================================================
