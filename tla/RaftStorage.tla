---------------------------- MODULE RaftStorage ----------------------------
(***************************************************************************)
(* One node's log in memory (Node.log, Node.logBaseIndex) and its copy in  *)
(* FileStorage, driven by the calls the node makes on raft.Storage: the    *)
(* appends and truncations of appendLogLocked and truncateLogFromLocked,   *)
(* the SaveSnapshot and the later DiscardLogThrough of maybeSnapshot and   *)
(* of HandleInstallSnapshot, and crashes with NewNode's reload.            *)
(*                                                                         *)
(* Module Raft uses the same operators inside a cluster; here one node     *)
(* alone gets longer logs and every order of the calls.                    *)
(***************************************************************************)
EXTENDS Integers, Sequences, FiniteSetsExt

CONSTANTS
  Torn,       \* a frame that does not decode
  MaxIndex,   \* bound: the highest index ever appended
  MaxTerm,    \* bound: the terms of entries
  MaxBatch,   \* bound: entries per append
  MaxCrashes  \* bound: crashes in a behaviour

FS == INSTANCE FileStorage

VARIABLES
  log,           \* Node.log
  logBaseIndex,  \* Node.logBaseIndex
  fs,            \* the FileStorage
  saved,         \* the snapshot saved whose prefix is not discarded yet, 0 if none
  installing,    \* whether HandleInstallSnapshot saved it, and not maybeSnapshot
  crashes

vars == <<log, logBaseIndex, fs, saved, installing, crashes>>

Entry == [term : 1..MaxTerm, index : 1..MaxIndex]

lastIndex == logBaseIndex + Len(log)

Init ==
  /\ log = <<>>
  /\ logBaseIndex = 0
  /\ fs = FS!OpenFileStorage(<<>>, FS!NoSnapshot)
  /\ saved = 0
  /\ installing = FALSE
  /\ crashes = 0

\* Entries of one term for the indexes that follow.
Batch(n, term) == [k \in 1..n |-> [term |-> term, index |-> lastIndex + k]]

appendLogLocked(n, term) ==
  /\ lastIndex + n <= MaxIndex
  /\ log' = log \o Batch(n, term)
  /\ fs' = FS!AppendEntries(fs, Batch(n, term))
  /\ UNCHANGED <<logBaseIndex, saved, installing, crashes>>

\* Only entries that are not committed, hence not in a snapshot, conflict.
truncateLogFromLocked(index) ==
  /\ index > Max({logBaseIndex, saved}) /\ index <= lastIndex
  /\ log' = SubSeq(log, 1, index - logBaseIndex - 1)
  /\ fs' = FS!TruncateFrom(fs, index)
  /\ UNCHANGED <<logBaseIndex, saved, installing, crashes>>

\* The first half of maybeSnapshot, for a boundary the node has applied, or
\* of HandleInstallSnapshot, for any boundary ahead.
SaveSnapshot(index, install) ==
  /\ saved = 0
  /\ index > logBaseIndex
  /\ install \/ index <= lastIndex
  /\ installing' = install
  /\ fs' = FS!SaveSnapshot(fs, index, 1, <<>>)
  /\ saved' = index
  /\ UNCHANGED <<log, logBaseIndex, crashes>>

\* The second half of maybeSnapshot.
discardLogPrefixLocked ==
  /\ saved > 0 /\ ~installing
  /\ log' = SubSeq(log, saved - logBaseIndex + 1, Len(log))
  /\ logBaseIndex' = saved
  /\ fs' = FS!DiscardLogThrough(fs, saved)
  /\ saved' = 0
  /\ installing' = FALSE
  /\ UNCHANGED crashes

\* The second half of HandleInstallSnapshot: the whole log goes.
InstallFinish ==
  /\ saved > 0 /\ installing
  /\ log' = <<>>
  /\ logBaseIndex' = saved
  /\ fs' = FS!DiscardLogThrough(fs, saved)
  /\ saved' = 0
  /\ installing' = FALSE
  /\ UNCHANGED crashes

\* NewNode on what a crash left in the files.
NewNode(left) ==
  /\ crashes < MaxCrashes
  /\ crashes' = crashes + 1
  /\ fs' = FS!OpenFileStorage(left.file, left.snapshot)
  /\ log' = fs'.loaded
  /\ logBaseIndex' = left.snapshot.index
  /\ saved' = 0
  /\ installing' = FALSE

Crash == NewNode(fs)

\* The process dies when m of n frames are written, and maybe a part of the
\* next one.
CrashInAppend(n, m, term, torn) ==
  /\ lastIndex + n <= MaxIndex
  /\ m < n
  /\ NewNode(FS!AppendEntries(fs, SubSeq(Batch(n, term), 1, m) \o torn))

Next ==
  \/ \E n \in 1..MaxBatch, term \in 1..MaxTerm :
       \/ appendLogLocked(n, term)
       \/ \E m \in 0..MaxBatch, torn \in {<<>>, <<Torn>>} : CrashInAppend(n, m, term, torn)
  \/ \E index \in 1..MaxIndex :
       \/ truncateLogFromLocked(index)
       \/ \E install \in BOOLEAN : SaveSnapshot(index, install)
  \/ discardLogPrefixLocked
  \/ InstallFinish
  \/ Crash

Spec == Init /\ [][Next]_vars

-----------------------------------------------------------------------------
\* What LoadLog would return if the process were restarted now.
reloaded == FS!OpenFileStorage(fs.file, fs.snapshot).loaded

\* Every variable has the shape the code's types give it, and an offset never
\* points past the end of the file.
TypeOK ==
  /\ log \in Seq(Entry)
  /\ logBaseIndex \in 0..MaxIndex
  /\ fs.loaded \in Seq(Entry)
  /\ fs.file \in Seq(Entry)
  /\ fs.baseIndex \in 0..MaxIndex
  /\ Len(fs.offsets) = Len(fs.loaded)
  /\ \A p \in DOMAIN fs.offsets : fs.offsets[p] \in 0..(Len(fs.file) - 1)
  /\ fs.cursor \in 0..Len(fs.file)
  /\ saved \in 0..MaxIndex
  /\ installing \in BOOLEAN
  /\ crashes \in 0..MaxCrashes

\* A restart loses nothing and brings nothing back: the file holds the very
\* log the node has in memory.
RestartKeepsLog == reloaded = log

\* What a restart loads after a snapshot was saved starts right after the
\* snapshot, with no gap and no overlap: entry k has index
\* LastIncludedIndex + k, as Node and FileStorage both assume.
RestartIsIndexed ==
  crashes > 0 => \A k \in DOMAIN log : log[k].index = logBaseIndex + k

\* FileStorage keeps what raft.Storage promises: whatever the calls and the
\* crashes, the log a restart would load changes only as DurableLog lets it.
Contract == INSTANCE DurableLog WITH base <- logBaseIndex, entries <- reloaded
ImplementsDurableLog == Contract!Spec

=============================================================================
