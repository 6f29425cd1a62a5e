----------------------------- MODULE LSMEngine -----------------------------
(***************************************************************************)
(* The durable storage engine (internal/storage/lsm): callers of Put and   *)
(* Delete queue their records, one background goroutine (opLoop) writes    *)
(* them to the log with one fsync per batch, applies them to the memtable, *)
(* flushes it to a table and merges the tables, and Open recovers from     *)
(* what a crash left.                                                      *)
(*                                                                         *)
(* A value stands for a value with its consistency; it is the number of    *)
(* the call that wrote it, so that no two Puts write the same.  Sizes      *)
(* count entries: entrySize is 1.  A TTL is shorter than a tick of the     *)
(* clock, and given only while there is a tick to come.                    *)
(***************************************************************************)
EXTENDS Integers, Sequences, FiniteSets, TLC, WAL, SSTable
LOCAL INSTANCE SequencesExt
LOCAL INSTANCE FiniteSetsExt

CONSTANTS
  Key,                 \* a set of naturals: tables are sorted by key
  Client,              \* the goroutines that call Put and Delete
  None,
  MemtableFlushThreshold,
  CompactionThreshold,
  OpChCap,             \* the buffer of opCh
  MaxCalls,            \* bound: writes in a behaviour
  MaxCrashes,          \* bound: crashes in a behaviour
  MaxFaults,           \* bound: disk operations that fail
  MaxNow               \* bound: ticks of the clock

VARIABLES
  wal, synced,         \* the log file's cells, and how many of them are on disk
  files,               \* files[n]: the table in the n-th table file
  memtable, sstables, sstableSeq, nextSeq, opCh,
  mu,                  \* who holds the write lock: a client, "opLoop" or None
  pc, batch,           \* where opLoop is, and the operations it is at
  old,                 \* tables merged by the compaction, yet to be removed
  result,              \* what opLoop is about to answer the batch
  op,                  \* op[c]: the operation client c waits for, or None
  doubt,               \* history: writes answered with an error, see KVStore
  now, calls, crashes, faults

disk   == <<wal, synced, files>>
tables == <<sstables, sstableSeq>>
loop   == <<pc, batch, old, result>>
bounds == <<calls, crashes, faults>>
vars   == <<disk, memtable, tables, nextSeq, opCh, mu, loop, op, doubt, now, bounds>>

-----------------------------------------------------------------------------
Expired(e) == e.ExpiresAt # 0 /\ now > e.ExpiresAt

\* What Get makes of an entry it found.
checkedEntry(e) == IF e.Tombstone \/ Expired(e) THEN NotFound ELSE e

toStorageEntry(e) ==
  [Value |-> e.Value, ExpiresAt |-> e.ExpiresAtUnixNano, Tombstone |-> e.Tombstone,
   Version |-> e.Version]

toSSTableEntry(k, e) ==
  [Key |-> k, Value |-> e.Value, ExpiresAtUnixNano |-> e.ExpiresAt,
   Tombstone |-> e.Tombstone, Version |-> e.Version]

\* A set of numbers in ascending order, and a map's values in key order.
ascending(S) == [i \in 1..Cardinality(S) |-> CHOOSE n \in S : Cardinality({m \in S : m <= n}) = i]
sorted(m) == [i \in 1..Cardinality(DOMAIN m) |-> m[ascending(DOMAIN m)[i]]]

\* What the record's operation puts into the memtable.
entryOf(rec) ==
  [Value |-> rec.Value, ExpiresAt |-> rec.ExpiresAtUnixNano,
   Tombstone |-> rec.Op = OpDelete, Version |-> rec.Seq]

applyToMemtable(m, key, entry) == (key :> entry) @@ m

applyRecordToMemtable(m, rec) == applyToMemtable(m, rec.Key, entryOf(rec))

\* Mutant: the oldest table is asked first.
lookupOldestFirst(m, ts, key) ==
  LET holding == {i \in 1..Len(ts) : key \in DOMAIN files[ts[i]].index}
  IN  IF key \in DOMAIN m THEN checkedEntry(m[key])
      ELSE IF holding = {} THEN NotFound
      ELSE checkedEntry(toStorageEntry(TableGet(files[ts[Min(holding)]], key)))

\* The memtable m first, then the tables ts from the newest to the oldest.
lookup(m, ts, key) ==
  LET holding == {i \in 1..Len(ts) : key \in DOMAIN files[ts[i]].index}
  IN  IF key \in DOMAIN m THEN checkedEntry(m[key])
      ELSE IF holding = {} THEN NotFound
      ELSE checkedEntry(toStorageEntry(TableGet(files[ts[Max(holding)]], key)))

Get(key) == lookup(memtable, sstables, key)

\* All entries of the tables ts by key, those of newer tables over older.
merged(ts) ==
  FoldLeft(LAMBDA m, e : applyToMemtable(m, e.Key, e), <<>>,
           FlattenSeq([i \in 1..Len(ts) |-> Iterate(files[ts[i]])]))

\* Mutant: the tables' entries go over the memtable's.
ScanTablesLast ==
  LET m == merged(sstables)
      all == [k \in DOMAIN m \cup DOMAIN memtable |->
                IF k \in DOMAIN m THEN toStorageEntry(m[k]) ELSE memtable[k]]
  IN  [k \in {d \in DOMAIN all : checkedEntry(all[d]) # NotFound} |-> all[k]]

\* Every table, then the memtable over them; what is left of it is alive.
Scan ==
  LET m == merged(sstables)
      all == [k \in DOMAIN m \cup DOMAIN memtable |->
                IF k \in DOMAIN memtable THEN memtable[k] ELSE toStorageEntry(m[k])]
  IN  [k \in {d \in DOMAIN all : checkedEntry(all[d]) # NotFound} |-> all[k]]

-----------------------------------------------------------------------------
\* loadSSTables: every table file there is, by number, merged ones included;
\* temporary files are removed first.
loadSSTables(fs) == ascending(DOMAIN fs)

\* The memtable replayed from a log file.
replayed(file) == FoldLeft(applyRecordToMemtable, <<>>, ReadAll(file))

\* Mutant: the sequence continues from the tables alone.
maxVersionOfTables(file, fs) ==
  Max({0} \cup UNION {{e.Version : e \in {Iterate(fs[n])[i] : i \in 1..fs[n].count}} :
                        n \in DOMAIN fs})

maxVersion(file, fs) ==
  Max({0} \cup {ReadAll(file)[i].Seq : i \in 1..Len(ReadAll(file))}
          \cup UNION {{Iterate(fs[n])[i].Version : i \in 1..fs[n].count} : n \in DOMAIN fs})

\* Open on a directory with the log file and the table files it holds.
Open(file) ==
  /\ wal' = file
  /\ synced' = Len(file)
  /\ memtable' = replayed(file)
  /\ sstables' = loadSSTables(files)
  /\ sstableSeq' = Max({0} \cup DOMAIN files)
  /\ nextSeq' = maxVersion(file, files) + 1
  /\ opCh' = <<>>
  /\ mu' = None
  /\ pc' = "select" /\ batch' = <<>> /\ old' = <<>> /\ result' = "ok"
  /\ op' = [c \in Client |-> None]
  /\ doubt' = {}
  /\ UNCHANGED <<files, now>>

Init ==
  /\ wal = <<>> /\ synced = 0 /\ files = <<>>
  /\ memtable = <<>> /\ sstables = <<>> /\ sstableSeq = 0 /\ nextSeq = 1
  /\ opCh = <<>> /\ mu = None
  /\ pc = "select" /\ batch = <<>> /\ old = <<>> /\ result = "ok"
  /\ op = [c \in Client |-> None]
  /\ doubt = {}
  /\ now = 1 /\ calls = 0 /\ crashes = 0 /\ faults = 0

-----------------------------------------------------------------------------
\* With the lock taken, a sequence number is assigned and the record goes to
\* opCh; when it is full the caller waits there, and keeps the lock.
enqueue(c, rec) ==
  /\ mu = None /\ op[c] = None /\ calls < MaxCalls
  /\ op' = [op EXCEPT ![c] = rec]
  /\ nextSeq' = nextSeq + 1
  /\ calls' = calls + 1
  /\ \/ /\ Len(opCh) < OpChCap
        /\ opCh' = Append(opCh, [from |-> c, rec |-> rec])
        /\ mu' = None
     \/ /\ Len(opCh) = OpChCap
        /\ mu' = c
        /\ UNCHANGED opCh
  /\ UNCHANGED <<disk, memtable, tables, loop, doubt, now, crashes, faults>>

Put(c, key, ttl) ==
  enqueue(c, [Seq |-> nextSeq, Op |-> OpSet, Key |-> key, Value |-> calls + 1,
              ExpiresAtUnixNano |-> IF ttl THEN now ELSE 0])

Delete(c, key) ==
  /\ Get(key) # NotFound
  /\ enqueue(c, [Seq |-> nextSeq, Op |-> OpDelete, Key |-> key, Value |-> None,
                 ExpiresAtUnixNano |-> 0])

\* The send a caller was blocked in.
canSend(c) == mu = c /\ Len(opCh) < OpChCap
Send(c) ==
  /\ canSend(c)
  /\ opCh' = Append(opCh, [from |-> c, rec |-> op[c]])
  /\ mu' = None
  /\ UNCHANGED <<disk, memtable, tables, nextSeq, loop, op, doubt, now, bounds>>

-----------------------------------------------------------------------------

\* opLoop takes what is queued, until it finds the queue empty.
canReceive == pc = "select" /\ opCh # <<>>
Receive ==
  /\ canReceive
  /\ batch' = Append(batch, Head(opCh))
  /\ opCh' = Tail(opCh)
  /\ UNCHANGED <<disk, memtable, tables, nextSeq, mu, pc, old, result, op, doubt, now, bounds>>

\* A disk operation that fails, and how opLoop goes on.
fault(next) ==
  /\ faults < MaxFaults
  /\ faults' = faults + 1
  /\ pc' = next
  /\ UNCHANGED <<calls, crashes>>
proceed(next) == pc' = next /\ UNCHANGED bounds

batchFrames == frames([i \in 1..Len(batch) |-> batch[i].rec])

\* The writes of AppendBatch; one of them may fail, in the middle of a frame
\* too, and the rest is left out then.
AppendBatch ==
  /\ pc = "select" /\ batch # <<>> /\ opCh = <<>>
  /\ \/ /\ wal' = wal \o batchFrames
        /\ proceed("sync")
        /\ UNCHANGED result
     \/ /\ \E n \in 0..Len(batchFrames) - 1 : wal' = wal \o SubSeq(batchFrames, 1, n)
        /\ fault("answer")
        /\ result' = "failed"
  /\ UNCHANGED <<synced, files, memtable, tables, nextSeq, opCh, mu, batch, old, op, doubt, now>>

\* Mutant: the records are applied before they are on disk.
SyncLast ==
  /\ pc = "sync"
  /\ proceed("apply")
  /\ UNCHANGED <<disk, memtable, tables, nextSeq, opCh, mu, batch, old, result, op, doubt, now>>

\* Its fsync.
Sync ==
  /\ pc = "sync"
  /\ \/ synced' = Len(wal) /\ proceed("apply") /\ UNCHANGED result
     \/ fault("answer") /\ result' = "failed" /\ UNCHANGED synced
  /\ UNCHANGED <<wal, files, memtable, tables, nextSeq, opCh, mu, batch, old, op, doubt, now>>

\* With the lock taken, every mutation of the batch in order; the lock is
\* kept for a flush.
canApply == pc = "apply" /\ mu = None
Apply ==
  /\ canApply
  /\ memtable' = FoldLeft(LAMBDA m, o : applyToMemtable(m, o.rec.Key, entryOf(o.rec)),
                          memtable, batch)
  /\ doubt' = {w \in doubt : \A i \in 1..Len(batch) : w.key # batch[i].rec.Key}
  /\ IF Cardinality(DOMAIN memtable') >= MemtableFlushThreshold
     THEN proceed("flush") /\ mu' = "opLoop"
     ELSE proceed("answer") /\ UNCHANGED mu
  /\ UNCHANGED <<disk, tables, nextSeq, opCh, batch, old, result, op, now>>

\* writeAndOpenSSTable: the number is used up in any case; a failure comes
\* before the rename, or after it, when the file is there already.
writeAndOpenSSTable(entries, next) ==
  /\ sstableSeq' = sstableSeq + 1
  /\ LET finalized == (sstableSeq' :> WriteSorted(entries)) @@ files
     IN  \/ files' = finalized /\ proceed(next) /\ UNCHANGED <<result, mu>>
         \/ /\ files' \in {files, finalized}
            /\ fault("answer")
            /\ result' = "flush failed" /\ mu' = None
  /\ UNCHANGED <<wal, synced, nextSeq, memtable, opCh, batch, op, doubt, now>>

\* flushLocked, up to the table.
Flush ==
  /\ pc = "flush"
  /\ writeAndOpenSSTable(sorted([k \in DOMAIN memtable |-> toSSTableEntry(k, memtable[k])]),
                         "reset")
  /\ UNCHANGED <<sstables, old>>

\* flushLocked from the WAL's reset on.
ResetWAL ==
  /\ pc = "reset"
  /\ \/ /\ wal' = <<>> /\ synced' = 0
        /\ sstables' = Append(sstables, sstableSeq)
        /\ memtable' = <<>>
        /\ IF Len(sstables') > CompactionThreshold
           THEN proceed("compact") /\ UNCHANGED mu
           ELSE proceed("answer") /\ mu' = None
        /\ UNCHANGED result
     \/ /\ fault("answer")
        /\ \/ wal' = <<>> /\ synced' = 0
           \/ UNCHANGED <<wal, synced>>
        /\ result' = "flush failed" /\ mu' = None
        /\ UNCHANGED <<sstables, memtable>>
  /\ UNCHANGED <<files, sstableSeq, nextSeq, opCh, batch, old, op, doubt, now>>

\* compactLocked, up to the new table in place of the old ones.
Compact ==
  /\ pc = "compact"
  /\ LET m == merged(sstables)
         kept == {k \in DOMAIN m : checkedEntry(toStorageEntry(m[k])) # NotFound}
     IN  writeAndOpenSSTable(sorted([k \in kept |-> m[k]]), "remove")
  /\ IF pc' = "remove"
     THEN sstables' = <<sstableSeq'>> /\ old' = sstables
     ELSE UNCHANGED <<sstables, old>>

\* Its cleanup, the oldest file first; an error of os.Remove is ignored.
RemoveOld ==
  /\ pc = "remove"
  /\ \/ /\ files' = [n \in DOMAIN files \ {Head(old)} |-> files[n]]
        /\ UNCHANGED faults
     \/ /\ faults < MaxFaults /\ faults' = faults + 1
        /\ UNCHANGED files
  /\ old' = Tail(old)
  /\ IF old' = <<>> THEN pc' = "answer" /\ mu' = None ELSE UNCHANGED <<pc, mu>>
  /\ UNCHANGED <<wal, synced, memtable, tables, nextSeq, opCh, batch, result, op, doubt, now,
                 calls, crashes>>

\* The result goes to every caller of the batch.
Answer ==
  /\ pc = "answer"
  /\ op' = [c \in Client |-> IF \E i \in 1..Len(batch) : batch[i].from = c THEN None ELSE op[c]]
  /\ doubt' = IF result = "failed"
              THEN doubt \cup {[key |-> batch[i].rec.Key, rec |-> batch[i].rec] :
                                 i \in 1..Len(batch)}
              ELSE doubt
  /\ pc' = "select" /\ batch' = <<>> /\ result' = "ok"
  /\ UNCHANGED <<disk, memtable, tables, nextSeq, opCh, mu, old, now, bounds>>

-----------------------------------------------------------------------------
\* Close, between two batches: what is queued is left unanswered.
Close ==
  /\ pc = "select" /\ batch = <<>> /\ mu = None
  /\ crashes < MaxCrashes /\ crashes' = crashes + 1
  /\ Open(wal)
  /\ UNCHANGED <<calls, faults>>

\* A crash anywhere: of what was not synced, any first part is on disk.
Crash ==
  /\ crashes < MaxCrashes /\ crashes' = crashes + 1
  /\ \E n \in synced..Len(wal) : Open(SubSeq(wal, 1, n))
  /\ UNCHANGED <<calls, faults>>

Tick ==
  /\ now < MaxNow /\ now' = now + 1
  /\ UNCHANGED <<disk, memtable, tables, nextSeq, opCh, mu, loop, op, doubt, bounds>>

opLoop ==
  Receive \/ AppendBatch \/ Sync \/ Apply \/ Flush \/ ResetWAL \/ Compact \/ RemoveOld \/ Answer

Next ==
  \/ \E c \in Client :
       \/ \E key \in Key :
            \/ \E ttl \in {FALSE, now < MaxNow} : Put(c, key, ttl)
            \/ Delete(c, key)
       \/ Send(c)
  \/ opLoop
  \/ Close
  \/ Crash
  \/ Tick

Spec == Init /\ [][Next]_vars

-----------------------------------------------------------------------------
\* Scan and Get are two ways through the tables (oldest to newest, merging;
\* newest to oldest, stopping at the first hit): they find the same.
ScanAgreesWithGet ==
  \A k \in Key : Get(k) = IF k \in DOMAIN Scan THEN Scan[k] ELSE NotFound

\* The copies of a key, in the memtable and in whatever files there are.
versionsOf(k) ==
  {memtable[d].Version : d \in {k} \cap DOMAIN memtable} \cup
  {TableGet(files[n], k).Version :
     n \in {m \in DOMAIN files : TableGet(files[m], k) # NotFound}}

\* "Newer wins" is the same as "the higher version wins": what Get finds is the
\* copy with the highest version there is in memory or in a file, though
\* versions restart from what recovery finds and compaction drops tombstones.
HighestVersionWins ==
  \A k \in Key : Get(k) # NotFound => Get(k).Version = Max(versionsOf(k))

\* opLoop writes the log in sequence order, so that replay needs no
\* comparison of sequence numbers: the last record of a key is its newest.
LogIsInSequence ==
  LET recs == ReadAll(wal)
  IN  \A i, j \in 1..Len(recs) : i < j => recs[i].Seq < recs[j].Seq

\* The engine as a KVStore: the map is what Get finds, and a write has taken
\* effect once opLoop has applied its batch.
applied(c) ==
  /\ \E i \in 1..Len(batch) : batch[i].from = c
  /\ \/ pc \in {"flush", "reset", "compact", "remove"}
     \/ pc = "answer" /\ result # "failed"
stored(e) == IF e = NotFound THEN e ELSE [Value |-> e.Value, ExpiresAt |-> e.ExpiresAt]
written(rec) == IF rec.Op = OpDelete THEN NotFound ELSE stored(entryOf(rec))
openCalls ==
  [c \in Client |->
     IF op[c] = None THEN [st |-> "idle"]
     ELSE [st  |-> IF applied(c) THEN "done" ELSE "running",
           key |-> op[c].Key, new |-> written(op[c])]]


=============================================================================
