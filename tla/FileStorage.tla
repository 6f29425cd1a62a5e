---------------------------- MODULE FileStorage ----------------------------
(***************************************************************************)
(* Raft's on-disk log and snapshot (internal/raft/filestorage.go), as      *)
(* operators on one record per node:                                       *)
(*                                                                         *)
(*   file      the frames of raft-log.bin, in file order                   *)
(*   cursor    the position of the open handle, counted in frames          *)
(*   offsets   offsets[p] is where the entry at position p was recorded    *)
(*   loaded    the in-memory copy of the entries                           *)
(*   baseIndex loaded[p] is meant to be the entry of index baseIndex + p   *)
(*   snapshot  the contents of raft-snapshot.bin (index 0: no such file)   *)
(*                                                                         *)
(* A frame counts as one unit of the file, so an offset is a number of     *)
(* frames.  Torn is a frame that does not decode: a write cut short by a   *)
(* crash, or the zeros that Truncate adds past the end of the file.        *)
(***************************************************************************)
EXTENDS Integers, Sequences, FiniteSetsExt

CONSTANT Torn

\* raft-snapshot.bin does not exist.
NoSnapshot == [index |-> 0, term |-> 0, data |-> <<>>]

\* Mutant: the last frame is taken for a torn one.
replayLogFileShort(file) == IF file = <<>> THEN file ELSE SubSeq(file, 1, Len(file) - 1)

\* The frames before the first one that does not decode.
replayLogFile(file) ==
  LET torn == {p \in 1..Len(file) : file[p] = Torn}
  IN  IF torn = {} THEN file ELSE SubSeq(file, 1, Min(torn) - 1)

\* Mutant: the torn tail stays in the file.
OpenFileStorageUncut(file, snapshot) ==
  LET entries == replayLogFile(file)
  IN  [file      |-> file,
       cursor    |-> Len(file),
       offsets   |-> [p \in 1..Len(entries) |-> p - 1],
       loaded    |-> entries,
       baseIndex |-> snapshot.index,
       snapshot  |-> snapshot]

\* The torn tail is cut off, the handle is left at the end of the file and
\* every frame that decodes is loaded, whatever the snapshot covers.
OpenFileStorage(file, snapshot) ==
  LET entries == replayLogFile(file)
  IN  [file      |-> entries,
       cursor    |-> Len(entries),
       offsets   |-> [p \in 1..Len(entries) |-> p - 1],
       loaded    |-> entries,
       baseIndex |-> snapshot.index,
       snapshot  |-> snapshot]

\* Each frame lands at the end of the file: the handle is there after an
\* open or a truncation, and is in append mode after DiscardLogThrough.  The
\* offset recorded for it is the cursor before the write.
AppendEntries(fs, entries) ==
  LET size == Len(fs.file)
  IN  [fs EXCEPT
        !.file    = @ \o entries,
        !.offsets = @ \o [k \in 1..Len(entries) |->
                            IF k = 1 THEN fs.cursor ELSE size + k - 1],
        !.loaded  = @ \o entries,
        !.cursor  = IF entries = <<>> THEN @ ELSE size + Len(entries)]

\* The position of index in loaded, 0 when it is compacted or not written.
position(fs, index) ==
  IF index <= fs.baseIndex \/ index - fs.baseIndex > Len(fs.loaded)
  THEN 0 ELSE index - fs.baseIndex

\* ftruncate: cuts the file, or extends it with zeros.
truncateFile(file, size) ==
  IF size <= Len(file) THEN SubSeq(file, 1, size)
  ELSE file \o [p \in 1..(size - Len(file)) |-> Torn]

\* Mutant: the frame of the entry itself stays in the file.
TruncateFromNext(fs, index) ==
  LET pos == position(fs, index)
      cut == fs.offsets[pos] + 1
  IN  IF pos = 0 THEN fs
      ELSE [fs EXCEPT !.file    = truncateFile(@, cut),
                      !.cursor  = cut,
                      !.offsets = SubSeq(@, 1, pos - 1),
                      !.loaded  = SubSeq(@, 1, pos - 1)]

TruncateFrom(fs, index) ==
  LET pos == position(fs, index)
      cut == fs.offsets[pos]
  IN  IF pos = 0 THEN fs
      ELSE [fs EXCEPT !.file    = truncateFile(@, cut),
                      !.cursor  = cut,
                      !.offsets = SubSeq(@, 1, pos - 1),
                      !.loaded  = SubSeq(@, 1, pos - 1)]

\* Mutant: the new file is written, the entries in memory stay.
DiscardLogThroughFileOnly(fs, index) ==
  LET drop == Min({index - fs.baseIndex, Len(fs.loaded)})
      keep == SubSeq(fs.loaded, drop + 1, Len(fs.loaded))
  IN  IF index <= fs.baseIndex THEN fs
      ELSE [fs EXCEPT !.file = keep, !.cursor = 0, !.baseIndex = index]

\* The file is replaced by one that holds the entries kept; the new handle
\* is opened in append mode with its cursor at 0.
DiscardLogThrough(fs, index) ==
  LET drop == Min({index - fs.baseIndex, Len(fs.loaded)})
      keep == SubSeq(fs.loaded, drop + 1, Len(fs.loaded))
  IN  IF index <= fs.baseIndex THEN fs
      ELSE [fs EXCEPT !.file      = keep,
                      !.cursor    = 0,
                      !.offsets   = [p \in 1..Len(keep) |-> p - 1],
                      !.loaded    = keep,
                      !.baseIndex = index]

SaveSnapshot(fs, index, term, data) ==
  [fs EXCEPT !.snapshot = [index |-> index, term |-> term, data |-> data]]

=============================================================================
