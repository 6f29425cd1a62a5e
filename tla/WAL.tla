-------------------------------- MODULE WAL --------------------------------
(***************************************************************************)
(* The storage engine's write-ahead log file (internal/storage/wal).  The  *)
(* file is a sequence of cells; a record's frame takes three of them, its  *)
(* length prefix, its payload and its checksum.  A write cut short leaves  *)
(* the first cells of a frame (a cell that is itself cut reads like one    *)
(* that is missing: what follows it does not match its checksum).          *)
(***************************************************************************)
EXTENDS Naturals, Sequences
LOCAL INSTANCE SequencesExt
LOCAL INSTANCE FiniteSetsExt

OpSet == 1
OpDelete == 2

\* The payload holds the record's fields by position.
encode(r) ==
  LET payload == <<r.Seq, r.Op, r.ExpiresAtUnixNano, r.Key, r.Value>>
  IN  << <<"length", payload>>, <<"payload", payload>>, <<"crc", payload>> >>

decodePayload(p) ==
  [Seq |-> p[1], Op |-> p[2], ExpiresAtUnixNano |-> p[3], Key |-> p[4], Value |-> p[5]]

\* Whether the n-th frame of the file is complete and matches its checksum,
\* given that the ones before it do.
decodes(file, n) ==
  /\ 3 * n <= Len(file)
  /\ file[3 * n - 2][1] = "length"
  /\ file[3 * n - 1][1] = "payload"
  /\ file[3 * n] = <<"crc", file[3 * n - 1][2]>>

\* Replay stops at the first frame that does not decode.
ReadAll(file) ==
  LET good == {n \in 0..Len(file) : \A k \in 1..n : decodes(file, k)}
  IN  [k \in 1..Max(good) |-> decodePayload(file[3 * k - 1][2])]

\* The cells AppendBatch writes for a batch, before its one fsync.
frames(records) == FlattenSeq([k \in 1..Len(records) |-> encode(records[k])])

\* Bytes that replay does not get past, and so neither past what is appended
\* behind them.
Torn(file) == 3 * Len(ReadAll(file)) < Len(file)

=============================================================================
