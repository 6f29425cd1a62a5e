---------------------------- MODULE MCLSMEngine ----------------------------
(***************************************************************************)
(* LSMEngine for TLC, with the state of the KVStore it implements kept in  *)
(* variables of their own, so that TLC computes it once per state.         *)
(***************************************************************************)
EXTENDS LSMEngine

CONSTANTS c1, c2

\* The callers are interchangeable: c2 calls only while c1 waits.
InOrder == op'[c2] # None /\ op[c2] = None => op[c1] # None

\* No crash while the log holds a torn record that a flush has not reset.
OneTear == Torn(wal) => crashes' = crashes

\* No restart once a failed disk operation has left a table file behind that
\* the engine does not know of (the table of a flush under way is none).
unknown ==
  {n \in DOMAIN files : /\ \A i \in 1..Len(sstables) : sstables[i] # n
                        /\ \A i \in 1..Len(old) : old[i] # n
                        /\ ~(pc = "reset" /\ n = sstableSeq)}
NoOrphan == crashes' > crashes => unknown = {}

\* Two crashes, or one with a failed disk operation or a tick of the clock.
TwoEvents == crashes' + faults' + 2 * (now' - 1) <= IF crashes' > 0 /\ now' > 1 THEN 3 ELSE 2

\* Only the first write may have a TTL.
TTLFirst == \A c \in Client : op'[c] # op[c] /\ calls > 0 /\ op'[c] # None =>
                                op'[c].ExpiresAtUnixNano = 0

VARIABLES found, call

\* Something is to expire: then the clock may tick, and no disk operation fails.
expiring ==
  \/ \E k \in Key : found[k] # NotFound /\ found[k].ExpiresAt # 0
  \/ \E c \in Client : op[c] # None /\ op[c].ExpiresAtUnixNano # 0
TickExpires == (now' > now => expiring) /\ (faults' > faults => ~expiring)

MCVars == <<vars, found, call>>

MCInit == Init /\ found = [k \in Key |-> Get(k)] /\ call = openCalls

MCNext ==
  /\ Next
  /\ InOrder /\ OneTear /\ NoOrphan /\ TwoEvents /\ TTLFirst /\ TickExpires
  /\ found' = [k \in Key |-> Get(k)]' /\ call' = openCalls'

MCSpec == MCInit /\ [][MCNext]_MCVars

Store == INSTANCE KVStore WITH
  Value <- 1..MaxCalls,
  kv    <- [k \in Key |-> stored(found[k])],
  doubt <- {[key |-> w.key, new |-> written(w.rec)] : w \in doubt}

\* Every write takes effect once, between its call and its return, and no
\* flush, compaction, crash or recovery takes it back or brings back what it
\* replaced.
ImplementsKVStore == Store!Spec

=============================================================================
