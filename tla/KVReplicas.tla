----------------------------- MODULE KVReplicas -----------------------------
(***************************************************************************)
(* The replicated state machine (internal/storage/statemachine.go) on each *)
(* node's own durable engine: commands in the order Raft commits them,     *)
(* applied by every node at its own pace, snapshots, a snapshot restored   *)
(* key by key into an engine that is not empty, restarts that replay the   *)
(* log over an engine that already has its effects, and values that expire *)
(* a TTL after each node's own Apply.                                      *)
(*                                                                         *)
(* Raft (module Raft) is here its committed log and each node's position   *)
(* in it; the engine is the KVStore that LSMEngine implements.  A value is *)
(* the index of the command that wrote it.                                 *)
(***************************************************************************)
EXTENDS Integers, Sequences, FiniteSets, FiniteSetsExt

CONSTANTS
  Node, Key, NotFound,
  TTL,         \* ticks a value with a TTL lives
  MaxLog,      \* bound: commands
  MaxRestarts, \* bound: restarts in a behaviour
  MaxNow       \* bound: ticks of the clock

VARIABLES
  log,         \* the committed commands (at: when, for one with a TTL; history)
  lastApplied,
  reached,     \* history: the furthest state each engine has been taken to
  engine,      \* engine[n][k]: the entry, or NotFound
  snapshot,    \* each node's snapshot: its index, its engine's `reached', its entries
  restoring,   \* the keys Restore still has to put
  now, restarts

vars == <<log, lastApplied, reached, engine, snapshot, restoring, now, restarts>>

Expired(e) == e # NotFound /\ e.ExpiresAt # 0 /\ now > e.ExpiresAt
Get(n, k) == IF Expired(engine[n][k]) THEN NotFound ELSE engine[n][k]
live(n) == {k \in Key : Get(n, k) # NotFound}

Init ==
  /\ log = <<>>
  /\ lastApplied = [n \in Node |-> 0] /\ reached = [n \in Node |-> 0]
  /\ engine = [n \in Node |-> [k \in Key |-> NotFound]]
  /\ snapshot = [n \in Node |-> [index |-> 0, reached |-> 0, data |-> <<>>]]
  /\ restoring = [n \in Node |-> {}]
  /\ now = 0 /\ restarts = 0

\* writeThroughRaft: the command commits.
Propose(cmd) ==
  /\ Len(log) < MaxLog
  /\ log' = Append(log, cmd)
  /\ UNCHANGED <<lastApplied, reached, engine, snapshot, restoring, now, restarts>>

handlePut(key, ttl) == Propose([Op |-> "Set", Key |-> key, TTL |-> ttl,
                                at |-> IF ttl THEN now ELSE 0])

\* The key's existence is looked up in the node's own applied state.
handleDelete(n, key) ==
  /\ Get(n, key) # NotFound
  /\ Propose([Op |-> "Delete", Key |-> key, TTL |-> FALSE, at |-> 0])

\* RaftStateMachine.Apply: a Delete of a key that is gone is no error.
applied(e, i) ==
  [e EXCEPT ![log[i].Key] =
     IF log[i].Op = "Delete" THEN NotFound
     ELSE [Value |-> i, ExpiresAt |-> IF log[i].TTL THEN now + TTL ELSE 0]]


Apply(n) ==
  /\ restoring[n] = {} /\ lastApplied[n] < Len(log)
  /\ lastApplied' = [lastApplied EXCEPT ![n] = @ + 1]
  /\ engine' = [engine EXCEPT ![n] = applied(@, lastApplied'[n])]
  /\ reached' = [reached EXCEPT ![n] = Max({@, lastApplied'[n]})]
  /\ UNCHANGED <<log, snapshot, restoring, now, restarts>>

\* lastApplied once Restore has no key left.
finished(n) == IF restoring'[n] # {} THEN lastApplied
               ELSE [lastApplied EXCEPT ![n] = Max({@, snapshot'[n].index})]

\* RaftStateMachine.Snapshot, of the live entries, saved by the node.
Snapshot(n) ==
  /\ restoring[n] = {} /\ lastApplied[n] > snapshot[n].index
  /\ snapshot' = [snapshot EXCEPT ![n] =
       [index |-> lastApplied[n], reached |-> reached[n], data |-> [k \in live(n) |-> engine[n][k]]]]
  /\ UNCHANGED <<log, lastApplied, reached, engine, restoring, now, restarts>>

\* A snapshot that is newer than the node's own is saved, and Restore starts on
\* it; the node's position moves there when Restore is done, never back.
HandleInstallSnapshot(n, m) ==
  /\ restoring[n] = {} /\ snapshot[m].index > snapshot[n].index
  /\ snapshot' = [snapshot EXCEPT ![n] = snapshot[m]]
  /\ restoring' = [restoring EXCEPT ![n] = DOMAIN snapshot[m].data]
  /\ reached' = [reached EXCEPT ![n] = Max({@, snapshot[m].reached})]
  /\ lastApplied' = finished(n)
  /\ UNCHANGED <<log, engine, now, restarts>>


\* What Restore puts for a snapshot's entry: the TTL is what is left of it,
\* and nothing is put when nothing is left.
restored(e) == IF e.ExpiresAt # 0 /\ e.ExpiresAt <= now THEN NotFound ELSE e

\* One Put of Restore.
Restore(n, k) ==
  /\ k \in restoring[n]
  /\ LET e == restored(snapshot[n].data[k])
     IN  engine' = IF e = NotFound THEN engine ELSE [engine EXCEPT ![n][k] = e]
  /\ restoring' = [restoring EXCEPT ![n] = @ \ {k}]
  /\ UNCHANGED <<log, reached, snapshot, now, restarts>>
  /\ lastApplied' = finished(n)

\* A restart, of a Restore halfway too: the snapshot is restored into the
\* engine as it is, and the log replayed from there.
NewNode(n) ==
  /\ restarts < MaxRestarts /\ restarts' = restarts + 1
  /\ restoring' = [restoring EXCEPT ![n] = DOMAIN snapshot[n].data]
  /\ lastApplied' = [lastApplied EXCEPT ![n] = IF restoring'[n] = {} THEN snapshot[n].index ELSE 0]
  /\ UNCHANGED <<log, reached, engine, snapshot, now>>

Tick ==
  /\ now < MaxNow /\ now' = now + 1
  /\ UNCHANGED <<log, lastApplied, reached, engine, snapshot, restoring, restarts>>

Next ==
  \/ \E key \in Key : \/ \E ttl \in BOOLEAN : handlePut(key, ttl)
                      \/ \E n \in Node : handleDelete(n, key)
  \/ \E n \in Node :
       \/ Apply(n)
       \/ Snapshot(n)
       \/ \E m \in Node \ {n} : HandleInstallSnapshot(n, m)
       \/ \E k \in Key : Restore(n, k)
       \/ NewNode(n)
  \/ Tick

Spec == Init /\ [][Next]_vars

-----------------------------------------------------------------------------
\* The commands on k among those from..to.
on(k, from, to) == {i \in from..to : log[i].Key = k}



\* What the passing run leaves out: a snapshot behind the node it is sent to
\* (module Raft has it); and the two ways in which putting the snapshot's keys
\* does not replace the engine's state, which are the disagreement: a snapshot
\* without a key the engine has, and an entry that expired before its Put over
\* one that did not.
RestoreReplaces ==
  \A n \in Node :
    /\ snapshot'[n] # snapshot[n] => /\ snapshot'[n].index >= lastApplied[n]
                                     /\ live(n) \subseteq DOMAIN snapshot'[n].data
    /\ \A k \in restoring[n] \ restoring'[n] :
         k \in live(n) => restored(snapshot[n].data[k]) # NotFound

=============================================================================
