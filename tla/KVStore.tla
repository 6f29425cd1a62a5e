------------------------------ MODULE KVStore ------------------------------
(***************************************************************************)
(* What storage.Engine promises its callers (internal/storage/storage.go,  *)
(* with MemStore as the implementation that does it in one step): a map    *)
(* from keys to values, each write of which takes effect at one instant    *)
(* between its call and its return.                                        *)
(*                                                                         *)
(* A durable engine adds this: a crash takes nothing back of what has      *)
(* taken effect.  It may let a write in that was still running, and one    *)
(* that was answered with an error, unless its key was written since.      *)
(***************************************************************************)
EXTENDS Naturals, FiniteSets

CONSTANTS Key, Value, Client, NotFound

VARIABLES
  kv,    \* kv[k]: the value a Get returns, with its expiry, or NotFound
  call,  \* call[c]: the write a caller is waiting for
  doubt, \* writes answered with an error that a crash may still let in
  now

vars == <<kv, call, doubt, now>>

Idle == [st |-> "idle"]
isRunning(c) == call[c].st = "running"
writeOf(c) == [key |-> call[c].key, new |-> call[c].new]

Expired(e, t) == e # NotFound /\ e.ExpiresAt # 0 /\ t > e.ExpiresAt
live(e, t) == IF Expired(e, t) THEN NotFound ELSE e

Init ==
  /\ kv = [k \in Key |-> NotFound]
  /\ call = [c \in Client |-> Idle]
  /\ doubt = {}
  /\ now = 1

\* kv takes the writes W, in some order.
takes(W, t) ==
  /\ DOMAIN kv' = Key
  /\ \A k \in Key :
       LET own == {w \in W : w.key = k}
       IN  IF own = {} THEN kv'[k] = live(kv[k], t)
           ELSE \E w \in own : kv'[k] = live(w.new, t)

\* A Put, or a Delete of a key that is there.
Begin(c) ==
  /\ call[c] = Idle
  /\ \E k \in Key, new \in [Value : Value, ExpiresAt : {0, now}] \cup {NotFound} :
       /\ new = NotFound => kv[k] # NotFound
       /\ call' = [call EXCEPT ![c] = [st |-> "running", key |-> k, new |-> new]]
  /\ UNCHANGED <<kv, doubt, now>>

\* Writes that ran concurrently may take effect together.
TakeEffect(S) ==
  /\ S # {} /\ \A c \in S : isRunning(c)
  /\ takes({writeOf(c) : c \in S}, now)
  /\ call' = [c \in Client |-> IF c \in S THEN [call[c] EXCEPT !.st = "done"] ELSE call[c]]
  /\ doubt' = {w \in doubt : \A c \in S : w.key # call[c].key}
  /\ UNCHANGED now

\* An answer: either the write has taken effect, or it is left in doubt.
Return(S) ==
  /\ S # {} /\ \A c \in S : call[c] # Idle
  /\ call' = [c \in Client |-> IF c \in S THEN Idle ELSE call[c]]
  /\ doubt' = doubt \cup {writeOf(c) : c \in {d \in S : isRunning(d)}}
  /\ UNCHANGED <<kv, now>>

Crash ==
  /\ \E W \in SUBSET (doubt \cup {writeOf(c) : c \in {d \in Client : isRunning(d)}}) :
       takes(W, now)
  /\ call' = [c \in Client |-> Idle]
  /\ doubt' = {}
  /\ UNCHANGED now

Tick ==
  /\ now' = now + 1
  /\ kv' = [k \in Key |-> live(kv[k], now')]
  /\ UNCHANGED <<call, doubt>>

Next ==
  \/ \E c \in Client : Begin(c)
  \/ \E S \in SUBSET Client : TakeEffect(S) \/ Return(S)
  \/ Crash
  \/ Tick

Spec == Init /\ [][Next]_vars

=============================================================================
