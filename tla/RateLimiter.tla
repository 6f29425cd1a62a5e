---------------------------- MODULE RateLimiter ----------------------------
(***************************************************************************)
(* The gateway's token buckets (internal/gateway/ratelimit.go), one for a  *)
(* client key, filled by elapsed time when a request is judged.  Handlers  *)
(* of the same client run concurrently: one finds or creates the bucket    *)
(* under rl.mu and judges its request later, under the bucket's own lock.  *)
(*                                                                         *)
(* Tokens are fractions in the code; here they are counted in the ticks it *)
(* takes to fill them, so that a whole token is Cost ticks.                *)
(***************************************************************************)
EXTENDS Integers, Sequences

CONSTANTS
  Client,  \* what clientKey says of a request
  Handler, \* the goroutines
  None,
  Cost,    \* ticks to fill one token: 1 / RequestsPerSecond
  Burst,
  MaxNow   \* bound: ticks of the clock

\* A full bucket.
full == Burst * Cost

Bucket == [tokens : Nat, lastFill : Nat]

ASSUME RateLimiterAssumption ==
  Cost \in Nat /\ Burst \in Nat /\ None \notin Client /\ None \notin Bucket

VARIABLES
  buckets,  \* [tokens, lastFill], or None, of each client
  inAllow,  \* the client whose bucket a handler holds, not judged yet
  now,
  allowed   \* history: the times of each client's requests let through

vars == <<buckets, inAllow, now, allowed>>

Init ==
  /\ buckets = [c \in Client |-> None]
  /\ inAllow = [h \in Handler |-> None]
  /\ now = 0
  /\ allowed = [c \in Client |-> <<>>]

\* Allow, under rl.mu.
Allow(h, key) ==
  /\ inAllow[h] = None
  /\ inAllow' = [inAllow EXCEPT ![h] = key]
  /\ buckets' = IF buckets[key] # None THEN buckets
                ELSE [buckets EXCEPT ![key] = [tokens |-> full, lastFill |-> now]]
  /\ UNCHANGED <<now, allowed>>

\* Mutant: the bucket is not capped at Burst.
filledUncapped(b) == b.tokens + (now - b.lastFill)

\* The tokens of b after the time since lastFill, at most Burst.
filled(b) == LET t == b.tokens + (now - b.lastFill)
             IN  IF t > full THEN full ELSE t

\* Allow, under b.mu: fill, and take a token if there is a whole one.
judge(h) ==
  /\ inAllow[h] # None
  /\ inAllow' = [inAllow EXCEPT ![h] = None]
  /\ LET key == inAllow[h]
         t   == filled(buckets[key])
     IN  IF t < Cost
         THEN /\ buckets' = [buckets EXCEPT ![key] = [tokens |-> t, lastFill |-> now]]
              /\ UNCHANGED allowed
         ELSE /\ buckets' = [buckets EXCEPT ![key] = [tokens |-> t - Cost, lastFill |-> now]]
              /\ allowed' = [allowed EXCEPT ![key] = Append(@, now)]
  /\ UNCHANGED now

Tick ==
  /\ now < MaxNow /\ now' = now + 1
  /\ UNCHANGED <<buckets, inAllow, allowed>>

Next ==
  \/ \E h \in Handler : judge(h) \/ \E key \in Client : Allow(h, key)
  \/ Tick

Spec == Init /\ [][Next]_vars

-----------------------------------------------------------------------------
\* What the requests i..j of a client cost.
price(i, j) == (j - i + 1) * Cost

\* Over any stretch of time, not only from the start, a client gets at most
\* Burst requests through and one more for each token filled in it, however
\* its requests interleave and however long it was idle before.
RateIsBounded ==
  \A c \in Client : \A i, j \in DOMAIN allowed[c] :
    i <= j => price(i, j) <= full + (allowed[c][j] - allowed[c][i])

=============================================================================
