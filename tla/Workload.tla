------------------------------ MODULE Workload ------------------------------
(***************************************************************************)
(* The workload engine (internal/workload): every request is counted in    *)
(* the sliding windows and then the mode is recomputed, without one lock   *)
(* over the two.  Handlers therefore use a clock reading, or a rate, that  *)
(* is stale by the time they hold the lock, next to events that force      *)
(* CRITICAL mode for a while.                                              *)
(*                                                                         *)
(* The window is the same for the monitor and the hot keys; a rate is the  *)
(* count over the window.                                                  *)
(***************************************************************************)
EXTENDS Integers, FiniteSets, FiniteSetsExt

CONSTANTS
  Handler, Key, None,
  Window,        \* ticks
  Elevated, HighTraffic, Critical, \* thresholds, as counts over the window
  HotThreshold,
  Hold,          \* ticks SignalCritical holds the mode
  MaxNow,        \* bound: ticks of the clock
  MaxRequests    \* bound: requests in a behaviour

VARIABLES
  requests, \* requests.buckets: a count for each time
  keyHits,  \* hotKeys.keyHits: the same for each key it has
  mode, criticalUntil,
  handler,  \* where each RecordRequest is, its clock reading, key and rate
  now,
  recorded  \* history: the requests counted, for each time and key (None: by the monitor)

vars == <<requests, keyHits, mode, criticalUntil, handler, now, recorded>>

Idle == [pc |-> "idle"]

\* Mutant: the oldest millisecond of the window is dropped with those before.
pruneShort(b, t) == [ms \in {x \in DOMAIN b : x > t - Window} |-> b[ms]]

\* A map of counts, less the buckets before the window that ends at t.
prune(b, t) == [ms \in {x \in DOMAIN b : x >= t - Window} |-> b[ms]]

increment(b, t) == [ms \in DOMAIN b \union {t} |-> (IF ms \in DOMAIN b THEN b[ms] ELSE 0)
                                                   + (IF ms = t THEN 1 ELSE 0)]
total(b) == MapThenSumSet(LAMBDA ms : b[ms], DOMAIN b)

\* The requests counted for key since time t (history).
counted(key, t) == MapThenSumSet(LAMBDA at : recorded[key, at], {at \in 0..MaxNow : at >= t})

Init ==
  /\ requests = <<>> /\ keyHits = <<>>
  /\ mode = "NORMAL" /\ criticalUntil = 0
  /\ handler = [h \in Handler |-> Idle]
  /\ now = 0 /\ recorded = [r \in (Key \union {None}) \X (0..MaxNow) |-> 0]

\* RecordRequest: Record reads the clock before it has the lock.
RecordRequest(h, key) ==
  /\ handler[h] = Idle
  /\ counted(None, 0) + Cardinality({g \in Handler : handler[g].pc = "monitor"}) < MaxRequests
  /\ handler' = [handler EXCEPT ![h] = [pc |-> "monitor", at |-> now, key |-> key]]
  /\ UNCHANGED <<requests, keyHits, mode, criticalUntil, now, recorded>>

Record(h) ==
  /\ handler[h].pc = "monitor"
  /\ requests' = prune(increment(requests, handler[h].at), handler[h].at)
  /\ recorded' = [recorded EXCEPT ![None, handler[h].at] = @ + 1]
  /\ handler' = [handler EXCEPT ![h] =
       [pc |-> IF handler[h].key = None THEN "rps" ELSE "key", at |-> now, key |-> handler[h].key]]
  /\ UNCHANGED <<keyHits, mode, criticalUntil, now>>

\* The next clock reading comes some time after the step before it.
readClock(h) ==
  /\ handler[h].pc \in {"key", "rps"} /\ handler[h].at < now
  /\ handler' = [handler EXCEPT ![h].at = now]
  /\ UNCHANGED <<requests, keyHits, mode, criticalUntil, now, recorded>>

\* HotKeyTracker.Record; a key with no hit left would be dropped.
RecordKey(h) ==
  /\ handler[h].pc = "key"
  /\ LET key  == handler[h].key
         hits == prune(increment(IF key \in DOMAIN keyHits THEN keyHits[key] ELSE <<>>,
                                 handler[h].at), handler[h].at)
     IN  keyHits' = [k \in DOMAIN keyHits \union (IF hits = <<>> THEN {} ELSE {key}) |->
                       IF k = key THEN hits ELSE keyHits[k]]
  /\ recorded' = [recorded EXCEPT ![handler[h].key, handler[h].at] = @ + 1]
  /\ handler' = [handler EXCEPT ![h] = [pc |-> "rps", at |-> now, key |-> None]]
  /\ UNCHANGED <<requests, mode, criticalUntil, now>>

\* recomputeMode, the rate: under the monitor's lock.
RPS(h) ==
  /\ handler[h].pc = "rps"
  /\ requests' = prune(requests, handler[h].at)
  /\ handler' = [handler EXCEPT ![h] = [pc |-> "mode", rps |-> total(requests')]]
  /\ UNCHANGED <<keyHits, mode, criticalUntil, now, recorded>>

modeFor(rps) == CASE rps >= Critical    -> "CRITICAL"
                  [] rps >= HighTraffic -> "HIGH_TRAFFIC"
                  [] rps >= Elevated    -> "ELEVATED"
                  [] OTHER              -> "NORMAL"

\* Mutant: the hold is not looked at.
recomputeModeByRate(h) ==
  /\ handler[h].pc = "mode"
  /\ mode' = modeFor(handler[h].rps)
  /\ handler' = [handler EXCEPT ![h] = Idle]
  /\ UNCHANGED <<requests, keyHits, criticalUntil, now, recorded>>

\* recomputeMode, the mode: under e.mu, by a rate that may be old.
recomputeMode(h) ==
  /\ handler[h].pc = "mode"
  /\ mode' = IF now < criticalUntil THEN "CRITICAL" ELSE modeFor(handler[h].rps)
  /\ handler' = [handler EXCEPT ![h] = Idle]
  /\ UNCHANGED <<requests, keyHits, criticalUntil, now, recorded>>

\* maybeSignalCriticalFromEventResponse, for a CRITICAL event.
SignalCritical ==
  /\ mode' = "CRITICAL" /\ criticalUntil' = Max({criticalUntil, now + Hold})
  /\ UNCHANGED <<requests, keyHits, handler, now, recorded>>

Tick ==
  /\ now < MaxNow /\ now' = now + 1
  /\ UNCHANGED <<requests, keyHits, mode, criticalUntil, handler, recorded>>

Next ==
  \/ \E h \in Handler :
       \/ \E key \in Key \union {None} : RecordRequest(h, key)
       \/ Record(h) \/ readClock(h) \/ RecordKey(h) \/ RPS(h) \/ recomputeMode(h)
  \/ SignalCritical
  \/ Tick

Spec == Init /\ [][Next]_vars

\* HotKeys, which counts what is in the window without pruning.
HotKeys == {key \in DOMAIN keyHits : total(prune(keyHits[key], now)) >= HotThreshold}

-----------------------------------------------------------------------------
\* No request inside the window is lost or counted twice, by the rate and by
\* the hot keys: a handler that counts, or prunes, with a clock reading from
\* before another's drops nothing the window still covers.
WindowsAreExact ==
  /\ total(prune(requests, now)) = counted(None, now - Window)
  /\ \A key \in Key :
       counted(key, now - Window) = IF key \in DOMAIN keyHits THEN total(prune(keyHits[key], now)) ELSE 0
  /\ HotKeys = {key \in Key : counted(key, now - Window) >= HotThreshold}

\* A CRITICAL event holds the mode for its whole hold: no handler that took
\* its rate before the event brings it down.
CriticalHolds == now < criticalUntil => mode = "CRITICAL"

=============================================================================
