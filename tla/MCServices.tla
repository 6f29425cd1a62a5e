----------------------------- MODULE MCServices -----------------------------
(***************************************************************************)
(* The components that work on their own, for TLC: a behaviour is one of   *)
(* the component its initial state picks, and the others stand still, so   *)
(* that one run explores each of them in turn.                             *)
(***************************************************************************)
EXTENDS RateLimiter

\* RaftStorage: one node's log and its file.
CONSTANTS Torn, MaxIndex, MaxTerm, MaxBatch, MaxCrashes
VARIABLES log, logBaseIndex, fs, saved, installing, crashes
Storage == INSTANCE MCRaftStorage

CONSTANTS NodeCount, MaxOutages
VARIABLES role, term, up, hung, leaderID, nodeStatus, polled, outages
Discovery == INSTANCE LeaderDiscovery

CONSTANTS Key, Window, Elevated, HighTraffic, Critical, HotThreshold, Hold, MaxRequests
VARIABLES requests, keyHits, mode, criticalUntil, handler, recorded
Load == INSTANCE Workload

CONSTANTS Keys, warmupConcurrency, Baseline, Peak, Scale, RampUp, PeakDuration, RampDown,
          Concurrency, ResultsCap, InjectAt
VARIABLES phase, unstarted, warming, warmupFailed, sent, waiting, inflight, answered,
          resultsCh, results, injector, fired
Simulator == INSTANCE LoadGen

CONSTANTS Peer, Call, Absent, MaxChanges
VARIABLES faults, request, conns, call, ordered, cut, handled, changes
Network == INSTANCE Transport WITH Node <- Peer

CONSTANTS Type, Attendance, Given, MaxRounds
VARIABLES batch, attempt, store, signalled, ingested, acked, lastID, rounds
Events == INSTANCE Ingest

VARIABLE focus \* the component of this behaviour

\* The variables of each component; now is the clock of three of them.
limiterVars  == <<buckets, inAllow, allowed>>
workloadVars == <<requests, keyHits, mode, criticalUntil, handler, recorded>>
loadVars     == <<phase, unstarted, warming, warmupFailed, sent, waiting, inflight, answered,
                  resultsCh, results, injector, fired>>
storageVars  == <<log, logBaseIndex, fs, saved, installing, crashes>>
viewVars     == <<role, term, up, hung, leaderID, nodeStatus, polled, outages>>
networkVars  == <<faults, request, conns, call, ordered, cut, handled, changes>>
eventVars    == <<batch, attempt, store, signalled, ingested, acked, lastID, rounds>>

allVars == <<limiterVars, workloadVars, loadVars, now, storageVars, viewVars,
             networkVars, eventVars, focus>>

MCInit ==
  /\ focus \in {"limiter", "storage", "discovery", "workload", "simulator", "network", "events"}
  /\ Init /\ Storage!Init /\ Discovery!Init /\ Load!Init /\ Simulator!Init
  /\ Network!Init /\ Events!Init

\* The others stand still.
only(name) ==
  /\ focus = name /\ UNCHANGED focus
  /\ name # "limiter" => UNCHANGED limiterVars
  /\ name # "workload" => UNCHANGED workloadVars
  /\ name # "simulator" => UNCHANGED loadVars
  /\ name \notin {"limiter", "workload", "simulator"} => UNCHANGED now
  /\ name # "storage" => UNCHANGED storageVars
  /\ name # "discovery" => UNCHANGED viewVars
  /\ name # "network" => UNCHANGED networkVars
  /\ name # "events" => UNCHANGED eventVars

MCNext ==
  \/ only("limiter") /\ Next
  \/ only("storage") /\ Storage!SafeNext
  \/ only("discovery") /\ Discovery!Next
  \/ only("workload") /\ Load!Next
  \/ only("simulator") /\ Simulator!Next
  \/ only("network") /\ Network!Next
  \/ only("events") /\ Events!Next

\* Discovery!Fairness and Simulator!Fairness, for the component that moves.
MCFairness ==
  /\ WF_allVars(only("discovery") /\ Discovery!refresh("run"))
  /\ \A r \in Discovery!Refresher :
       WF_allVars(only("discovery") /\ (Discovery!poll(r, FALSE) \/ Discovery!update(r)))
  /\ WF_allVars(only("simulator") /\ Simulator!step)

MCSpec == MCInit /\ [][MCNext]_allVars /\ MCFairness

-----------------------------------------------------------------------------
\* A node's log, its file and the offsets FileStorage keeps of it have their
\* types (module RaftStorage).
StorageTypeOK == Storage!TypeOK

\* What OpenFileStorage would read back at any moment, a crash inside
\* AppendEntries included, is the log the node has in memory (RaftStorage).
RestartKeepsLog == Storage!RestartKeepsLog

\* The calls a node makes on FileStorage, with its crashes, are those of a log
\* that survives restarts, as raft.Storage promises (DurableLog).
ImplementsDurableLog == Storage!ImplementsDurableLog

\* The leader and the reachability that refresh stores become true, and stay
\* so, once the cluster is quiet and no node lets a poll hang, whichever
\* refreshes overlap and whichever is stored last (LeaderDiscovery).
DiscoveryConverges == focus = "discovery" => Discovery!DiscoveryConverges

\* Monitor and HotKeys hold, for every moment still in the window, the
\* requests recorded then, although each handler reads the clock before it
\* takes the lock (Workload).
WindowsAreExact == Load!WindowsAreExact

\* recomputeMode never takes CRITICAL away before the time to which
\* SignalCritical holds it, with whatever rate it read (Workload).
CriticalHolds == Load!CriticalHolds

\* When Run returns its report, the results it drained from resultsCh are one
\* for each request that it fired (LoadGen).
EveryRequestIsReported == Simulator!EveryRequestIsReported

\* Run returns: its goroutines, the semaphore, resultsCh and the injector never
\* wait for each other for ever (LoadGen).
RunReturns == focus = "simulator" => Simulator!RunReturns

\* No call is handled of which an end was partitioned by handleFault before the
\* call began and until it was handled (Transport).
PartitionIsolates == Network!PartitionIsolates

\* Each event that FetchAndNormalize returned is stored at most once and as it
\* was then, however often it is posted and normalized again (Ingest).
StoredOnceAsIngested == Events!StoredOnceAsIngested


=============================================================================
