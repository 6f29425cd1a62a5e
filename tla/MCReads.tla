------------------------------ MODULE MCReads ------------------------------
(***************************************************************************)
(* What clients read, for TLC: the gateway with its cache over nodes that  *)
(* apply at their own pace (Gateway), and what a node's engine holds       *)
(* through replay, snapshots, restores and expiry (KVReplicas).  A         *)
(* behaviour is one of the component its initial state picks.  The         *)
(* constraints choose among the behaviours; the view leaves out what no    *)
(* later step and no property reads.                                       *)
(***************************************************************************)
EXTENDS Gateway

CONSTANTS n1, n2, k1, TTL, MaxLog, MaxRestarts, MaxNow
VARIABLES log, position, reached, engine, snapshot, restoring, now, restarts
R == INSTANCE KVReplicas WITH Node <- {n1, n2}, lastApplied <- position

VARIABLE focus

\* The readers are interchangeable.
InOrder ==
  \A r, s \in Reader : r < s /\ req'[s].pc # "new" => req[r].pc # "new"

\* Elections, and refreshes of the background loop, come during a write.
DuringWrite ==
  role' # role \/ term' # term \/ (leaderID' # leaderID /\ req' = req) =>
    \E r \in Writer : req[r].pc \notin {"new", "done"}

\* A second loss hits the request that is on its second attempt.
OneVictim ==
  lost = 1 /\ lost' = 2 =>
    \/ \E r \in Writer : req'[r] # req[r] /\ req[r].try = 2
    \/ \E r \in Reader : req'[r] # req[r] /\ req[r].i = 1

-----------------------------------------------------------------------------
\* Of the two replicas n1, never behind, takes the snapshots and n2 installs
\* them; the keys are interchangeable; the clock matters to a TTL only.
Roles ==
  /\ snapshot'[n1] # snapshot[n1] => snapshot'[n1].index = position[n1] /\ restoring'[n1] = {}
  /\ snapshot'[n2] # snapshot[n2] => snapshot'[n2] = snapshot[n1]
  /\ reached'[n2] <= reached'[n1]
  /\ log' # <<>> => log'[1].Key = k1
  /\ now' # now => \E i \in DOMAIN log : log[i].TTL

replicaVars == <<log, position, reached, engine, snapshot, restoring, now, restarts>>
gatewayVars == <<role, term, pending, committed, lastApplied, leaderID, cache, readCounter, req, lost>>

MCInit ==
  /\ Init /\ R!Init
  /\ focus \in {"gateway", "replicas"} /\ (focus = "replicas" => leaderID = None)

MCNext ==
  /\ UNCHANGED focus
  /\ \/ focus = "gateway" /\ Next /\ UNCHANGED replicaVars
     \/ focus = "replicas" /\ R!Next /\ R!RestoreReplaces /\ UNCHANGED gatewayVars

MCSpec == MCInit /\ [][MCNext]_<<gatewayVars, replicaVars, focus>>

View ==
  IF focus = "replicas" THEN replicaVars
  ELSE <<cluster, leaderID, cache, readCounter, lost,
         [r \in Writer |-> IF done(r) THEN [req[r] EXCEPT !.addr = None, !.try = 0] ELSE req[r]],
         [r \in Reader |-> IF done(r) THEN <<req[r].status, req[r].status = 503 /\ req[r].tried = Node>>
                           ELSE <<req[r]>>]>>

-----------------------------------------------------------------------------


=============================================================================
