-------------------------- MODULE LeaderDiscovery --------------------------
(***************************************************************************)
(* How the gateway finds the leader (internal/gateway/leader.go): a        *)
(* refresh polls the nodes one after the other and then, under the lock,   *)
(* replaces the gateway's view.  The ticker's refreshes and those of       *)
(* requests that reached no leader overlap each other and the elections,   *)
(* a deposed leader may go on saying it leads, and a context that ends     *)
(* makes the rest of a refresh's polls fail: the ticker's, once a node has *)
(* let a poll wait, and a request's, when its client goes away.            *)
(***************************************************************************)
EXTENDS Integers, Sequences

CONSTANTS
  NodeCount, None,
  MaxTerm,    \* bound: elections
  MaxOutages  \* bound: times a node becomes unreachable or a client goes away

Node == 1..NodeCount
Refresher == {"run", "handleWrite"}

VARIABLES
  role, term,           \* what each node's /v1/cluster says of itself
  up, hung,             \* the nodes that answer; of the others, those that refuse no call
  leaderID, nodeStatus, \* the gateway's view
  polled,               \* None, or the answers of a refresh, and whether its context ended
  outages

cluster == <<role, term, up, hung, outages>>
vars == <<cluster, leaderID, nodeStatus, polled>>

unreachable == [reachable |-> FALSE, role |-> "", term |-> 0]

Init ==
  /\ role = [n \in Node |-> "FOLLOWER"] /\ term = [n \in Node |-> 0]
  /\ up = Node /\ hung = {} /\ outages = 0
  /\ leaderID = None /\ nodeStatus = [n \in Node |-> unreachable]
  /\ polled = [r \in Refresher |-> None]

\* pollNode: what the node answers of itself; no answer, or one that is no
\* status, is an unreachable node.
pollNode(n) ==
  IF n \in up THEN [reachable |-> TRUE, role |-> role[n], term |-> term[n]] ELSE unreachable

refresh(r) ==
  /\ polled[r] = None
  /\ polled' = [polled EXCEPT ![r] = [answers |-> <<>>, expired |-> FALSE]]
  /\ UNCHANGED <<cluster, leaderID, nodeStatus>>

\* The next poll; gone: the client of handleWrite has left.  The context of run
\* lasts as long as one poll may.
poll(r, gone) ==
  /\ polled[r] # None /\ Len(polled[r].answers) < NodeCount
  /\ gone => r = "handleWrite" /\ ~polled[r].expired /\ outages < MaxOutages
  /\ outages' = IF gone THEN outages + 1 ELSE outages
  /\ LET n    == Len(polled[r].answers) + 1
         over == polled[r].expired \/ gone
     IN  polled' = [polled EXCEPT ![r] =
           [answers |-> Append(@.answers, IF over THEN unreachable ELSE pollNode(n)),
            expired |-> over \/ (r = "run" /\ n \in hung)]]
  /\ UNCHANGED <<role, term, up, hung, leaderID, nodeStatus>>

\* Mutant: the last node that says it leads, whatever its term.
bestLeaderAnyTerm(statuses) ==
  {n \in Node : /\ statuses[n].role = "LEADER"
                /\ \A m \in (n + 1)..NodeCount : statuses[m].role # "LEADER"}

\* The last node with the highest term among those that say they lead.
bestLeader(statuses) ==
  {n \in Node : /\ statuses[n].role = "LEADER"
                /\ \A m \in Node : statuses[m].role = "LEADER" =>
                     \/ statuses[m].term < statuses[n].term
                     \/ statuses[m].term = statuses[n].term /\ m <= n}

\* The end of refresh, under g.mu: a refresh that found no leader keeps the
\* last one.
update(r) ==
  /\ polled[r] # None /\ Len(polled[r].answers) = NodeCount
  /\ nodeStatus' = polled[r].answers
  /\ leaderID' = IF bestLeader(nodeStatus') = {} THEN leaderID
                 ELSE CHOOSE n \in bestLeader(nodeStatus') : TRUE
  /\ polled' = [polled EXCEPT ![r] = None]
  /\ UNCHANGED cluster

\* An election; the leader before keeps its role until it hears of it.
Elect(n) ==
  /\ \A m \in Node : term[m] < MaxTerm
  /\ role' = [role EXCEPT ![n] = "LEADER"]
  /\ term' = [term EXCEPT ![n] = 1 + CHOOSE t \in 0..MaxTerm :
                (\E m \in Node : term[m] = t) /\ \A m \in Node : term[m] <= t]
  /\ UNCHANGED <<up, hung, outages, leaderID, nodeStatus, polled>>

StepDown(n) ==
  /\ \E m \in Node : term[m] > term[n]
  /\ role' = [role EXCEPT ![n] = "FOLLOWER"]
  /\ term' = [term EXCEPT ![n] = CHOOSE t \in 0..MaxTerm :
                (\E m \in Node : term[m] = t) /\ \A m \in Node : term[m] <= t]
  /\ UNCHANGED <<up, hung, outages, leaderID, nodeStatus, polled>>

Outage(n, hangs) ==
  /\ n \in up /\ outages < MaxOutages
  /\ up' = up \ {n} /\ outages' = outages + 1
  /\ hung' = IF hangs THEN hung \union {n} ELSE hung
  /\ UNCHANGED <<role, term, leaderID, nodeStatus, polled>>

Return(n) ==
  /\ n \notin up /\ up' = up \union {n} /\ hung' = hung \ {n}
  /\ UNCHANGED <<role, term, outages, leaderID, nodeStatus, polled>>

Next ==
  \/ \E r \in Refresher : refresh(r) \/ (\E gone \in BOOLEAN : poll(r, gone)) \/ update(r)
  \/ \E n \in Node : \/ Elect(n) \/ StepDown(n) \/ Return(n)
                      \/ \E hangs \in BOOLEAN : Outage(n, hangs)

\* The ticker refreshes again and again, and a refresh ends: its polls have a
\* timeout.  Nothing makes a deposed leader step down or a node come back.
Fairness ==
  /\ WF_vars(refresh("run"))
  /\ \A r \in Refresher : WF_vars(poll(r, FALSE) \/ update(r))

Spec == Init /\ [][Next]_vars /\ Fairness

-----------------------------------------------------------------------------
\* The gateway's view is what the nodes would answer now, and its leader is
\* the one of the newest term among the nodes that answer.
ViewIsTrue ==
  /\ \A n \in Node : nodeStatus[n] = pollNode(n)
  /\ \A n \in up : role[n] = "LEADER" /\ (\A m \in up : role[m] = "LEADER" => term[m] <= term[n])
       => leaderID = n

\* Once the cluster stops changing the gateway comes to see it as it is, and
\* stays there, deposed leaders that still say they lead notwithstanding:
\* however refreshes overlapped or broke off before, the stale view of the
\* last one to end is replaced.  This holds as long as no node hangs: one that
\* does hides those after it from the ticker's refreshes.
DiscoveryConverges == <>[][FALSE]_cluster /\ <>[](hung = {}) => <>[]ViewIsTrue

=============================================================================
