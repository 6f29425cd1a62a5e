------------------------------- MODULE MCRaft -------------------------------
(***************************************************************************)
(* Instances of Raft for TLC.  The action constraints below choose among   *)
(* the schedules of Raft: every behaviour that satisfies them is one of    *)
(* Raft's.  A cfg names the ones its question can do without.              *)
(***************************************************************************)
EXTENDS Raft, TLC

CONSTANTS
  n1, n2, n3, c1, c2, c3,
  Turn,     \* Turn[t]: the node whose election timer fires for term t
  Appliers, \* the nodes whose apply loops get to run
  Links     \* the pairs <<leader, follower>> that replicate

Nodes2 == {n1, n2}
Nodes3 == {n1, n2, n3}
NoCommands == {}
Commands2 == {c1, c2}
Commands3 == {c1, c2, c3}
NoNodes == {}
Only1 == {n1}
Both12 == {n1, n2}
Turn12 == <<n1, n2>>
Turn121 == <<n1, n2, n1>>
Turn123 == <<n1, n2, n3>>

AllLinks == Node \X Node
Star2 == {<<n1, n2>>, <<n2, n1>>, <<n2, n3>>}
Relay123 == {<<n1, n2>>, <<n2, n3>>, <<n3, n1>>}

AnyNode == Permutations(Node)

\* Which node campaigns for which term.
InTurn == \A i \in Node : state'[i] = "Candidate" => i = Turn[currentTerm'[i]]

\* The other nodes' apply loops are never scheduled.
SomeApply == \A i \in Node \ Appliers : applier'[i] = Idle

\* Where a node crashes, only the apply loop of n1 runs, and n1 hears of n2's
\* log by its vote requests only.
AfterCrash ==
  restarts' > 0 => /\ \A i \in Node \ {n1} : lastApplied'[i] = 0 /\ applier'[i] = Idle
                   /\ call'[n2][n1] = NoCall

\* No node's apply loop is in the middle of something while the node installs
\* a snapshot.
ApplyOrInstall == \A i \in Node : installs'[i] # {} => applier'[i] = Idle

\* The apply loops of two nodes share nothing: they take turns.
OneApplies == Cardinality({i \in Node : applier'[i] # Idle}) <= 1

\* The other pairs are cut off from each other, but for their votes.
SomeLinks == \A p \in AllLinks \ Links : call'[p[1]][p[2]] = NoCall

\* One replication call at a time (elections, timers, clients and crashes
\* still interleave with it).
OneCall == Cardinality({p \in AllLinks : call'[p[1]][p[2]] # NoCall}) <= 1

\* A queued command is appended at once.
PromptAppend ==
  \A i \in Node : proposeCh[i] # <<>> => proposeCh'[i] # proposeCh[i]

\* Commands are interchangeable: they are proposed in this order.
InOrder ==
  LET order == <<c1, c2, c3>>
  IN  \A k \in {2, 3} : order[k] \in Command /\ prop'[order[k]].pc # "new" =>
                          prop'[order[k - 1]].pc # "new"

\* Nobody campaigns for the second term before there is a command: until then
\* all logs are empty.
CommandFirst == \A i \in Node : currentTerm'[i] > 1 => prop'[c1].pc # "new"

\* The clients take no look at what became of their commands.
NoLookBack == \A c \in Command : prop'[c].pc \in {"new", "queued", "waiting"}

\* Vote requests and replies of past elections are lost.
newestTerm == Max({currentTerm[i] : i \in Node})
NewestVotes ==
  /\ \A r \in voteReqs \ voteReqs' : r.term = newestTerm
  /\ \A p \in voteReps \ voteReps' : p.req.term = newestTerm

\* Late calls and later terms, or snapshots, not both.  Once an apply loop has
\* run there is one term, no call is late or times out, and no follower holds
\* entries whose acknowledgement was lost; the pairs that are cut off before
\* are not any more.
applied == \E i \in Node : lastApplied[i] > 0
settled ==
  /\ late = {}
  /\ \A i \in Node : currentTerm[i] <= 1
  /\ \A i, j \in Node :
       state[i] = "Leader" /\ j # i /\ call[i][j] = NoCall =>
         matchIndex[i][j] = lastLogIndexLocked(j)
answered ==
  \A i, j \in Node :
    call[i][j].stage \in {"sent", "handling", "replied"} /\ call'[i][j] = NoCall =>
      HandleAppendEntriesReply(i, j) \/ HandleInstallSnapshotReply(i, j)
LateOrSnapshots == IF applied' THEN settled' /\ (applied => answered) ELSE SomeLinks

\* Views that leave out data no later step can read: the vote count of a node
\* that is not a candidate, nextIndex and matchIndex of a node that is not the
\* leader, vote replies whose receipt would change nothing, now or later.
liveVotes  == [i \in Node |-> IF state[i] = "Candidate" THEN votes[i] ELSE {}]
liveLeader == [i \in Node |-> IF state[i] = "Leader"
                              THEN <<nextIndex[i], matchIndex[i]>> ELSE <<>>]
liveReps   == {p \in voteReps : p.term > currentTerm[p.req.from] \/ countsVote(p)}
View ==
  <<electionVars, liveVotes, voteReqs, liveReps, elected, logVars, commitIndex, applyVars,
    liveLeader, rpcVars, clientVars, restarts>>

\* With NewestVotes, those of past elections are dead too.  No step reads the
\* history variable elected, nor does any property of the runs with this view.
NewestView ==
  <<electionVars, liveVotes, {r \in voteReqs : r.term = newestTerm},
    {p \in liveReps : p.req.term = newestTerm}, logVars, commitIndex, applyVars,
    liveLeader, rpcVars, clientVars, restarts>>

=============================================================================
