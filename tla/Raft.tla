-------------------------------- MODULE Raft --------------------------------
(***************************************************************************)
(* The Raft library (internal/raft) with its file storage: elections, log  *)
(* replication, commitment, group commit of proposals, the apply loop,     *)
(* snapshots, InstallSnapshot, and crashes with recovery from disk.        *)
(*                                                                         *)
(* Everything a node does while it holds Node.mu is one step.  Work done   *)
(* with the mutex released (an RPC, StateMachine.Apply, Snapshot, Restore, *)
(* SaveSnapshot) is a step of its own, so it interleaves with the rest.    *)
(*                                                                         *)
(* RPCs are calls: a request is handled at most once, its reply reaches    *)
(* only the goroutine that waits for it.  A call that times out may still  *)
(* be handled later: its request is then in the set late.  A request or a  *)
(* reply that no step ever consumes is lost.                               *)
(***************************************************************************)
EXTENDS Integers, Sequences, FiniteSets, FiniteSetsExt

CONSTANTS
  Node,                    \* the members of the cluster
  Command,                 \* the commands clients propose, each once
  None,                    \* "": no vote, no known leader
  Torn,                    \* a frame of the log file that does not decode
  SnapshotThreshold,       \* Options.SnapshotThreshold, 0 disables
  MaxReplicationBatchSize, \* entries per AppendEntries (64 in the code)
  MaxAppendBatchSize,      \* proposals per group commit (64 in the code)
  Lossy,                   \* bound: whether replication calls may time out
  MaxTerm,                 \* bound: no election starts beyond this term
  MaxLate,                 \* bound: abandoned requests still in the network
  MaxRestarts              \* bound: crashes in a behaviour

ASSUME RaftAssumption ==
  /\ IsFiniteSet(Node)
  /\ None \notin Node
  /\ SnapshotThreshold \in Nat
  /\ MaxReplicationBatchSize \in Nat \ {0}
  /\ MaxAppendBatchSize \in Nat \ {0}
  /\ Lossy \in BOOLEAN
  /\ MaxTerm \in Nat
  /\ MaxLate \in Nat
  /\ MaxRestarts \in Nat

FS == INSTANCE FileStorage

VARIABLES
  \* election
  state,        \* "Follower", "Candidate" or "Leader"
  currentTerm,
  votedFor,
  leaderID,     \* the best-known leader, or None
  votes,        \* the nodes whose votes the current election counted
  voteReqs,     \* RequestVote calls not handled yet
  voteReps,     \* RequestVote replies not received yet
  elected,      \* history: the elections won, with the votes that won them
  \* the log and the state machine
  log,          \* the entries after the last snapshot
  logBaseIndex,
  logBaseTerm,
  commitIndex,
  lastApplied,
  applier,      \* what the apply loop is doing
  sm,           \* the state machine: the commands its state reflects
  \* leader state and replication calls
  nextIndex,
  matchIndex,
  call,         \* the call each replication loop is waiting for
  late,         \* requests of abandoned calls
  installs,     \* InstallSnapshot handlers in their unlocked part
  \* durable state
  stable,       \* raft-state.json
  disk,         \* raft-log.bin and raft-snapshot.bin
  \* clients
  proposeCh,    \* proposals waiting for the append loop
  prop,         \* what became of each command's Propose call
  restarts

electionVars == <<state, currentTerm, votedFor, leaderID, stable>>
voteVars     == <<votes, voteReqs, voteReps, elected>>
logVars      == <<log, logBaseIndex, logBaseTerm, disk>>
applyVars    == <<lastApplied, applier, sm>>
leaderVars   == <<nextIndex, matchIndex>>
rpcVars      == <<call, late, installs>>
clientVars   == <<proposeCh, prop>>

vars == <<electionVars, voteVars, logVars, commitIndex, applyVars, leaderVars,
          rpcVars, clientVars, restarts>>

NoCall    == [stage |-> "none", req |-> None, rep |-> None]
Idle      == [pc |-> "idle", entry |-> None, index |-> 0, term |-> 0, data |-> <<>>]
NewPropose == [pc |-> "new", at |-> None, index |-> 0, term |-> 0]

Peers(i) == Node \ {i}

\* (len(peers)+1)/2 + 1, where peers leaves out the node itself.
majority == Cardinality(Node) \div 2 + 1

-----------------------------------------------------------------------------
(* Log helpers (log.go).                                                   *)

lastIndexOf(lg, base) == IF lg = <<>> THEN base ELSE lg[Len(lg)].index

lastLogIndexLocked(i) == lastIndexOf(log[i], logBaseIndex[i])

lastLogTermLocked(i) ==
  IF log[i] = <<>> THEN logBaseTerm[i] ELSE log[i][Len(log[i])].term

\* 0 when index is out of range.  (Where the log is not the dense sequence
\* LogIndexed demands, the code's slice expression may panic instead.)
termAtLocked(i, index) ==
  IF index = 0 \/ index > lastLogIndexLocked(i) THEN 0
  ELSE IF index = logBaseIndex[i] THEN logBaseTerm[i]
  ELSE IF index - logBaseIndex[i] \in DOMAIN log[i]
       THEN log[i][index - logBaseIndex[i]].term
  ELSE 0

CanTruncate(i, index) == index > logBaseIndex[i] /\ index <= lastLogIndexLocked(i)

\* Mutant: the conflicting entry itself is kept.
truncatedLogAfter(i, index) ==
  IF CanTruncate(i, index) THEN SubSeq(log[i], 1, index - logBaseIndex[i]) ELSE log[i]

\* truncateLogFromLocked: the log in memory, and the one on disk.
truncatedLog(i, index) ==
  IF CanTruncate(i, index) THEN SubSeq(log[i], 1, index - logBaseIndex[i] - 1)
  ELSE log[i]

truncatedDisk(i, index) ==
  IF CanTruncate(i, index) THEN FS!TruncateFrom(disk[i], index) ELSE disk[i]

\* appendLogLocked, on a log that may just have been truncated.
appendLogLocked(i, lg, fs, entries) ==
  /\ log'  = [log EXCEPT ![i] = lg \o entries]
  /\ disk' = [disk EXCEPT ![i] = FS!AppendEntries(fs, entries)]

-----------------------------------------------------------------------------
(* Terms and votes (node.go).                                              *)

\* The term and vote part of becomeFollowerLocked, with its save.
adoptTerm(i, term) ==
  LET newer == term > currentTerm[i]
  IN  /\ currentTerm' = [currentTerm EXCEPT ![i] = IF newer THEN term ELSE @]
      /\ votedFor'    = [votedFor EXCEPT ![i] = IF newer THEN None ELSE @]
      /\ stable'      = [stable EXCEPT ![i] =
                           IF newer THEN [term |-> term, votedFor |-> None] ELSE @]

\* Mutant: the leader of the old term is not forgotten.
becomeFollowerKeepingLeader(i, term) ==
  /\ adoptTerm(i, term)
  /\ state' = [state EXCEPT ![i] = "Follower"]
  /\ UNCHANGED leaderID

becomeFollowerLocked(i, term) ==
  /\ adoptTerm(i, term)
  /\ state'    = [state EXCEPT ![i] = "Follower"]
  /\ leaderID' = [leaderID EXCEPT ![i] = None]

\* What every handler of a current leader's call does first.
followLeader(i, r) ==
  /\ adoptTerm(i, r.term)
  /\ state'    = [state EXCEPT ![i] = "Follower"]
  /\ leaderID' = [leaderID EXCEPT ![i] = r.from]

-----------------------------------------------------------------------------
(* Elections (election.go).                                                *)

VoteRequest(i, j, term) ==
  [type |-> "RV", from |-> i, to |-> j, term |-> term,
   lastLogIndex |-> lastLogIndexLocked(i), lastLogTerm |-> lastLogTermLocked(i)]

\* The election timer of a node that is not the leader fires.
startElectionLocked(i) ==
  LET term == currentTerm[i] + 1
  IN  /\ state[i] # "Leader"
      /\ term <= MaxTerm
      /\ state'       = [state EXCEPT ![i] = "Candidate"]
      /\ currentTerm' = [currentTerm EXCEPT ![i] = term]
      /\ votedFor'    = [votedFor EXCEPT ![i] = i]
      /\ stable'      = [stable EXCEPT ![i] = [term |-> term, votedFor |-> i]]
      /\ votes'       = [votes EXCEPT ![i] = {i}]
      /\ voteReqs'    = voteReqs \cup {VoteRequest(i, j, term) : j \in Peers(i)}
      /\ UNCHANGED <<leaderID, voteReps, elected, logVars, commitIndex, applyVars,
                     leaderVars, rpcVars, clientVars, restarts>>

\* Mutant: the longer log wins, whatever its terms.
logOKByLength(i, r) == r.lastLogIndex >= lastLogIndexLocked(i)

logOK(i, r) ==
  \/ r.lastLogTerm > lastLogTermLocked(i)
  \/ r.lastLogTerm = lastLogTermLocked(i) /\ r.lastLogIndex >= lastLogIndexLocked(i)

\* Mutant: the vote already cast in this term is not looked at.
grantsVoteAgain(i, r) == r.term >= currentTerm[i] /\ logOK(i, r)

\* HandleRequestVote: canVote and logOK, after a newer term cleared the vote.
grantsVote(i, r) ==
  /\ r.term >= currentTerm[i]
  /\ r.term > currentTerm[i] \/ votedFor[i] \in {None, r.from}
  /\ logOK(i, r)

HandleRequestVote(r) ==
  LET i       == r.to
      newer   == r.term > currentTerm[i]
      granted == grantsVote(i, r)
      term    == IF newer THEN r.term ELSE currentTerm[i]
      vote    == IF granted THEN r.from ELSE IF newer THEN None ELSE votedFor[i]
  IN  /\ state'       = [state EXCEPT ![i] = IF newer THEN "Follower" ELSE @]
      /\ leaderID'    = [leaderID EXCEPT ![i] = IF newer THEN None ELSE @]
      /\ currentTerm' = [currentTerm EXCEPT ![i] = term]
      /\ votedFor'    = [votedFor EXCEPT ![i] = vote]
      /\ stable'      = [stable EXCEPT ![i] =
                           IF newer \/ granted THEN [term |-> term, votedFor |-> vote]
                           ELSE @]
      /\ \/ /\ r \in voteReqs
            /\ voteReqs' = voteReqs \ {r}
            /\ voteReps' = voteReps \cup {[req |-> r, term |-> term, granted |-> granted]}
            /\ UNCHANGED late
         \/ /\ r \in late
            /\ late' = late \ {r}
            /\ UNCHANGED <<voteReqs, voteReps>>
      /\ UNCHANGED <<votes, elected, logVars, commitIndex, applyVars, leaderVars,
                     call, installs, clientVars, restarts>>

becomeLeaderLocked(i) ==
  /\ state'      = [state EXCEPT ![i] = "Leader"]
  /\ leaderID'   = [leaderID EXCEPT ![i] = i]
  /\ nextIndex'  = [nextIndex EXCEPT ![i] = [j \in Node |-> lastLogIndexLocked(i) + 1]]
  /\ matchIndex' = [matchIndex EXCEPT ![i] = [j \in Node |-> 0]]
  /\ UNCHANGED <<currentTerm, votedFor, stable>>

\* The vote of reply p counts: the election it answers is still on.
countsVote(p) ==
  /\ state[p.req.from] = "Candidate"
  /\ currentTerm[p.req.from] = p.req.term
  /\ p.granted

\* The goroutine of startElectionLocked that waited for p.
HandleVoteReply(p) ==
  LET i     == p.req.from
      tally == votes[i] \cup {p.req.to}
  IN  /\ voteReps' = voteReps \ {p}
      /\ \/ /\ p.term > currentTerm[i]
            /\ becomeFollowerLocked(i, p.term)
            /\ UNCHANGED <<votes, elected, leaderVars>>
         \/ /\ p.term <= currentTerm[i]
            /\ ~countsVote(p)
            /\ UNCHANGED <<electionVars, votes, elected, leaderVars>>
         \/ /\ p.term <= currentTerm[i] /\ countsVote(p)
            /\ votes' = [votes EXCEPT ![i] = tally]
            /\ IF Cardinality(tally) >= majority
               THEN /\ becomeLeaderLocked(i)
                    /\ elected' = elected \cup {[term |-> p.req.term, leader |-> i,
                                                voters |-> tally]}
               ELSE UNCHANGED <<electionVars, elected, leaderVars>>
      /\ UNCHANGED <<voteReqs, logVars, commitIndex, applyVars, rpcVars, clientVars,
                     restarts>>

-----------------------------------------------------------------------------
(* Replication (replication.go).                                           *)

\* The requests of replication loops that a handler may start on.
Deliverable ==
  {call[p[1]][p[2]].req : p \in {q \in Node \X Node : call[q[1]][q[2]].stage = "sent"}}
    \cup {r \in late : r.type # "RV"}

\* A handler takes r off the network; its caller, if it still waits, has its
\* call moved to the given stage.
Take(r, stage, rep) ==
  \/ /\ call[r.from][r.to].stage = "sent" /\ call[r.from][r.to].req = r
     /\ call' = [call EXCEPT ![r.from][r.to] = [stage |-> stage, req |-> r, rep |-> rep]]
     /\ UNCHANGED late
  \/ /\ r \in late
     /\ late' = late \ {r}
     /\ UNCHANGED call

\* sendAppendEntriesTo up to the call.  The heartbeat ticker triggers the
\* replication loop of every peer again and again, so a leader may send
\* whenever the loop is not waiting for an answer.
sendAppendEntriesTo(i, j) ==
  LET nextIdx == IF nextIndex[i][j] = 0 THEN 1 ELSE nextIndex[i][j]
      first   == nextIdx - logBaseIndex[i]
      entries == IF nextIdx > lastLogIndexLocked(i) THEN <<>>
                 ELSE SubSeq(log[i], first,
                             Min({Len(log[i]), first + MaxReplicationBatchSize - 1}))
      request == [type |-> "AE", from |-> i, to |-> j, term |-> currentTerm[i],
                  prevLogIndex |-> nextIdx - 1,
                  prevLogTerm  |-> termAtLocked(i, nextIdx - 1),
                  entries      |-> entries,
                  leaderCommit |-> commitIndex[i]]
  IN  /\ state[i] = "Leader"
      /\ j \in Peers(i)
      /\ call[i][j] = NoCall
      /\ call' = [call EXCEPT ![i][j] =
                    IF nextIdx <= logBaseIndex[i]
                    THEN [stage |-> "load", req |-> currentTerm[i], rep |-> None]
                    ELSE [stage |-> "sent", req |-> request, rep |-> None]]
      /\ UNCHANGED <<electionVars, voteVars, logVars, commitIndex, applyVars, leaderVars,
                     late, installs, clientVars, restarts>>

\* Mutant: the log need only be long enough.
ConflictIndexByLength(i, r) ==
  IF r.prevLogIndex > lastLogIndexLocked(i) THEN lastLogIndexLocked(i) + 1 ELSE 0

\* 0 when the log has the entry the request builds on.
ConflictIndex(i, r) ==
  LET prev == r.prevLogIndex
      got  == termAtLocked(i, prev)
  IN  CASE prev = 0                                        -> 0
        [] prev > 0 /\ prev < logBaseIndex[i]              -> logBaseIndex[i] + 1
        [] prev >= logBaseIndex[i] /\ prev > lastLogIndexLocked(i)
                                                           -> lastLogIndexLocked(i) + 1
        [] OTHER ->
             IF got = r.prevLogTerm THEN 0
             ELSE Min({k \in 1..prev : \A m \in k..prev : termAtLocked(i, m) = got})

\* The positions of the request's entries that the log does not have.
Missing(i, r) ==
  {k \in DOMAIN r.entries :
     \/ r.prevLogIndex + k > lastLogIndexLocked(i)
     \/ termAtLocked(i, r.prevLogIndex + k) # r.entries[k].term}

\* Where the request's new entries go, and which they are.
appendAt(i, r)  == r.prevLogIndex + Min(Missing(i, r))
newEntries(i, r) == SubSeq(r.entries, Min(Missing(i, r)), Len(r.entries))

\* Mutant: whatever follows the entry the request builds on is replaced.
storeEntriesAfresh(i, r) ==
  IF r.entries = <<>> THEN UNCHANGED <<log, disk>>
  ELSE appendLogLocked(i, truncatedLog(i, r.prevLogIndex + 1),
                       truncatedDisk(i, r.prevLogIndex + 1), r.entries)

\* The entries loop of HandleAppendEntries.
storeEntries(i, r) ==
  IF Missing(i, r) = {} THEN UNCHANGED <<log, disk>>
  ELSE appendLogLocked(i, truncatedLog(i, appendAt(i, r)),
                       truncatedDisk(i, appendAt(i, r)), newEntries(i, r))

followerCommit(i, r, last) ==
  IF r.leaderCommit > commitIndex[i] THEN Min({r.leaderCommit, last}) ELSE commitIndex[i]

HandleAppendEntries(r) ==
  LET i        == r.to
      stale    == r.term < currentTerm[i]
      conflict == ConflictIndex(i, r)
      reply(ok, term, c) == [term |-> term, success |-> ok, conflictIndex |-> c]
  IN  /\ r.type = "AE"
      /\ \/ /\ stale
            /\ Take(r, "replied", reply(FALSE, currentTerm[i], 0))
            /\ UNCHANGED <<electionVars, log, disk, commitIndex>>
         \/ /\ ~stale /\ conflict > 0
            /\ followLeader(i, r)
            /\ Take(r, "replied", reply(FALSE, r.term, conflict))
            /\ UNCHANGED <<log, disk, commitIndex>>
         \/ /\ ~stale /\ conflict = 0
            /\ followLeader(i, r)
            /\ storeEntries(i, r)
            /\ commitIndex' = [commitIndex EXCEPT ![i] =
                                 followerCommit(i, r, lastIndexOf(log'[i], logBaseIndex[i]))]
            /\ Take(r, "replied", reply(TRUE, r.term, 0))
      /\ UNCHANGED <<voteVars, logBaseIndex, logBaseTerm, applyVars, leaderVars, installs,
                     clientVars, restarts>>

\* Mutants: one replica too few, or one too many, is asked for.
advancedCommitMinority(i, match) ==
  LET ready == {idx \in (commitIndex[i] + 1)..lastLogIndexLocked(i) :
                  /\ termAtLocked(i, idx) = currentTerm[i]
                  /\ 2 + Cardinality({j \in Peers(i) : match[j] >= idx}) >= majority}
  IN  IF ready = {} THEN commitIndex[i] ELSE Max(ready)

advancedCommitMoreThanMajority(i, match) ==
  LET ready == {idx \in (commitIndex[i] + 1)..lastLogIndexLocked(i) :
                  /\ termAtLocked(i, idx) = currentTerm[i]
                  /\ 1 + Cardinality({j \in Peers(i) : match[j] >= idx}) > majority}
  IN  IF ready = {} THEN commitIndex[i] ELSE Max(ready)

\* maybeAdvanceCommitIndexLocked, given the leader's new matchIndex.
advancedCommit(i, match) ==
  LET replicas(idx) == {j \in Peers(i) : match[j] >= idx}
      ready == {idx \in (commitIndex[i] + 1)..lastLogIndexLocked(i) :
                  /\ termAtLocked(i, idx) = currentTerm[i]
                  /\ 1 + Cardinality(replicas(idx)) >= majority}
  IN  IF ready = {} THEN commitIndex[i] ELSE Max(ready)

\* The leader records that j holds its log through match.
recordMatch(i, j, match, next) ==
  LET m == [matchIndex[i] EXCEPT ![j] = Max({@, match})]
  IN  /\ matchIndex'  = [matchIndex EXCEPT ![i] = m]
      /\ nextIndex'   = [nextIndex EXCEPT ![i][j] = next]
      /\ commitIndex' = [commitIndex EXCEPT ![i] = advancedCommit(i, m)]

\* The rest of sendAppendEntriesTo, once its call returned.
HandleAppendEntriesReply(i, j) ==
  LET r       == call[i][j].req
      p       == call[i][j].rep
      current == state[i] = "Leader" /\ currentTerm[i] = r.term
      match   == r.prevLogIndex + Len(r.entries)
  IN  /\ call[i][j].stage = "replied" /\ r.type = "AE"
      /\ call' = [call EXCEPT ![i][j] = NoCall]
      /\ \/ /\ p.term > currentTerm[i]
            /\ becomeFollowerLocked(i, p.term)
            /\ UNCHANGED <<leaderVars, commitIndex>>
         \/ /\ p.term <= currentTerm[i] /\ ~current
            /\ UNCHANGED <<electionVars, leaderVars, commitIndex>>
         \/ /\ p.term <= currentTerm[i] /\ current /\ p.success
            /\ recordMatch(i, j, match, match + 1)
            /\ UNCHANGED electionVars
         \/ /\ p.term <= currentTerm[i] /\ current /\ ~p.success
            /\ nextIndex' = [nextIndex EXCEPT ![i][j] =
                               IF p.conflictIndex > 0 THEN p.conflictIndex
                               ELSE IF @ > 1 THEN @ - 1 ELSE @]
            /\ UNCHANGED <<electionVars, matchIndex, commitIndex>>
      /\ UNCHANGED <<voteVars, logVars, applyVars, late, installs, clientVars, restarts>>

\* RPCTimeout: the loop gives up on its call.  The request, if no handler
\* has taken it, is lost or stays behind in the network; a handler that has
\* started goes on without its caller.
RPCTimeout(i, j) ==
  LET c == call[i][j]
  IN  /\ Lossy
      /\ c.stage \in {"sent", "handling", "replied"}
      /\ call' = [call EXCEPT ![i][j] = NoCall]
      /\ \/ UNCHANGED late
         \/ /\ c.stage = "sent" /\ c.req \notin late
            /\ Cardinality(late) < MaxLate
            /\ late' = late \cup {c.req}
      /\ installs' = [installs EXCEPT ![j] =
                        {IF h.req.from = i THEN [h EXCEPT !.waited = FALSE] ELSE h : h \in @}]
      /\ UNCHANGED <<electionVars, voteVars, logVars, commitIndex, applyVars, leaderVars,
                     clientVars, restarts>>

-----------------------------------------------------------------------------
(* InstallSnapshot (replication.go).                                       *)

\* sendInstallSnapshotTo loads the snapshot with the mutex released.
sendInstallSnapshotTo(i, j) ==
  LET s == disk[i].snapshot
  IN  /\ call[i][j].stage = "load"
      /\ call' = [call EXCEPT ![i][j] =
                    IF s = FS!NoSnapshot THEN NoCall
                    ELSE [stage |-> "sent", rep |-> None,
                          req |-> [type |-> "IS", from |-> i, to |-> j, term |-> @.req,
                                   lastIncludedIndex |-> s.index,
                                   lastIncludedTerm  |-> s.term, data |-> s.data]]]
      /\ UNCHANGED <<electionVars, voteVars, logVars, commitIndex, applyVars, leaderVars,
                     late, installs, clientVars, restarts>>

\* HandleInstallSnapshot, its first locked part.
HandleInstallSnapshot(r) ==
  LET i     == r.to
      stale == r.term < currentTerm[i]
      known == r.lastIncludedIndex <= logBaseIndex[i]
  IN  /\ r.type = "IS"
      /\ \/ /\ stale
            /\ Take(r, "replied", [term |-> currentTerm[i]])
            /\ UNCHANGED <<electionVars, installs>>
         \/ /\ ~stale /\ known
            /\ followLeader(i, r)
            /\ Take(r, "replied", [term |-> r.term])
            /\ UNCHANGED installs
         \/ /\ ~stale /\ ~known
            /\ followLeader(i, r)
            /\ Take(r, "handling", None)
            /\ installs' = [installs EXCEPT ![i] =
                 @ \cup {[req |-> r, pc |-> "save", waited |-> late' = late]}]
      /\ UNCHANGED <<voteVars, logVars, commitIndex, applyVars, leaderVars, clientVars,
                     restarts>>

\* SaveSnapshot, with the mutex released.
InstallSave(i, h) ==
  /\ h.pc = "save"
  /\ disk' = [disk EXCEPT ![i] = FS!SaveSnapshot(@, h.req.lastIncludedIndex,
                                                 h.req.lastIncludedTerm, h.req.data)]
  /\ installs' = [installs EXCEPT ![i] = (@ \ {h}) \cup {[h EXCEPT !.pc = "restore"]}]
  /\ UNCHANGED <<electionVars, voteVars, log, logBaseIndex, logBaseTerm, commitIndex,
                 applyVars, leaderVars, call, late, clientVars, restarts>>

\* StateMachine.Restore, with the mutex released.
InstallRestore(i, h) ==
  /\ h.pc = "restore"
  /\ sm' = [sm EXCEPT ![i] = h.req.data]
  /\ installs' = [installs EXCEPT ![i] = (@ \ {h}) \cup {[h EXCEPT !.pc = "finish"]}]
  /\ UNCHANGED <<electionVars, voteVars, logVars, commitIndex, lastApplied, applier,
                 leaderVars, call, late, clientVars, restarts>>

\* Mutant: the index stays where the log left it.
notRaised(n, index) == n

\* An index the snapshot through index moves forward, never back.
raisedTo(n, index) == Max({n, index})

\* HandleInstallSnapshot, its second locked part.
InstallFinish(i, h) ==
  LET r    == h.req
      past == r.lastIncludedIndex <= logBaseIndex[i]
  IN  /\ h.pc = "finish"
      /\ installs' = [installs EXCEPT ![i] = @ \ {h}]
      /\ call' = IF h.waited
                 THEN [call EXCEPT ![r.from][i] =
                         [stage |-> "replied", req |-> r, rep |-> [term |-> currentTerm[i]]]]
                 ELSE call
      /\ IF past THEN UNCHANGED <<logVars, commitIndex, lastApplied>>
         ELSE /\ log'          = [log EXCEPT ![i] = <<>>]
              /\ disk'         = [disk EXCEPT ![i] = FS!DiscardLogThrough(@, r.lastIncludedIndex)]
              /\ logBaseIndex' = [logBaseIndex EXCEPT ![i] = r.lastIncludedIndex]
              /\ logBaseTerm'  = [logBaseTerm EXCEPT ![i] = r.lastIncludedTerm]
              /\ commitIndex'  = [commitIndex EXCEPT ![i] = raisedTo(@, r.lastIncludedIndex)]
              /\ lastApplied'  = [lastApplied EXCEPT ![i] = raisedTo(@, r.lastIncludedIndex)]
      /\ UNCHANGED <<electionVars, voteVars, applier, sm, leaderVars, late, clientVars,
                     restarts>>

\* The rest of sendInstallSnapshotTo, once its call returned.
HandleInstallSnapshotReply(i, j) ==
  LET r       == call[i][j].req
      p       == call[i][j].rep
      current == state[i] = "Leader" /\ currentTerm[i] = r.term
  IN  /\ call[i][j].stage = "replied" /\ r.type = "IS"
      /\ call' = [call EXCEPT ![i][j] = NoCall]
      /\ \/ /\ p.term > currentTerm[i]
            /\ becomeFollowerLocked(i, p.term)
            /\ UNCHANGED <<leaderVars, commitIndex>>
         \/ /\ p.term <= currentTerm[i] /\ ~current
            /\ UNCHANGED <<electionVars, leaderVars, commitIndex>>
         \/ /\ p.term <= currentTerm[i] /\ current
            /\ recordMatch(i, j, r.lastIncludedIndex,
                           Max({nextIndex[i][j], r.lastIncludedIndex + 1}))
            /\ UNCHANGED electionVars
      /\ UNCHANGED <<voteVars, logVars, applyVars, late, installs, clientVars, restarts>>

-----------------------------------------------------------------------------
(* Proposals (apply.go).  A Propose call that runs out of time just takes  *)
(* no further step; the command may still be appended and applied.         *)

\* The fast path of Propose: a leader queues the command.
Propose(i, c) ==
  /\ prop[c].pc = "new"
  /\ state[i] = "Leader"
  /\ proposeCh' = [proposeCh EXCEPT ![i] = Append(@, c)]
  /\ prop' = [prop EXCEPT ![c] = [NewPropose EXCEPT !.pc = "queued", !.at = i]]
  /\ UNCHANGED <<electionVars, voteVars, logVars, commitIndex, applyVars, leaderVars,
                 rpcVars, restarts>>

\* Mutant: indexes start at the last one in use.
proposedEntriesOneBack(i, batch) ==
  [k \in DOMAIN batch |->
     [term |-> currentTerm[i], index |-> lastLogIndexLocked(i) + k - 1, cmd |-> batch[k]]]

\* The entries a leader makes of a batch of commands.
proposedEntries(i, batch) ==
  [k \in DOMAIN batch |->
     [term |-> currentTerm[i], index |-> lastLogIndexLocked(i) + k, cmd |-> batch[k]]]

\* appendLoop drains some of the queue and hands the batch to appendBatch.
appendBatch(i) ==
  \E n \in 1..Min({Len(proposeCh[i]), MaxAppendBatchSize}) :
    LET batch   == SubSeq(proposeCh[i], 1, n)
        place(c) == CHOOSE k \in 1..n : batch[k] = c
        inBatch(c) == \E k \in 1..n : batch[k] = c
    IN  /\ proposeCh' = [proposeCh EXCEPT ![i] = SubSeq(@, n + 1, Len(@))]
        /\ IF state[i] # "Leader"
           THEN /\ prop' = [c \in Command |->
                              IF inBatch(c) THEN [prop[c] EXCEPT !.pc = "notLeader"] ELSE prop[c]]
                /\ UNCHANGED <<log, disk>>
           ELSE /\ appendLogLocked(i, log[i], disk[i], proposedEntries(i, batch))
                /\ prop' = [c \in Command |->
                              IF inBatch(c)
                              THEN [pc |-> "waiting", at |-> i, term |-> currentTerm[i],
                                    index |-> lastLogIndexLocked(i) + place(c)]
                              ELSE prop[c]]
        /\ UNCHANGED <<electionVars, voteVars, logBaseIndex, logBaseTerm, commitIndex,
                       applyVars, leaderVars, rpcVars, restarts>>


\* Another leader's entry is where command c was appended.
overwritten(c) ==
  /\ prop[c].index <= lastLogIndexLocked(prop[c].at)
  /\ termAtLocked(prop[c].at, prop[c].index) # prop[c].term

\* One look of waitForApply that ends the Propose call.
waitForApply(c) ==
  LET i       == prop[c].at
      applied == lastApplied[i] >= prop[c].index
      end(pc) == prop' = [prop EXCEPT ![c].pc = pc]
  IN  /\ prop[c].pc = "waiting"
      /\ \/ overwritten(c) /\ end("overwritten")
         \/ ~overwritten(c) /\ applied /\ end("ok")
         \/ ~overwritten(c) /\ ~applied /\ state[i] # "Leader" /\ end("notLeader")
      /\ UNCHANGED <<electionVars, voteVars, logVars, commitIndex, applyVars, leaderVars,
                     rpcVars, proposeCh, restarts>>

-----------------------------------------------------------------------------
(* The apply loop (apply.go).                                              *)

\* Mutant: entries between the one taken and commitIndex are passed over.
applyPendingSkipping(i) ==
  LET next == lastApplied[i] + 1
  IN  /\ applier[i].pc = "idle"
      /\ lastApplied[i] < commitIndex[i]
      /\ next - logBaseIndex[i] \in DOMAIN log[i]
      /\ lastApplied' = [lastApplied EXCEPT ![i] = commitIndex[i]]
      /\ applier' = [applier EXCEPT ![i] =
                       [Idle EXCEPT !.pc = "apply", !.entry = log[i][next - logBaseIndex[i]]]]
      /\ UNCHANGED <<electionVars, voteVars, logVars, commitIndex, sm, leaderVars, rpcVars,
                     clientVars, restarts>>

\* applyPending takes the next committed entry while it holds the mutex ...
applyPending(i) ==
  LET next == lastApplied[i] + 1
  IN  /\ applier[i].pc = "idle"
      /\ lastApplied[i] < commitIndex[i]
      /\ next - logBaseIndex[i] \in DOMAIN log[i]
      /\ lastApplied' = [lastApplied EXCEPT ![i] = next]
      /\ applier' = [applier EXCEPT ![i] =
                       [Idle EXCEPT !.pc = "apply", !.entry = log[i][next - logBaseIndex[i]]]]
      /\ UNCHANGED <<electionVars, voteVars, logVars, commitIndex, sm, leaderVars, rpcVars,
                     clientVars, restarts>>

\* ... and applies it after it released it.
Apply(i) ==
  /\ applier[i].pc = "apply"
  /\ sm' = [sm EXCEPT ![i] = Append(@, applier[i].entry.cmd)]
  /\ applier' = [applier EXCEPT ![i] = Idle]
  /\ UNCHANGED <<electionVars, voteVars, logVars, commitIndex, lastApplied, leaderVars,
                 rpcVars, clientVars, restarts>>

\* maybeSnapshot picks the boundary while it holds the mutex.
maybeSnapshot(i) ==
  /\ applier[i].pc = "idle"
  /\ lastApplied[i] >= commitIndex[i]
  /\ SnapshotThreshold > 0
  /\ lastApplied[i] > logBaseIndex[i]
  /\ lastApplied[i] - logBaseIndex[i] >= SnapshotThreshold
  /\ applier' = [applier EXCEPT ![i] =
                   [Idle EXCEPT !.pc = "take", !.index = lastApplied[i],
                                !.term = termAtLocked(i, lastApplied[i])]]
  /\ UNCHANGED <<electionVars, voteVars, logVars, commitIndex, lastApplied, sm, leaderVars,
                 rpcVars, clientVars, restarts>>

\* StateMachine.Snapshot, with the mutex released.
TakeSnapshot(i) ==
  /\ applier[i].pc = "take"
  /\ applier' = [applier EXCEPT ![i].pc = "save", ![i].data = sm[i]]
  /\ UNCHANGED <<electionVars, voteVars, logVars, commitIndex, lastApplied, sm, leaderVars,
                 rpcVars, clientVars, restarts>>

\* SaveSnapshot, with the mutex released.
SaveOwnSnapshot(i) ==
  /\ applier[i].pc = "save"
  /\ disk' = [disk EXCEPT ![i] =
                FS!SaveSnapshot(@, applier[i].index, applier[i].term, applier[i].data)]
  /\ applier' = [applier EXCEPT ![i].pc = "discard"]
  /\ UNCHANGED <<electionVars, voteVars, log, logBaseIndex, logBaseTerm, commitIndex,
                 lastApplied, sm, leaderVars, rpcVars, clientVars, restarts>>

\* Mutants: one entry too few, or one too many, is dropped.
withoutPrefixButOne(i, index) ==
  SubSeq(log[i], Min({index - logBaseIndex[i], Len(log[i])}), Len(log[i]))

withoutPrefixAndOne(i, index) ==
  SubSeq(log[i], Min({index - logBaseIndex[i], Len(log[i])}) + 2, Len(log[i]))

\* The log without its entries through index.
withoutPrefix(i, index) ==
  SubSeq(log[i], Min({index - logBaseIndex[i], Len(log[i])}) + 1, Len(log[i]))

discardLogPrefixLocked(i) ==
  LET index == Min({applier[i].index, lastLogIndexLocked(i)})
  IN  /\ applier[i].pc = "discard"
      /\ applier' = [applier EXCEPT ![i] = Idle]
      /\ IF applier[i].index <= logBaseIndex[i] THEN UNCHANGED logVars
         ELSE /\ log'          = [log EXCEPT ![i] = withoutPrefix(i, index)]
              /\ logBaseIndex' = [logBaseIndex EXCEPT ![i] = index]
              /\ logBaseTerm'  = [logBaseTerm EXCEPT ![i] = applier[i].term]
              /\ disk'         = [disk EXCEPT ![i] = FS!DiscardLogThrough(@, index)]
      /\ UNCHANGED <<electionVars, voteVars, commitIndex, lastApplied, sm, leaderVars,
                     rpcVars, clientVars, restarts>>

-----------------------------------------------------------------------------
(* Crashes.  NewNode rebuilds a node from what its files hold; everything  *)
(* else is gone, the goroutines that waited for replies included.          *)

\* The requests that node i waits for and no handler has taken.
Outstanding(i) ==
  {call[i][j].req : j \in {k \in Node : call[i][k].stage = "sent"}}
    \cup {r \in voteReqs : r.from = i}

\* Node i restarts from the given contents of its files.
NewNode(i, st, fs) ==
  /\ restarts < MaxRestarts
  /\ restarts'     = restarts + 1
  /\ stable'       = [stable EXCEPT ![i] = st]
  /\ currentTerm'  = [currentTerm EXCEPT ![i] = st.term]
  /\ votedFor'     = [votedFor EXCEPT ![i] = st.votedFor]
  /\ state'        = [state EXCEPT ![i] = "Follower"]
  /\ leaderID'     = [leaderID EXCEPT ![i] = None]
  /\ votes'        = [votes EXCEPT ![i] = {}]
  /\ disk'         = [disk EXCEPT ![i] = FS!OpenFileStorage(fs.file, fs.snapshot)]
  /\ log'          = [log EXCEPT ![i] = disk'[i].loaded]
  /\ logBaseIndex' = [logBaseIndex EXCEPT ![i] = fs.snapshot.index]
  /\ logBaseTerm'  = [logBaseTerm EXCEPT ![i] = fs.snapshot.term]
  /\ commitIndex'  = [commitIndex EXCEPT ![i] = fs.snapshot.index]
  /\ lastApplied'  = [lastApplied EXCEPT ![i] = fs.snapshot.index]
  /\ sm'           = [sm EXCEPT ![i] = fs.snapshot.data]
  /\ applier'      = [applier EXCEPT ![i] = Idle]
  /\ nextIndex'    = [nextIndex EXCEPT ![i] = [j \in Node |-> 0]]
  /\ matchIndex'   = [matchIndex EXCEPT ![i] = [j \in Node |-> 0]]
  /\ installs'     = [j \in Node |->
                        IF j = i THEN {}
                        ELSE {IF h.req.from = i THEN [h EXCEPT !.waited = FALSE] ELSE h :
                                h \in installs[j]}]
  /\ voteReqs'     = {r \in voteReqs : r.from # i}
  /\ voteReps'     = {p \in voteReps : p.req.from # i}
  /\ proposeCh'    = [proposeCh EXCEPT ![i] = <<>>]
  /\ prop'         = [c \in Command |->
                        IF prop[c].at = i /\ prop[c].pc \in {"queued", "waiting"}
                        THEN [prop[c] EXCEPT !.pc = "lost"] ELSE prop[c]]
  /\ UNCHANGED elected

\* Requests of i that stay in the network when i is gone.
leaveLate(i, from) ==
  \E stay \in SUBSET Outstanding(i) :
    /\ Cardinality(from \cup stay) <= MaxLate
    /\ late' = from \cup stay

\* The process dies between two steps.
Crash(i) ==
  /\ NewNode(i, stable[i], disk[i])
  /\ call' = [call EXCEPT ![i] = [j \in Node |-> NoCall]]
  /\ leaveLate(i, late)

\* The process dies in HandleRequestVote after the save of the newer term
\* and before the save of the vote.
CrashInRequestVote(r) ==
  LET i == r.to
  IN  /\ r.term > currentTerm[i] /\ grantsVote(i, r)
      /\ r \in voteReqs \cup late
      /\ NewNode(i, [term |-> r.term, votedFor |-> None], disk[i])
      /\ call' = [call EXCEPT ![i] = [j \in Node |-> NoCall]]
      /\ leaveLate(i, late \ {r})

\* The process dies in HandleAppendEntries after the log file was truncated
\* and after some, but not all, of the new entries were written; the write
\* of the next one may have left a torn frame.
CrashInAppendEntries(r) ==
  LET i    == r.to
      term == IF r.term > currentTerm[i] THEN [term |-> r.term, votedFor |-> None]
              ELSE stable[i]
      new  == newEntries(i, r)
  IN  /\ r.type = "AE" /\ r.term >= currentTerm[i]
      /\ ConflictIndex(i, r) = 0 /\ Missing(i, r) # {}
      /\ \E n \in 0..(Len(new) - 1), torn \in {<<>>, <<Torn>>} :
           NewNode(i, term, FS!AppendEntries(truncatedDisk(i, appendAt(i, r)),
                                             SubSeq(new, 1, n) \o torn))
      /\ call' = [j \in Node |->
                    IF j = i THEN [k \in Node |-> NoCall]
                    ELSE IF call[j][i].stage = "sent" /\ call[j][i].req = r
                    THEN [call[j] EXCEPT ![i].stage = "handling"] ELSE call[j]]
      /\ leaveLate(i, late \ {r})

-----------------------------------------------------------------------------
Init ==
  /\ state        = [i \in Node |-> "Follower"]
  /\ currentTerm  = [i \in Node |-> 0]
  /\ votedFor     = [i \in Node |-> None]
  /\ leaderID     = [i \in Node |-> None]
  /\ stable       = [i \in Node |-> [term |-> 0, votedFor |-> None]]
  /\ votes        = [i \in Node |-> {}]
  /\ voteReqs     = {}
  /\ voteReps     = {}
  /\ elected      = {}
  /\ log          = [i \in Node |-> <<>>]
  /\ logBaseIndex = [i \in Node |-> 0]
  /\ logBaseTerm  = [i \in Node |-> 0]
  /\ disk         = [i \in Node |-> FS!OpenFileStorage(<<>>, FS!NoSnapshot)]
  /\ commitIndex  = [i \in Node |-> 0]
  /\ lastApplied  = [i \in Node |-> 0]
  /\ applier      = [i \in Node |-> Idle]
  /\ sm           = [i \in Node |-> <<>>]
  /\ nextIndex    = [i \in Node |-> [j \in Node |-> 0]]
  /\ matchIndex   = [i \in Node |-> [j \in Node |-> 0]]
  /\ call         = [i \in Node |-> [j \in Node |-> NoCall]]
  /\ late         = {}
  /\ installs     = [i \in Node |-> {}]
  /\ proposeCh    = [i \in Node |-> <<>>]
  /\ prop         = [c \in Command |-> NewPropose]
  /\ restarts     = 0

Next ==
  \/ \E i \in Node : startElectionLocked(i)
  \/ \E r \in voteReqs \cup {q \in late : q.type = "RV"} :
       HandleRequestVote(r) \/ CrashInRequestVote(r)
  \/ \E p \in voteReps : HandleVoteReply(p)
  \/ \E i, j \in Node : \/ sendAppendEntriesTo(i, j)
                        \/ HandleAppendEntriesReply(i, j)
                        \/ sendInstallSnapshotTo(i, j)
                        \/ HandleInstallSnapshotReply(i, j)
                        \/ RPCTimeout(i, j)
  \/ \E r \in Deliverable : \/ HandleAppendEntries(r)
                            \/ CrashInAppendEntries(r)
                            \/ HandleInstallSnapshot(r)
  \/ \E i \in Node : \E h \in installs[i] : \/ InstallSave(i, h)
                                            \/ InstallRestore(i, h)
                                            \/ InstallFinish(i, h)
  \/ \E i \in Node, c \in Command : Propose(i, c)
  \/ \E c \in Command : waitForApply(c)
  \/ \E i \in Node : \/ appendBatch(i)
                     \/ applyPending(i)
                     \/ Apply(i)
                     \/ maybeSnapshot(i)
                     \/ TakeSnapshot(i)
                     \/ SaveOwnSnapshot(i)
                     \/ discardLogPrefixLocked(i)
                     \/ Crash(i)

Spec == Init /\ [][Next]_vars


\* The loops of a node keep running, and of the calls a replication loop
\* makes again and again some get through and are answered in time.  Nothing
\* is assumed of elections, timeouts or crashes.
Fairness ==
  /\ \A i \in Node : /\ WF_vars(appendBatch(i))
                     /\ WF_vars(applyPending(i))
                     /\ WF_vars(Apply(i))
  /\ \A i, j \in Node : /\ WF_vars(sendAppendEntriesTo(i, j))
                        /\ SF_vars(\E r \in Deliverable : /\ r.from = i /\ r.to = j
                                                          /\ HandleAppendEntries(r))
                        /\ SF_vars(HandleAppendEntriesReply(i, j))
  /\ \A c \in Command : WF_vars(waitForApply(c))

FairSpec == Spec /\ Fairness

-----------------------------------------------------------------------------
(* What is checked.                                                        *)

Entry == [term : Nat \ {0}, index : Nat \ {0}, cmd : Command]

RVRequest == [type : {"RV"}, from : Node, to : Node, term : Nat,
              lastLogIndex : Nat, lastLogTerm : Nat]
AERequest == [type : {"AE"}, from : Node, to : Node, term : Nat, prevLogIndex : Nat,
              prevLogTerm : Nat, entries : Seq(Entry), leaderCommit : Nat]
ISRequest == [type : {"IS"}, from : Node, to : Node, term : Nat,
              lastIncludedIndex : Nat, lastIncludedTerm : Nat, data : Seq(Command)]
RVReply   == [req : RVRequest, term : Nat, granted : BOOLEAN]
AEReply   == [term : Nat, success : BOOLEAN, conflictIndex : Nat]
ISReply   == [term : Nat]
Snapshot  == [index : Nat, term : Nat, data : Seq(Command)]

CallOK(i, j, c) ==
  \/ c = NoCall
  \/ c.stage = "load" /\ c.req \in Nat
  \/ c.stage \in {"sent", "handling"} /\ c.req \in AERequest \cup ISRequest
  \/ c.stage = "replied" /\ c.req \in AERequest /\ c.rep \in AEReply
  \/ c.stage = "replied" /\ c.req \in ISRequest /\ c.rep \in ISReply

\* Every variable has the shape the code's types give it.
TypeOK ==
  /\ state \in [Node -> {"Follower", "Candidate", "Leader"}]
  /\ currentTerm \in [Node -> Nat]
  /\ votedFor \in [Node -> Node \cup {None}]
  /\ leaderID \in [Node -> Node \cup {None}]
  /\ stable \in [Node -> [term : Nat, votedFor : Node \cup {None}]]
  /\ votes \in [Node -> SUBSET Node]
  /\ voteReqs \subseteq RVRequest
  /\ voteReps \subseteq RVReply
  /\ elected \subseteq [term : Nat, leader : Node, voters : SUBSET Node]
  /\ log \in [Node -> Seq(Entry)]
  /\ logBaseIndex \in [Node -> Nat]
  /\ logBaseTerm \in [Node -> Nat]
  /\ commitIndex \in [Node -> Nat]
  /\ lastApplied \in [Node -> Nat]
  /\ sm \in [Node -> Seq(Command)]
  /\ \A i \in Node : /\ applier[i].pc \in {"idle", "apply", "take", "save", "discard"}
                     /\ applier[i].entry \in Entry \cup {None}
                     /\ [index |-> applier[i].index, term |-> applier[i].term,
                         data |-> applier[i].data] \in Snapshot
                     /\ disk[i].snapshot \in Snapshot
                     /\ disk[i].loaded \in Seq(Entry)
                     /\ proposeCh[i] \in Seq(Command)
  /\ nextIndex \in [Node -> [Node -> Nat]]
  /\ matchIndex \in [Node -> [Node -> Nat]]
  /\ \A i, j \in Node : CallOK(i, j, call[i][j])
  /\ late \subseteq RVRequest \cup AERequest \cup ISRequest
  /\ installs \in [Node -> SUBSET [req : ISRequest, pc : {"save", "restore", "finish"},
                                   waited : BOOLEAN]]
  /\ prop \in [Command -> [pc : {"new", "queued", "waiting", "ok", "overwritten",
                                 "notLeader", "lost"},
                           at : Node \cup {None}, index : Nat, term : Nat]]
  /\ restarts \in 0..MaxRestarts

\* Every vote that still matters: one on its way to its candidate, one an
\* election under way has counted, or one that won an election.
castVotes ==
  LET sent    == {p \in voteReps : p.granted}
      running == {i \in Node : state[i] = "Candidate"}
      cast(j, i, term) == [voter |-> j, candidate |-> i, term |-> term]
  IN  {cast(p.req.to, p.req.from, p.req.term) : p \in sent}
      \cup (UNION {{cast(j, i, currentTerm[i]) : j \in votes[i]} : i \in running})
      \cup (UNION {{cast(j, e.leader, e.term) : j \in e.voters} : e \in elected})

\* A vote binds the voter: it remembers the vote (in memory and in
\* raft-state.json, so also after a crash) until it moves to a newer term,
\* and no two votes of one voter in one term go to different candidates.
VotesBind ==
  /\ \A i \in Node : stable[i] = [term |-> currentTerm[i], votedFor |-> votedFor[i]]
  /\ \A v \in castVotes :
       \/ currentTerm[v.voter] > v.term
       \/ currentTerm[v.voter] = v.term /\ votedFor[v.voter] = v.candidate
  /\ \A v, w \in castVotes :
       v.voter = w.voter /\ v.term = w.term => v.candidate = w.candidate

\* No term has two winners, at the same time or one after the other: the
\* promise docs/raft.md makes under "Election Safety".
ElectionSafety ==
  \A e, f \in elected : e.term = f.term => e.leader = f.leader

\* The leader a follower names (in Status, and to the clients it turns away)
\* won the election of the term the follower is in.
LeaderHintIsTrue ==
  \A i \in Node :
    state[i] = "Follower" /\ leaderID[i] # None =>
      \E e \in elected : e.term = currentTerm[i] /\ e.leader = leaderID[i]

\* Two logs that hold an entry of the same index and term hold the same
\* entries up to it, as far as both still keep them: what the consistency
\* check of HandleAppendEntries is for.
LogMatching ==
  \A i, j \in Node : \A a \in DOMAIN log[i], b \in DOMAIN log[j] :
    log[i][a].index = log[j][b].index /\ log[i][a].term = log[j][b].term =>
      \A k \in 0..(Min({a, b}) - 1) : log[i][a - k] = log[j][b - k]

\* The commands of a node's whole log, the compacted ones (which its snapshot
\* covers, and a snapshot saved before its prefix is discarded covers more)
\* included.
history(i) ==
  SubSeq(disk[i].snapshot.data, 1, Min({logBaseIndex[i], Len(disk[i].snapshot.data)}))
    \o [k \in DOMAIN log[i] |-> log[i][k].cmd]

\* The part of it the node knows to be committed.
committedBy(i) == SubSeq(history(i), 1, Min({commitIndex[i], Len(history(i))}))

IsPrefixOf(s, t) == Len(s) <= Len(t) /\ s = SubSeq(t, 1, Len(s))

\* A leader's log holds whatever any node of its term or an earlier one
\* regards as committed: what logOK in HandleRequestVote and the rule of
\* maybeAdvanceCommitIndexLocked are for.
LeaderCompleteness ==
  \A i, j \in Node :
    state[i] = "Leader" /\ currentTerm[j] <= currentTerm[i] =>
      IsPrefixOf(committedBy(j), history(i))

\* What a node regards as committed is never taken back or replaced while it
\* runs (a restart forgets it, and learns it again).
CommittedIsFinal ==
  [][\/ UNCHANGED <<logVars, commitIndex>>
     \/ restarts' > restarts
     \/ \A i \in Node : IsPrefixOf(committedBy(i), committedBy(i)')]_vars

\* The invariant log.go states of its slice: position k of the log holds the
\* entry of index logBaseIndex + k.
LogIndexed ==
  \A i \in Node : \A k \in DOMAIN log[i] : log[i][k].index = logBaseIndex[i] + k

\* A node holds every entry it may still apply: commitIndex never passes the
\* end of the log, so applyPending never indexes the slice out of range (the
\* process would panic).
CommittedIsHeld ==
  \A i \in Node : commitIndex[i] <= logBaseIndex[i] + Len(log[i])

\* Reopening the log file at any moment gives the log the node has in memory.
RestartKeepsLog ==
  \A i \in Node : FS!OpenFileStorage(disk[i].file, disk[i].snapshot).loaded = log[i]

\* The state machines of any two nodes have applied the same commands in the
\* same order, one possibly fewer than the other.
StateMachineSafety ==
  \A i, j \in Node : IsPrefixOf(sm[i], sm[j]) \/ IsPrefixOf(sm[j], sm[i])

\* Committed entries are applied in order, exactly once each (the contract of
\* StateMachine in interfaces.go): while no snapshot is being installed, the
\* state machine reflects the entries through lastApplied, less the one the
\* apply loop has taken and not applied yet.
AppliedExactly ==
  \A i \in Node :
    installs[i] = {} =>
      sm[i] = SubSeq(history(i), 1,
                     lastApplied[i] - (IF applier[i].pc = "apply" THEN 1 ELSE 0))

\* A command that Propose reported as applied is, from then on, at its index
\* in the log (or snapshot) of a majority, whoever leads or crashes.
AcknowledgedIsDurable ==
  \A c \in Command : prop[c].pc = "ok" =>
    Cardinality({j \in Node : /\ prop[c].index <= Len(history(j))
                              /\ history(j)[prop[c].index] = c}) >= majority


\* Every proposal a leader queued comes to an end.
ProposalsEnd ==
  \A c \in Command : prop[c].pc = "queued" ~> prop[c].pc \notin {"queued", "waiting"}

=============================================================================
