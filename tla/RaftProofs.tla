----------------------------- MODULE RaftProofs -----------------------------
(***************************************************************************)
(* Election safety of Raft, for every cluster size and every value of the  *)
(* bounds: votes bind across crashes, no term has two leaders, and the     *)
(* leader a follower names is the one its term elected.                    *)
(*                                                                         *)
(* The inductive invariant is Inv.  VotesBind is its heart; what it needs  *)
(* beside it is that every election was won by a majority (Quorums), that  *)
(* only a leader's requests travel (CallsOK) and that a leader was elected *)
(* (LeadersWon).  Nothing is said of logs: the proof holds whatever the    *)
(* rest of the node does to them.                                          *)
(***************************************************************************)
EXTENDS Raft, FiniteSetTheorems, TLAPS

Addressed(r) == r.from \in Node /\ r.to \in Node /\ r.term \in Nat

\* The types of the variables elections use.
VoteTypes ==
  /\ state \in [Node -> {"Follower", "Candidate", "Leader"}]
  /\ currentTerm \in [Node -> Nat]
  /\ votedFor \in [Node -> Node \cup {None}]
  /\ leaderID \in [Node -> Node \cup {None}]
  /\ stable \in [Node -> [term : Nat, votedFor : Node \cup {None}]]
  /\ votes \in [Node -> SUBSET Node]
  /\ \A r \in voteReqs : Addressed(r) /\ r.type = "RV"
  /\ \A p \in voteReps : Addressed(p.req) /\ p.term \in Nat
  /\ elected \subseteq [term : Nat, leader : Node, voters : SUBSET Node]

Won(term, i) == \E e \in elected : e.term = term /\ e.leader = i

\* A replication request comes from the leader its term elected.
RequestOK(r) == Addressed(r) /\ (r.type # "RV" => Won(r.term, r.from))

WaitsOK(i, c) ==
  /\ c = [stage |-> c.stage, req |-> c.req, rep |-> c.rep]
  /\ c.stage = "load" => c.req \in Nat /\ Won(c.req, i)
  /\ c.stage = "sent" => RequestOK(c.req) /\ c.req.type # "RV"
  /\ c.stage = "replied" => c.rep.term \in Nat

CallsOK ==
  /\ call = [i \in Node |-> [j \in Node |-> call[i][j]]]
  /\ \A i, j \in Node : WaitsOK(i, call[i][j])
  /\ \A r \in late : RequestOK(r)

LeadersWon == \A i \in Node : state[i] = "Leader" => Won(currentTerm[i], i)

Quorums == \A e \in elected : Cardinality(e.voters) >= majority

Inv == VoteTypes /\ VotesBind /\ Quorums /\ CallsOK /\ LeadersWon /\ LeaderHintIsTrue

-----------------------------------------------------------------------------
(* Votes.                                                                  *)

SentVote(v) ==
  \E p \in voteReps : p.granted /\ v = [voter |-> p.req.to, candidate |-> p.req.from,
                                        term |-> p.req.term]
CountedVote(v) ==
  \E i \in Node : state[i] = "Candidate" /\ \E j \in votes[i] :
    v = [voter |-> j, candidate |-> i, term |-> currentTerm[i]]
WinningVote(v) ==
  \E e \in elected : \E j \in e.voters :
    v = [voter |-> j, candidate |-> e.leader, term |-> e.term]

VoteCases ==
  \A v : v \in castVotes <=> SentVote(v) \/ CountedVote(v) \/ WinningVote(v)

\* The votes that matter, as a case distinction.
LEMMA CastVotes == VoteCases
  <1> SUFFICES ASSUME NEW v
               PROVE  v \in castVotes <=> SentVote(v) \/ CountedVote(v) \/ WinningVote(v)
    BY DEF VoteCases
  <1> DEFINE sent    == {p \in voteReps : p.granted}
             running == {i \in Node : state[i] = "Candidate"}
             cast(j, i, term) == [voter |-> j, candidate |-> i, term |-> term]
             A == {cast(p.req.to, p.req.from, p.req.term) : p \in sent}
             B == UNION {{cast(j, i, currentTerm[i]) : j \in votes[i]} : i \in running}
             C == UNION {{cast(j, e.leader, e.term) : j \in e.voters} : e \in elected}
  <1>1. v \in A <=> SentVote(v)
    BY Zenon DEF SentVote
  <1>2. v \in B <=> CountedVote(v)
    <2>1. v \in B <=> \E i \in running : v \in {cast(j, i, currentTerm[i]) : j \in votes[i]}
      OBVIOUS
    <2> QED BY <2>1, Zenon DEF CountedVote
  <1>3. v \in C <=> WinningVote(v)
    <2>1. v \in C <=> \E e \in elected : v \in {cast(j, e.leader, e.term) : j \in e.voters}
      OBVIOUS
    <2> QED BY <2>1, Zenon DEF WinningVote
  <1>4. castVotes = (A \cup B) \cup C
    BY Zenon DEF castVotes
  <1> QED BY <1>1, <1>2, <1>3, <1>4, Zenon

VotesTyped ==
  \A v \in castVotes : v.voter \in Node /\ v.candidate \in Node /\ v.term \in Nat

\* Voters and candidates are nodes.
LEMMA CastVotesType == VoteTypes => VotesTyped
  <1> SUFFICES ASSUME VoteTypes, NEW v \in castVotes
               PROVE  v.voter \in Node /\ v.candidate \in Node /\ v.term \in Nat
    BY DEF VotesTyped
  <1>1. CASE SentVote(v)
    BY <1>1 DEF SentVote, VoteTypes, Addressed
  <1>2. CASE CountedVote(v)
    BY <1>2 DEF CountedVote, VoteTypes
  <1>3. CASE WinningVote(v)
    BY <1>3 DEF WinningVote, VoteTypes
  <1> QED BY <1>1, <1>2, <1>3, CastVotes, Zenon DEF VoteCases

\* What a step must respect for votes to go on binding: terms do not
\* decrease, within a term a vote is only given once, raft-state.json is kept
\* up to date and a new vote is that of its voter's present term.
VoteStep ==
  /\ \A i \in Node : /\ currentTerm'[i] >= currentTerm[i]
                     /\ currentTerm'[i] = currentTerm[i] =>
                          votedFor'[i] = votedFor[i] \/ votedFor[i] = None
                     /\ stable'[i] = [term |-> currentTerm'[i], votedFor |-> votedFor'[i]]
  /\ \A v \in castVotes' : \/ v \in castVotes
                           \/ /\ currentTerm'[v.voter] = v.term
                              /\ votedFor'[v.voter] = v.candidate

LEMMA VotesGoOnBinding ==
  ASSUME VoteTypes, VoteTypes', VotesBind, VoteStep
  PROVE  VotesBind'
  <1>1. VotesTyped'
    BY CastVotesType, PTL
  <1>2. ASSUME NEW v \in castVotes'
        PROVE  \/ currentTerm'[v.voter] > v.term
               \/ currentTerm'[v.voter] = v.term /\ votedFor'[v.voter] = v.candidate
    <2>1. v.voter \in Node /\ v.candidate \in Node /\ v.term \in Nat
      BY <1>1, <1>2 DEF VotesTyped
    <2>2. CASE v \in castVotes
      <3>1. \/ currentTerm[v.voter] > v.term
            \/ currentTerm[v.voter] = v.term /\ votedFor[v.voter] = v.candidate
        BY <2>2 DEF VotesBind
      <3>2. v.candidate # None
        BY <2>1, RaftAssumption
      <3>3. currentTerm[v.voter] \in Nat /\ currentTerm'[v.voter] \in Nat
        BY <2>1 DEF VoteTypes
      <3>4. /\ currentTerm'[v.voter] >= currentTerm[v.voter]
            /\ currentTerm'[v.voter] = currentTerm[v.voter] =>
                 votedFor'[v.voter] = votedFor[v.voter] \/ votedFor[v.voter] = None
        BY <2>1, Zenon DEF VoteStep
      <3> QED BY <2>1, <3>1, <3>2, <3>3, <3>4
    <2> QED BY <2>2, <1>2 DEF VoteStep
  <1>3. ASSUME NEW v \in castVotes', NEW w \in castVotes', v.voter = w.voter, v.term = w.term
        PROVE  v.candidate = w.candidate
    <2>1. v.voter \in Node /\ v.term \in Nat
      BY <1>1, <1>3 DEF VotesTyped
    <2>2. CASE v \in castVotes /\ w \in castVotes
      BY <2>2, <1>3 DEF VotesBind
    <2>3. CASE ~(v \in castVotes /\ w \in castVotes)
      BY <2>1, <2>3, <1>2, <1>3 DEF VoteStep, VoteTypes
    <2> QED BY <2>2, <2>3
  <1>4. \A i \in Node : stable'[i] = [term |-> currentTerm'[i], votedFor |-> votedFor'[i]]
    BY Zenon DEF VoteStep
  <1> QED BY <1>2, <1>3, <1>4 DEF VotesBind

\* A step that sends, counts and wins no vote adds none.
LEMMA NoNewVotes ==
  ASSUME voteReps' \subseteq voteReps, elected' = elected,
         \A i \in Node : state'[i] = "Candidate" =>
           /\ state[i] = "Candidate" /\ currentTerm'[i] = currentTerm[i]
           /\ votes'[i] \subseteq votes[i]
  PROVE  castVotes' \subseteq castVotes
  <1> SUFFICES ASSUME NEW v \in castVotes'
               PROVE  SentVote(v) \/ CountedVote(v) \/ WinningVote(v)
    BY CastVotes, Zenon DEF VoteCases
  <1>1. SentVote(v)' \/ CountedVote(v)' \/ WinningVote(v)'
    <2>1. VoteCases'
      BY CastVotes, PTL
    <2> QED BY <2>1, Zenon DEF VoteCases
  <1>2. CASE SentVote(v)'
    BY <1>2, Zenon DEF SentVote
  <1>3. CASE CountedVote(v)'
    BY <1>3 DEF CountedVote
  <1>4. CASE WinningVote(v)'
    BY <1>4 DEF WinningVote
  <1> QED BY <1>1, <1>2, <1>3, <1>4

\* Any two elections won share a voter.
LEMMA QuorumsMeet ==
  ASSUME VoteTypes, Quorums, NEW e \in elected, NEW f \in elected
  PROVE  \E j \in Node : j \in e.voters /\ j \in f.voters
  <1>1. e.voters \subseteq Node /\ f.voters \subseteq Node
    BY DEF VoteTypes
  <1>2. Cardinality(Node) \in Nat
    BY FS_CardinalityType, RaftAssumption
  <1>3. /\ Cardinality(e.voters) \in Nat /\ Cardinality(f.voters) \in Nat
    BY <1>1, FS_Subset, FS_CardinalityType, RaftAssumption
  <1>4. Cardinality(e.voters) + Cardinality(f.voters) > Cardinality(Node)
    BY <1>2, <1>3 DEF Quorums, majority
  <1>5. e.voters \cap f.voters # {}
    BY <1>1, <1>4, FS_MajoritiesIntersect, RaftAssumption, Zenon
  <1> QED BY <1>1, <1>5

\* ElectionSafety follows from the invariant.
LEMMA OneWinner ==
  ASSUME VoteTypes, VotesBind, Quorums
  PROVE  ElectionSafety
  <1> SUFFICES ASSUME NEW e \in elected, NEW f \in elected, e.term = f.term
               PROVE  e.leader = f.leader
    BY DEF ElectionSafety
  <1>1. PICK j \in Node : j \in e.voters /\ j \in f.voters
    BY QuorumsMeet
  <1> DEFINE v == [voter |-> j, candidate |-> e.leader, term |-> e.term]
             w == [voter |-> j, candidate |-> f.leader, term |-> f.term]
  <1>2. v \in castVotes /\ w \in castVotes
    BY <1>1, CastVotes, Zenon DEF VoteCases, WinningVote
  <1> QED BY <1>2 DEF VotesBind

-----------------------------------------------------------------------------
(* Calls.                                                                  *)

\* Elections once won stay won.
LEMMA WonIsKept ==
  ASSUME elected \subseteq elected', NEW t, NEW i, Won(t, i)
  PROVE  Won(t, i)'
  BY DEF Won

\* What a step must respect for calls to stay those of elected leaders.
LEMMA CallsStayOK ==
  ASSUME CallsOK, elected \subseteq elected',
         call' = [i \in Node |-> [j \in Node |-> call'[i][j]]],
         \A i, j \in Node : call'[i][j] = call[i][j] \/ WaitsOK(i, call[i][j])',
         \A r \in late' : r \in late \/ RequestOK(r)'
  PROVE  CallsOK'
  <1>1. ASSUME NEW i \in Node, NEW j \in Node PROVE WaitsOK(i, call[i][j])'
    <2>1. CASE call'[i][j] = call[i][j]
      <3>1. WaitsOK(i, call[i][j])
        BY DEF CallsOK
      <3> QED BY <2>1, <3>1, WonIsKept DEF WaitsOK, RequestOK, Addressed
    <2> QED BY <2>1
  <1>2. ASSUME NEW r \in late' PROVE RequestOK(r)'
    <2>1. CASE r \in late
      BY <2>1, WonIsKept DEF CallsOK, RequestOK, Addressed
    <2> QED BY <2>1, <1>2
  <1> QED BY <1>1, <1>2 DEF CallsOK

\* A loop that gets its answer, or gives up, leaves the other calls alone.
LEMMA CallEnds ==
  ASSUME CallsOK, UNCHANGED elected, NEW i \in Node, NEW j \in Node,
         call' = [call EXCEPT ![i][j] = NoCall],
         \A r \in late' : r \in late \/ RequestOK(r)'
  PROVE  CallsOK'
  <1>1. call' = [a \in Node |-> [b \in Node |-> call'[a][b]]]
    BY Zenon DEF CallsOK
  <1>2. \A a, b \in Node : call'[a][b] = call[a][b] \/ WaitsOK(a, call[a][b])'
    BY DEF CallsOK, WaitsOK, NoCall
  <1> QED BY <1>1, <1>2, CallsStayOK

\* A handler that takes a request answers it with a term.
LEMMA TakeKeepsCalls ==
  ASSUME CallsOK, UNCHANGED elected, NEW r, NEW rep, NEW stage, Take(r, stage, rep),
         stage \in {"handling", "replied"}, stage = "replied" => rep.term \in Nat
  PROVE  CallsOK'
  <1>1. call' = [a \in Node |-> [b \in Node |-> call'[a][b]]]
    BY DEF CallsOK, Take
  <1>2. \A a, b \in Node : call'[a][b] = call[a][b] \/ WaitsOK(a, call[a][b])'
    <2> SUFFICES ASSUME NEW a \in Node, NEW b \in Node
                 PROVE  call'[a][b] = call[a][b] \/ WaitsOK(a, call[a][b])'
      OBVIOUS
    <2>1. CASE UNCHANGED call
      BY <2>1
    <2>2. CASE call' = [call EXCEPT ![r.from][r.to] =
                          [stage |-> stage, req |-> r, rep |-> rep]]
      <3>1. CASE a = r.from /\ b = r.to
        <4>1. call'[a][b] = [stage |-> stage, req |-> r, rep |-> rep]
          BY <2>2, <3>1 DEF CallsOK
        <4> QED BY <4>1 DEF WaitsOK
      <3>2. CASE ~(a = r.from /\ b = r.to)
        BY <2>2, <3>2 DEF CallsOK
      <3> QED BY <3>1, <3>2
    <2> QED BY <2>1, <2>2 DEF Take
  <1>3. late' \subseteq late
    BY DEF Take
  <1> QED BY <1>1, <1>2, <1>3, CallsStayOK

\* What a handler is given.
LEMMA DeliverableOK ==
  ASSUME CallsOK, NEW r \in Deliverable
  PROVE  RequestOK(r) /\ r.type # "RV"
  <1>1. \/ \E p \in Node \X Node : call[p[1]][p[2]].stage = "sent" /\ r = call[p[1]][p[2]].req
        \/ r \in late /\ r.type # "RV"
    BY Zenon DEF Deliverable
  <1>2. ASSUME NEW p \in Node \X Node PROVE WaitsOK(p[1], call[p[1]][p[2]])
    <2>1. p[1] \in Node /\ p[2] \in Node
      OBVIOUS
    <2> QED BY <2>1 DEF CallsOK
  <1>3. \A q \in late : RequestOK(q)
    BY DEF CallsOK
  <1> QED BY <1>1, <1>2, <1>3, Zenon DEF WaitsOK

\* The shape of an answered call.
LEMMA RepliedShape ==
  ASSUME NEW c, NEW q, NEW t \in Nat,
         c = [stage |-> "replied", req |-> q, rep |-> [term |-> t]]
  PROVE  /\ c.stage = "replied" /\ c.rep.term \in Nat
         /\ c = [stage |-> c.stage, req |-> c.req, rep |-> c.rep]
  <1>1. c.stage = "replied" /\ c.req = q /\ c.rep = [term |-> t]
    OBVIOUS
  <1>2. c.rep.term \in Nat
    BY <1>1
  <1> QED BY <1>1, <1>2, Zenon

\* A crash ends every call its node was waiting for.
LEMMA CallsCleared ==
  ASSUME CallsOK, NEW i \in Node, call' = [call EXCEPT ![i] = [j \in Node |-> NoCall]]
  PROVE  /\ call' = [a \in Node |-> [b \in Node |-> call'[a][b]]]
         /\ \A a, b \in Node : call'[a][b] = call[a][b] \/ WaitsOK(a, call[a][b])'
  <1>1. call' = [a \in Node |-> [b \in Node |-> call'[a][b]]]
    BY DEF CallsOK
  <1>2. ASSUME NEW a \in Node, NEW b \in Node
        PROVE  call'[a][b] = call[a][b] \/ WaitsOK(a, call[a][b])'
    <2>1. CASE a = i
      <3>1. call'[a][b] = NoCall
        BY <2>1 DEF CallsOK
      <3> QED BY <3>1 DEF WaitsOK, NoCall
    <2>2. CASE a # i
      BY <2>2 DEF CallsOK
    <2> QED BY <2>1, <2>2
  <1> QED BY <1>1, <1>2

-----------------------------------------------------------------------------
(* Steps.  Three lemmas cover most actions: the node's election state does *)
(* not change, it falls back to follower, or it restarts.                  *)

\* What Inv says of a node's own vote.
LEMMA VotePersisted ==
  ASSUME Inv, NEW k \in Node
  PROVE  /\ stable[k] = [term |-> currentTerm[k], votedFor |-> votedFor[k]]
         /\ currentTerm[k] \in Nat
         /\ votedFor[k] \in Node \cup {None}
  <1>1. stable[k] = [term |-> currentTerm[k], votedFor |-> votedFor[k]]
    BY Zenon DEF Inv, VotesBind
  <1>2. currentTerm[k] \in Nat /\ votedFor[k] \in Node \cup {None}
    BY Zenon DEF Inv, VoteTypes
  <1> QED BY <1>1, <1>2

NewVotesAreOwn ==
  \A v \in castVotes' :
    \/ v \in castVotes
    \/ currentTerm'[v.voter] = v.term /\ votedFor'[v.voter] = v.candidate

\* A step in which no node changes its term or its vote.
LEMMA NobodyVotes ==
  ASSUME Inv, UNCHANGED <<currentTerm, votedFor, stable>>, NewVotesAreOwn
  PROVE  VoteStep
  <1>1. ASSUME NEW k \in Node
        PROVE  /\ currentTerm'[k] >= currentTerm[k]
               /\ stable'[k] = [term |-> currentTerm'[k], votedFor |-> votedFor'[k]]
    <2>1. stable[k] = [term |-> currentTerm[k], votedFor |-> votedFor[k]]
      BY VotePersisted, Zenon
    <2>2. currentTerm[k] \in Nat
      BY VotePersisted, Zenon
    <2>3. currentTerm[k] >= currentTerm[k]
      BY <2>2
    <2> QED BY <2>1, <2>3, Zenon
  <1> QED BY <1>1, Zenon DEF VoteStep, NewVotesAreOwn

\* A step in which one node moves to term t with the given vote.
LEMMA OneNodeVotes ==
  ASSUME Inv, NewVotesAreOwn, NEW i \in Node, NEW t \in Nat, NEW vote,
         t >= currentTerm[i],
         t = currentTerm[i] => vote = votedFor[i] \/ votedFor[i] = None,
         currentTerm' = [currentTerm EXCEPT ![i] = t],
         votedFor' = [votedFor EXCEPT ![i] = vote],
         stable' = [stable EXCEPT ![i] = [term |-> t, votedFor |-> vote]]
  PROVE  VoteStep
  <1>0. currentTerm \in [Node -> Nat] /\ DOMAIN votedFor = Node /\ DOMAIN stable = Node
    BY DEF Inv, VoteTypes
  <1>1. ASSUME NEW k \in Node
        PROVE  /\ currentTerm'[k] >= currentTerm[k]
               /\ currentTerm'[k] = currentTerm[k] =>
                    votedFor'[k] = votedFor[k] \/ votedFor[k] = None
               /\ stable'[k] = [term |-> currentTerm'[k], votedFor |-> votedFor'[k]]
    <2>1. CASE k = i
      <3>1. /\ currentTerm'[k] = t /\ votedFor'[k] = vote
            /\ stable'[k] = [term |-> t, votedFor |-> vote]
        BY <1>0, <2>1
      <3> QED BY <2>1, <3>1
    <2>2. CASE k # i
      <3>1. /\ currentTerm'[k] = currentTerm[k] /\ votedFor'[k] = votedFor[k]
            /\ stable'[k] = stable[k]
        BY <1>0, <2>2
      <3>2. /\ stable[k] = [term |-> currentTerm[k], votedFor |-> votedFor[k]]
            /\ currentTerm[k] \in Nat
        BY VotePersisted, Zenon
      <3> QED BY <3>1, <3>2
    <2> QED BY <2>1, <2>2
  <1> QED BY <1>1, Zenon DEF VoteStep, NewVotesAreOwn

LEMMA QuietStep ==
  ASSUME Inv, UNCHANGED <<electionVars, voteVars>>, CallsOK'
  PROVE  Inv'
  <1> USE DEF electionVars, voteVars
  <1>1. VoteTypes'
    BY DEF Inv, VoteTypes, Addressed
  <1>2. castVotes' \subseteq castVotes
    BY NoNewVotes
  <1>3. VoteStep
    <2>1. NewVotesAreOwn
      BY <1>2, Zenon DEF NewVotesAreOwn
    <2> QED BY <2>1, NobodyVotes
  <1>4. VotesBind'
    BY <1>1, <1>3, VotesGoOnBinding DEF Inv
  <1>5. Quorums' /\ LeadersWon' /\ LeaderHintIsTrue'
    BY DEF Inv, Quorums, LeadersWon, LeaderHintIsTrue, Won
  <1> QED BY <1>1, <1>4, <1>5 DEF Inv

\* becomeFollowerLocked, and the handlers of a leader's calls (l is then the
\* leader whose call it is).
LEMMA FollowStep ==
  ASSUME Inv, NEW i \in Node, NEW t \in Nat, NEW l \in Node \cup {None},
         adoptTerm(i, t),
         state' = [state EXCEPT ![i] = "Follower"],
         leaderID' = [leaderID EXCEPT ![i] = l],
         l # None => t >= currentTerm[i] /\ Won(t, l),
         voteReps' \subseteq voteReps, UNCHANGED <<votes, voteReqs, elected>>,
         CallsOK'
  PROVE  Inv'
  <1>1. VoteTypes'
    BY DEF Inv, VoteTypes, Addressed, adoptTerm
  <1>2. castVotes' \subseteq castVotes
    BY NoNewVotes DEF Inv, VoteTypes, adoptTerm
  <1>3. VoteStep
    <2>1. NewVotesAreOwn
      BY <1>2, Zenon DEF NewVotesAreOwn
    <2>2. CASE t > currentTerm[i]
      <3>1. /\ currentTerm' = [currentTerm EXCEPT ![i] = t]
            /\ votedFor' = [votedFor EXCEPT ![i] = None]
            /\ stable' = [stable EXCEPT ![i] = [term |-> t, votedFor |-> None]]
        BY <2>2, Zenon DEF adoptTerm
      <3>2. currentTerm[i] \in Nat
        BY VotePersisted, Zenon
      <3>3. t >= currentTerm[i] /\ t # currentTerm[i]
        BY <2>2, <3>2
      <3> QED BY <2>1, <3>1, <3>3, OneNodeVotes, Zenon
    <2>3. CASE ~(t > currentTerm[i])
      <3>1. UNCHANGED <<currentTerm, votedFor, stable>>
        BY <2>3 DEF adoptTerm, Inv, VoteTypes
      <3> QED BY <2>1, <3>1, NobodyVotes
    <2> QED BY <2>2, <2>3
  <1>4. VotesBind'
    BY <1>1, <1>3, VotesGoOnBinding DEF Inv
  <1>5. Quorums'
    BY DEF Inv, Quorums
  <1>6. LeadersWon'
    BY DEF Inv, LeadersWon, VoteTypes, adoptTerm, Won
  <1>7. LeaderHintIsTrue'
    BY DEF Inv, LeaderHintIsTrue, VoteTypes, adoptTerm, Won
  <1> QED BY <1>1, <1>4, <1>5, <1>6, <1>7 DEF Inv

\* A restart from raft-state.json, which the crash may have caught with a
\* newer term and no vote in it.
LEMMA RestartStep ==
  ASSUME Inv, NEW i \in Node, NEW st, NEW fs, NewNode(i, st, fs),
         \/ st = stable[i]
         \/ st \in [term : Nat, votedFor : {None}] /\ st.term > currentTerm[i],
         CallsOK'
  PROVE  Inv'
  <1>0. /\ stable' = [stable EXCEPT ![i] = st]
        /\ currentTerm' = [currentTerm EXCEPT ![i] = st.term]
        /\ votedFor' = [votedFor EXCEPT ![i] = st.votedFor]
        /\ state' = [state EXCEPT ![i] = "Follower"]
        /\ leaderID' = [leaderID EXCEPT ![i] = None]
        /\ votes' = [votes EXCEPT ![i] = {}]
        /\ voteReqs' \subseteq voteReqs
        /\ voteReps' \subseteq voteReps
        /\ elected' = elected
    BY DEF NewNode
  <1>a. /\ st \in [term : Nat, votedFor : Node \cup {None}]
        /\ st.term >= currentTerm[i]
        /\ st.term = currentTerm[i] => st.votedFor = votedFor[i]
    <2>1. /\ stable[i] = [term |-> currentTerm[i], votedFor |-> votedFor[i]]
          /\ currentTerm[i] \in Nat
          /\ votedFor[i] \in Node \cup {None}
      BY VotePersisted, Zenon
    <2>2. CASE st = stable[i]
      BY <2>1, <2>2
    <2>3. CASE st \in [term : Nat, votedFor : {None}] /\ st.term > currentTerm[i]
      BY <2>1, <2>3
    <2> QED BY <2>2, <2>3
  <1>1. VoteTypes'
    BY <1>0, <1>a DEF Inv, VoteTypes, Addressed
  <1>2. castVotes' \subseteq castVotes
    BY <1>0, NoNewVotes DEF Inv, VoteTypes
  <1>3. VoteStep
    <2>1. NewVotesAreOwn
      BY <1>2, Zenon DEF NewVotesAreOwn
    <2>2. st.term \in Nat /\ st = [term |-> st.term, votedFor |-> st.votedFor]
      BY <1>a
    <2>3. stable' = [stable EXCEPT ![i] = [term |-> st.term, votedFor |-> st.votedFor]]
      BY <1>0, <2>2, Zenon
    <2> QED BY <1>0, <1>a, <2>1, <2>2, <2>3, OneNodeVotes, Zenon
  <1>4. VotesBind'
    BY <1>1, <1>3, VotesGoOnBinding DEF Inv
  <1>5. Quorums'
    BY <1>0 DEF Inv, Quorums
  <1>6. LeadersWon'
    BY <1>0 DEF Inv, LeadersWon, VoteTypes, Won
  <1>7. LeaderHintIsTrue'
    BY <1>0 DEF Inv, LeaderHintIsTrue, VoteTypes
  <1> QED BY <1>1, <1>4, <1>5, <1>6, <1>7 DEF Inv

LEMMA CallsUntouched ==
  ASSUME CallsOK, UNCHANGED <<call, elected>>, late' \subseteq late
  PROVE  CallsOK'
  <1>1. call' = [a \in Node |-> [b \in Node |-> call'[a][b]]]
    BY Zenon DEF CallsOK
  <1>2. \A a, b \in Node : call'[a][b] = call[a][b] \/ WaitsOK(a, call[a][b])'
    OBVIOUS
  <1>3. \A r \in late' : r \in late \/ RequestOK(r)'
    OBVIOUS
  <1>4. elected \subseteq elected'
    OBVIOUS
  <1> QED BY <1>1, <1>2, <1>3, <1>4, CallsStayOK

\* A candidate votes for itself in a term it never voted in.
LEMMA StartElectionKeepsInv ==
  ASSUME Inv, NEW i \in Node, startElectionLocked(i)
  PROVE  Inv'
  <1> DEFINE t == currentTerm[i] + 1
  <1>0. /\ state' = [state EXCEPT ![i] = "Candidate"]
        /\ currentTerm' = [currentTerm EXCEPT ![i] = t]
        /\ votedFor' = [votedFor EXCEPT ![i] = i]
        /\ stable' = [stable EXCEPT ![i] = [term |-> t, votedFor |-> i]]
        /\ votes' = [votes EXCEPT ![i] = {i}]
        /\ voteReqs' = voteReqs \cup {VoteRequest(i, j, t) : j \in Peers(i)}
        /\ UNCHANGED <<leaderID, voteReps, elected, call, late>>
    BY DEF startElectionLocked, rpcVars
  <1>1. t \in Nat /\ t > currentTerm[i]
    BY DEF Inv, VoteTypes
  <1>2. VoteTypes'
    <2>1. \A q \in voteReqs' : Addressed(q) /\ q.type = "RV"
      BY <1>0, <1>1 DEF Inv, VoteTypes, Addressed, VoteRequest, Peers
    <2> QED BY <1>0, <1>1, <2>1 DEF Inv, VoteTypes, Addressed
  <1>3. ASSUME NEW v \in castVotes'
        PROVE  \/ v \in castVotes
               \/ currentTerm'[v.voter] = v.term /\ votedFor'[v.voter] = v.candidate
    <2>0. VoteCases'
      BY CastVotes, PTL
    <2>1. CASE SentVote(v)'
      BY <1>0, <2>1, CastVotes DEF VoteCases, SentVote
    <2>2. CASE WinningVote(v)'
      BY <1>0, <2>2, CastVotes DEF VoteCases, WinningVote
    <2>3. CASE CountedVote(v)'
      <3>1. PICK k \in Node : state'[k] = "Candidate" /\ \E j \in votes'[k] :
                v = [voter |-> j, candidate |-> k, term |-> currentTerm'[k]]
        BY <2>3 DEF CountedVote
      <3>2. CASE k = i
        BY <1>0, <3>1, <3>2 DEF Inv, VoteTypes
      <3>3. CASE k # i
        <4>1. CountedVote(v)
          BY <1>0, <3>1, <3>3 DEF Inv, VoteTypes, CountedVote
        <4> QED BY <4>1, CastVotes DEF VoteCases
      <3> QED BY <3>2, <3>3
    <2> QED BY <1>3, <2>0, <2>1, <2>2, <2>3 DEF VoteCases
  <1>4. VoteStep
    <2>1. NewVotesAreOwn
      BY <1>3, Zenon DEF NewVotesAreOwn
    <2>2. currentTerm[i] \in Nat
      BY VotePersisted, Zenon
    <2>3. t >= currentTerm[i] /\ t # currentTerm[i]
      BY <2>2
    <2> HIDE DEF t
    <2> QED BY <1>0, <1>1, <2>1, <2>3, OneNodeVotes, Zenon
  <1>5. VotesBind'
    BY <1>2, <1>4, VotesGoOnBinding DEF Inv
  <1>6. Quorums' /\ CallsOK'
    BY <1>0, CallsUntouched DEF Inv, Quorums
  <1>7. LeadersWon'
    BY <1>0 DEF Inv, LeadersWon, VoteTypes, Won
  <1>8. LeaderHintIsTrue'
    BY <1>0 DEF Inv, LeaderHintIsTrue, VoteTypes
  <1> QED BY <1>2, <1>5, <1>6, <1>7, <1>8 DEF Inv

\* A vote is granted once in a term, and saved.
LEMMA RequestVoteKeepsInv ==
  ASSUME Inv, NEW r \in voteReqs \cup late, HandleRequestVote(r)
  PROVE  Inv'
  <1> DEFINE i       == r.to
             newer   == r.term > currentTerm[i]
             granted == grantsVote(i, r)
             t       == IF newer THEN r.term ELSE currentTerm[i]
             vote    == IF granted THEN r.from ELSE IF newer THEN None ELSE votedFor[i]
             answer  == [req |-> r, term |-> t, granted |-> granted]
  <1>0. /\ state' = [state EXCEPT ![i] = IF newer THEN "Follower" ELSE @]
        /\ leaderID' = [leaderID EXCEPT ![i] = IF newer THEN None ELSE @]
        /\ currentTerm' = [currentTerm EXCEPT ![i] = t]
        /\ votedFor' = [votedFor EXCEPT ![i] = vote]
        /\ stable' = [stable EXCEPT ![i] =
                        IF newer \/ granted THEN [term |-> t, votedFor |-> vote] ELSE @]
        /\ voteReqs' \subseteq voteReqs
        /\ voteReps' \subseteq voteReps \cup {answer}
        /\ late' \subseteq late
        /\ UNCHANGED <<votes, elected, call>>
    BY DEF HandleRequestVote
  <1>1. Addressed(r)
    BY DEF Inv, VoteTypes, CallsOK, RequestOK
  <1>2. /\ i \in Node /\ t \in Nat /\ vote \in Node \cup {None}
        /\ t >= currentTerm[i]
        /\ granted => t = r.term /\ (newer \/ votedFor[i] \in {None, r.from})
    BY <1>1 DEF Addressed, Inv, VoteTypes, grantsVote
  <1> HIDE DEF i, newer, granted, t, vote
  <1>3. VoteTypes'
    <2>1. \A p \in voteReps' : Addressed(p.req) /\ p.term \in Nat
      BY <1>0, <1>1, <1>2 DEF Inv, VoteTypes, Addressed
    <2> QED BY <1>0, <1>1, <1>2, <2>1 DEF Inv, VoteTypes, Addressed
  <1>4. ASSUME NEW v \in castVotes'
        PROVE  \/ v \in castVotes
               \/ currentTerm'[v.voter] = v.term /\ votedFor'[v.voter] = v.candidate
    <2>0. VoteCases'
      BY CastVotes, PTL
    <2>1. CASE SentVote(v)'
      <3>1. PICK p \in voteReps' : p.granted /\ v = [voter |-> p.req.to,
                               candidate |-> p.req.from, term |-> p.req.term]
        BY <2>1 DEF SentVote
      <3>2. CASE p \in voteReps
        BY <3>1, <3>2, CastVotes, Zenon DEF VoteCases, SentVote
      <3>3. CASE p = answer
        <4>1. granted
          BY <3>1, <3>3
        <4>2. v = [voter |-> i, candidate |-> r.from, term |-> r.term]
          BY <3>1, <3>3 DEF i
        <4> QED BY <4>1, <4>2, <1>0, <1>2 DEF Inv, VoteTypes, vote
      <3> QED BY <1>0, <3>2, <3>3
    <2>2. CASE WinningVote(v)'
      BY <1>0, <2>2, CastVotes DEF VoteCases, WinningVote
    <2>3. CASE CountedVote(v)'
      <3>1. CountedVote(v)
        BY <1>0, <1>2, <2>3 DEF Inv, VoteTypes, CountedVote, t
      <3> QED BY <3>1, CastVotes DEF VoteCases
    <2> QED BY <1>4, <2>0, <2>1, <2>2, <2>3 DEF VoteCases
  <1>5. VoteStep
    <2>1. NewVotesAreOwn
      BY <1>4, Zenon DEF NewVotesAreOwn
    <2>2. CASE newer \/ granted
      <3>0. currentTerm[i] \in Nat
        BY <1>2, VotePersisted, Zenon
      <3>1. t = currentTerm[i] => vote = votedFor[i] \/ votedFor[i] = None
        <4>1. CASE newer
          BY <1>1, <3>0, <4>1 DEF t, newer, Addressed
        <4>2. CASE ~newer
          BY <1>2, <4>2, Zenon DEF vote
        <4> QED BY <4>1, <4>2
      <3>2. stable' = [stable EXCEPT ![i] = [term |-> t, votedFor |-> vote]]
        BY <1>0, <2>2, Zenon
      <3> QED BY <1>0, <1>2, <2>1, <3>1, <3>2, OneNodeVotes, Zenon
    <2>3. CASE ~(newer \/ granted)
      <3>1. t = currentTerm[i] /\ vote = votedFor[i]
        BY <2>3 DEF t, vote
      <3>2. UNCHANGED <<currentTerm, votedFor, stable>>
        BY <1>0, <1>2, <2>3, <3>1 DEF Inv, VoteTypes
      <3> QED BY <2>1, <3>2, NobodyVotes
    <2> QED BY <2>2, <2>3
  <1>6. VotesBind'
    BY <1>3, <1>5, VotesGoOnBinding DEF Inv
  <1>7. Quorums'
    BY <1>0 DEF Inv, Quorums
  <1>8. CallsOK'
    BY <1>0, CallsUntouched DEF Inv
  <1>9. LeadersWon' /\ LeaderHintIsTrue'
    <2>1. ASSUME NEW k \in Node
          PROVE  \/ /\ state'[k] = state[k] /\ leaderID'[k] = leaderID[k]
                    /\ currentTerm'[k] = currentTerm[k]
                 \/ state'[k] = "Follower" /\ leaderID'[k] = None
      <3>1. CASE k = i /\ newer
        BY <1>0, <3>1 DEF Inv, VoteTypes
      <3>2. CASE k = i /\ ~newer
        BY <1>0, <3>2 DEF Inv, VoteTypes, t
      <3>3. CASE k # i
        BY <1>0, <3>3 DEF Inv, VoteTypes
      <3> QED BY <3>1, <3>2, <3>3
    <2>2. UNCHANGED elected
      BY <1>0
    <2>3. ASSUME NEW k \in Node, state'[k] = "Leader" PROVE Won(currentTerm[k], k)'
      <3>1. currentTerm'[k] = currentTerm[k] /\ state[k] = "Leader"
        BY <2>1, <2>3
      <3>2. Won(currentTerm[k], k)
        BY <3>1 DEF Inv, LeadersWon
      <3> QED BY <2>2, <3>1, <3>2, Zenon DEF Won
    <2>4. ASSUME NEW k \in Node, state'[k] = "Follower", leaderID'[k] # None
          PROVE  \E e \in elected' : e.term = currentTerm'[k] /\ e.leader = leaderID'[k]
      <3>1. /\ currentTerm'[k] = currentTerm[k] /\ state[k] = "Follower"
            /\ leaderID'[k] = leaderID[k]
        BY <2>1, <2>4
      <3>2. \E e \in elected : e.term = currentTerm[k] /\ e.leader = leaderID[k]
        BY <2>4, <3>1 DEF Inv, LeaderHintIsTrue
      <3> QED BY <2>2, <3>1, <3>2
    <2> QED BY <2>3, <2>4, Zenon DEF LeadersWon, LeaderHintIsTrue
  <1> QED BY <1>3, <1>6, <1>7, <1>8, <1>9 DEF Inv

\* A vote is counted for the election it was cast in; a majority of them
\* makes the leader.
LEMMA VoteReplyKeepsInv ==
  ASSUME Inv, NEW p \in voteReps, HandleVoteReply(p)
  PROVE  Inv'
  <1> DEFINE i     == p.req.from
             tally == votes[i] \cup {p.req.to}
             win   == [term |-> p.req.term, leader |-> i, voters |-> tally]
  <1>0. /\ voteReps' = voteReps \ {p}
        /\ UNCHANGED <<voteReqs, call, late>>
    BY DEF HandleVoteReply, rpcVars
  <1>1. i \in Node /\ p.req.to \in Node /\ p.term \in Nat /\ p.req.term \in Nat
    BY DEF Inv, VoteTypes, Addressed
  <1>2. CASE p.term > currentTerm[i] /\ becomeFollowerLocked(i, p.term)
             /\ UNCHANGED <<votes, elected>>
    <2>1. CallsOK'
      BY <1>0, <1>2, CallsUntouched DEF Inv
    <2> QED BY <1>0, <1>1, <1>2, <2>1, FollowStep, Zenon DEF becomeFollowerLocked
  <1>3. CASE UNCHANGED <<electionVars, votes, elected>>
    <2>1. CallsOK'
      BY <1>0, <1>3, CallsUntouched DEF Inv
    <2>2. VoteTypes'
      BY <1>0, <1>3 DEF Inv, VoteTypes, Addressed, electionVars
    <2>3. castVotes' \subseteq castVotes
      BY <1>0, <1>3, NoNewVotes DEF electionVars
    <2>4. VoteStep
      <3>1. UNCHANGED <<currentTerm, votedFor, stable>>
        BY <1>3 DEF electionVars
      <3>2. NewVotesAreOwn
        BY <2>3, Zenon DEF NewVotesAreOwn
      <3> QED BY <3>1, <3>2, NobodyVotes
    <2>5. VotesBind'
      BY <2>2, <2>4, VotesGoOnBinding DEF Inv
    <2>6. Quorums' /\ LeadersWon' /\ LeaderHintIsTrue'
      BY <1>3 DEF Inv, Quorums, LeadersWon, LeaderHintIsTrue, Won, electionVars
    <2> QED BY <2>1, <2>2, <2>5, <2>6 DEF Inv
  <1>4. CASE /\ countsVote(p)
             /\ votes' = [votes EXCEPT ![i] = tally]
             /\ IF Cardinality(tally) >= majority
                THEN becomeLeaderLocked(i) /\ elected' = elected \cup {win}
                ELSE UNCHANGED <<electionVars, elected>>
    <2>1. /\ UNCHANGED <<currentTerm, votedFor, stable>>
          /\ \/ UNCHANGED <<state, leaderID, elected>>
             \/ /\ Cardinality(tally) >= majority
                /\ state' = [state EXCEPT ![i] = "Leader"]
                /\ leaderID' = [leaderID EXCEPT ![i] = i]
                /\ elected' = elected \cup {win}
      BY <1>4 DEF becomeLeaderLocked, electionVars
    <2>2. state[i] = "Candidate" /\ currentTerm[i] = p.req.term /\ p.granted
      BY <1>4 DEF countsVote
    <2>3. tally \subseteq Node
      BY <1>1 DEF Inv, VoteTypes
    <2> HIDE DEF tally
    <2>4. VoteTypes'
      <3>1. elected' \subseteq [term : Nat, leader : Node, voters : SUBSET Node]
        BY <1>1, <2>1, <2>3 DEF Inv, VoteTypes
      <3> QED BY <1>0, <1>1, <1>4, <2>1, <2>3, <3>1, Zenon DEF Inv, VoteTypes, Addressed
    <2>5. \A j \in tally : [voter |-> j, candidate |-> i, term |-> currentTerm[i]] \in castVotes
      <3> SUFFICES ASSUME NEW j \in tally
                   PROVE  [voter |-> j, candidate |-> i, term |-> currentTerm[i]] \in castVotes
        OBVIOUS
      <3> DEFINE v == [voter |-> j, candidate |-> i, term |-> currentTerm[i]]
      <3>1. CASE j \in votes[i]
        <4>1. CountedVote(v)
          BY <1>1, <2>2, <3>1, Zenon DEF CountedVote
        <4> QED BY <4>1, CastVotes, Zenon DEF VoteCases
      <3>2. CASE j = p.req.to
        <4>1. SentVote(v)
          BY <2>2, <3>2, Zenon DEF SentVote
        <4> QED BY <4>1, CastVotes DEF VoteCases
      <3> QED BY <3>1, <3>2 DEF tally
    <2>6. ASSUME NEW v \in castVotes' PROVE v \in castVotes
      <3>0. VoteCases'
        BY CastVotes, PTL
      <3>1. CASE SentVote(v)'
        BY <1>0, <3>1, CastVotes, Zenon DEF VoteCases, SentVote
      <3>2. CASE WinningVote(v)'
        <4>1. PICK e \in elected' : \E j \in e.voters :
                v = [voter |-> j, candidate |-> e.leader, term |-> e.term]
          BY <3>2 DEF WinningVote
        <4>2. CASE e \in elected
          BY <4>1, <4>2, CastVotes, Zenon DEF VoteCases, WinningVote
        <4>3. CASE e = win
          BY <4>1, <4>3, <2>2, <2>5
        <4> QED BY <2>1, <4>2, <4>3
      <3>3. CASE CountedVote(v)'
        <4>1. PICK k \in Node : state'[k] = "Candidate" /\ \E j \in votes'[k] :
                v = [voter |-> j, candidate |-> k, term |-> currentTerm'[k]]
          BY <3>3 DEF CountedVote
        <4>2. CASE k = i
          BY <1>1, <1>4, <2>1, <2>5, <4>1, <4>2, Zenon DEF Inv, VoteTypes
        <4>3. CASE k # i
          <5>1. CountedVote(v)
            BY <1>1, <1>4, <2>1, <4>1, <4>3, Zenon DEF Inv, VoteTypes, CountedVote
          <5> QED BY <5>1, CastVotes DEF VoteCases
        <4> QED BY <4>2, <4>3
      <3> QED BY <2>6, <3>0, <3>1, <3>2, <3>3 DEF VoteCases
    <2>7. VoteStep
      <3>1. NewVotesAreOwn
        BY <2>6, Zenon DEF NewVotesAreOwn
      <3> QED BY <2>1, <3>1, NobodyVotes
    <2>8. VotesBind'
      BY <2>4, <2>7, VotesGoOnBinding DEF Inv
    <2>9. Quorums'
      BY <2>1 DEF Inv, Quorums, majority
    <2>10. elected \subseteq elected'
      BY <2>1
    <2>11. CallsOK'
      <3>1. /\ call' = [a \in Node |-> [b \in Node |-> call'[a][b]]]
            /\ \A a, b \in Node : call'[a][b] = call[a][b]
            /\ \A r \in late' : r \in late
        BY <1>0 DEF Inv, CallsOK
      <3> QED BY <2>10, <3>1, CallsStayOK DEF Inv
    <2>12. LeadersWon'
      <3> SUFFICES ASSUME NEW k \in Node, state'[k] = "Leader"
                   PROVE  Won(currentTerm[k], k)'
        BY DEF LeadersWon
      <3>1. CASE state[k] = "Leader"
        BY <2>1, <2>10, <3>1, WonIsKept DEF Inv, LeadersWon
      <3>2. CASE state[k] # "Leader"
        <4>1. k = i /\ win \in elected'
          BY <1>1, <2>1, <3>2 DEF Inv, VoteTypes
        <4>2. win.term = currentTerm'[k] /\ win.leader = k
          BY <2>1, <2>2, <4>1
        <4> QED BY <4>1, <4>2, Zenon DEF Won
      <3> QED BY <3>1, <3>2
    <2>13. LeaderHintIsTrue'
      BY <1>1, <2>1, <2>2 DEF Inv, LeaderHintIsTrue, VoteTypes
    <2> QED BY <2>4, <2>8, <2>9, <2>11, <2>12, <2>13 DEF Inv
  <1> QED BY <1>2, <1>3, <1>4 DEF HandleVoteReply

\* The handlers of replication requests.
LEMMA HandlersKeepInv ==
  ASSUME Inv, NEW r \in Deliverable, HandleAppendEntries(r) \/ HandleInstallSnapshot(r)
  PROVE  Inv'
  <1> DEFINE i == r.to
  <1>0. r.from \in Node /\ i \in Node /\ r.term \in Nat /\ Won(r.term, r.from)
    BY DeliverableOK DEF Inv, RequestOK, Addressed
  <1>1. UNCHANGED voteVars
    BY Zenon DEF HandleAppendEntries, HandleInstallSnapshot
  <1>2. ASSUME NEW rep, UNCHANGED electionVars, Take(r, "replied", rep), rep.term \in Nat
        PROVE  Inv'
    <2>1. CallsOK'
      BY <1>1, <1>2, TakeKeepsCalls DEF Inv, voteVars
    <2> QED BY <1>1, <1>2, <2>1, QuietStep
  <1>3. ASSUME NEW rep, NEW stage \in {"handling", "replied"}, Take(r, stage, rep),
               stage = "replied" => rep.term \in Nat,
               followLeader(i, r), r.term >= currentTerm[i]
        PROVE  Inv'
    <2>1. CallsOK'
      BY <1>1, <1>3, TakeKeepsCalls, Zenon DEF Inv, voteVars
    <2> QED BY <1>0, <1>1, <1>3, <2>1, FollowStep, Zenon DEF followLeader, voteVars
  <1>4. currentTerm[i] \in Nat
    BY <1>0, Zenon DEF Inv, VoteTypes
  <1>5. CASE HandleAppendEntries(r)
    <2> DEFINE no   == [term |-> currentTerm[i], success |-> FALSE, conflictIndex |-> 0]
               back == [term |-> r.term, success |-> FALSE, conflictIndex |-> ConflictIndex(i, r)]
               yes  == [term |-> r.term, success |-> TRUE, conflictIndex |-> 0]
    <2>1. \/ UNCHANGED electionVars /\ Take(r, "replied", no)
          \/ ~(r.term < currentTerm[i]) /\ followLeader(i, r) /\ Take(r, "replied", back)
          \/ ~(r.term < currentTerm[i]) /\ followLeader(i, r) /\ Take(r, "replied", yes)
      BY <1>5, Zenon DEF HandleAppendEntries
    <2>2. no.term \in Nat /\ back.term \in Nat /\ yes.term \in Nat
      BY <1>0, <1>4, Zenon
    <2> HIDE DEF no, back, yes
    <2>3. ~(r.term < currentTerm[i]) => r.term >= currentTerm[i]
      BY <1>0, <1>4
    <2> QED BY <1>2, <1>3, <2>1, <2>2, <2>3, Zenon
  <1>6. CASE HandleInstallSnapshot(r)
    <2> DEFINE no  == [term |-> currentTerm[i]]
               yes == [term |-> r.term]
    <2>1. \/ UNCHANGED electionVars /\ Take(r, "replied", no)
          \/ ~(r.term < currentTerm[i]) /\ followLeader(i, r) /\ Take(r, "replied", yes)
          \/ ~(r.term < currentTerm[i]) /\ followLeader(i, r) /\ Take(r, "handling", None)
      BY <1>6, Zenon DEF HandleInstallSnapshot
    <2>2. no.term \in Nat /\ yes.term \in Nat
      BY <1>0, <1>4, Zenon
    <2> HIDE DEF no, yes
    <2>3. ~(r.term < currentTerm[i]) => r.term >= currentTerm[i]
      BY <1>0, <1>4
    <2> QED BY <1>2, <1>3, <2>1, <2>2, <2>3, Zenon
  <1> QED BY <1>5, <1>6

\* The replication loops, when their calls return.
LEMMA RepliesKeepInv ==
  ASSUME Inv, NEW i \in Node, NEW j \in Node,
         HandleAppendEntriesReply(i, j) \/ HandleInstallSnapshotReply(i, j)
  PROVE  Inv'
  <1> DEFINE t == call[i][j].rep.term
  <1>0. /\ call[i][j].stage = "replied"
        /\ call' = [call EXCEPT ![i][j] = NoCall]
        /\ UNCHANGED <<voteVars, late>>
        /\ UNCHANGED electionVars \/ becomeFollowerLocked(i, t)
    BY Zenon DEF HandleAppendEntriesReply, HandleInstallSnapshotReply
  <1>1. t \in Nat
    BY <1>0, Zenon DEF Inv, CallsOK, WaitsOK
  <1>2. CallsOK'
    BY <1>0, CallEnds, Zenon DEF Inv, voteVars
  <1>3. CASE UNCHANGED electionVars
    BY <1>0, <1>2, <1>3, QuietStep
  <1>4. CASE becomeFollowerLocked(i, t)
    BY <1>0, <1>1, <1>2, <1>4, FollowStep, Zenon DEF becomeFollowerLocked, voteVars
  <1> QED BY <1>0, <1>3, <1>4

\* What a crash leaves in the network.
LEMMA LeftBehindOK ==
  ASSUME Inv, NEW i \in Node, NEW from, from \subseteq late, leaveLate(i, from),
         UNCHANGED elected
  PROVE  \A r \in late' : r \in late \/ RequestOK(r)'
  <1>1. \A r \in Outstanding(i) : RequestOK(r)
    <2> SUFFICES ASSUME NEW r \in Outstanding(i) PROVE RequestOK(r)
      OBVIOUS
    <2>1. \/ \E j \in Node : call[i][j].stage = "sent" /\ r = call[i][j].req
          \/ r \in voteReqs
      BY Zenon DEF Outstanding
    <2>2. CASE r \in voteReqs
      BY <2>2 DEF Inv, VoteTypes, RequestOK
    <2>3. \A j \in Node : WaitsOK(i, call[i][j])
      BY DEF Inv, CallsOK
    <2> QED BY <2>1, <2>2, <2>3, Zenon DEF WaitsOK
  <1>2. \A r : RequestOK(r) => RequestOK(r)'
    BY WonIsKept DEF RequestOK, Addressed
  <1> QED BY <1>1, <1>2 DEF leaveLate

\* A crash, wherever it strikes, brings back a node that remembers its votes.
LEMMA CrashKeepsInv ==
  ASSUME Inv,
         \/ \E i \in Node : Crash(i)
         \/ \E r \in voteReqs \cup late : CrashInRequestVote(r)
         \/ \E r \in Deliverable : CrashInAppendEntries(r)
  PROVE  Inv'
  <1>1. ASSUME NEW i \in Node, NEW st, NEW fs, NewNode(i, st, fs) PROVE UNCHANGED elected
    BY <1>1 DEF NewNode
  <1>2. ASSUME NEW i \in Node, Crash(i) PROVE Inv'
    <2>1. NewNode(i, stable[i], disk[i])
      BY <1>2 DEF Crash
    <2>2. /\ call' = [a \in Node |-> [b \in Node |-> call'[a][b]]]
          /\ \A a, b \in Node : call'[a][b] = call[a][b] \/ WaitsOK(a, call[a][b])'
      BY <1>2, CallsCleared, Zenon DEF Crash, Inv
    <2>3. \A q \in late' : q \in late \/ RequestOK(q)'
      BY <1>1, <1>2, <2>1, LeftBehindOK DEF Crash
    <2>4. CallsOK'
      BY <1>1, <2>1, <2>2, <2>3, CallsStayOK DEF Inv
    <2> QED BY <2>1, <2>4, RestartStep
  <1>3. ASSUME NEW r \in voteReqs \cup late, CrashInRequestVote(r) PROVE Inv'
    <2> DEFINE i  == r.to
               st == [term |-> r.term, votedFor |-> None]
    <2>1. i \in Node /\ r.term \in Nat
      BY DEF Inv, VoteTypes, CallsOK, RequestOK, Addressed
    <2>2. NewNode(i, st, disk[i]) /\ st.term > currentTerm[i]
      BY <1>3, Zenon DEF CrashInRequestVote
    <2>3. /\ call' = [a \in Node |-> [b \in Node |-> call'[a][b]]]
          /\ \A a, b \in Node : call'[a][b] = call[a][b] \/ WaitsOK(a, call[a][b])'
      <3>1. call' = [call EXCEPT ![i] = [j \in Node |-> NoCall]]
        BY <1>3, Zenon DEF CrashInRequestVote
      <3> QED BY <2>1, <3>1, CallsCleared, Zenon DEF Inv
    <2>4. \A q \in late' : q \in late \/ RequestOK(q)'
      BY <1>1, <1>3, <2>1, <2>2, LeftBehindOK, Zenon DEF CrashInRequestVote
    <2>5. CallsOK'
      BY <1>1, <2>1, <2>2, <2>3, <2>4, CallsStayOK DEF Inv
    <2> QED BY <2>1, <2>2, <2>5, RestartStep
  <1>4. ASSUME NEW r \in Deliverable, CrashInAppendEntries(r) PROVE Inv'
    <2> DEFINE i  == r.to
               st == IF r.term > currentTerm[i] THEN [term |-> r.term, votedFor |-> None]
                     ELSE stable[i]
    <2>1. i \in Node /\ r.term \in Nat
      BY DeliverableOK DEF Inv, RequestOK, Addressed
    <2>2. PICK fs : NewNode(i, st, fs)
      BY <1>4, Zenon DEF CrashInAppendEntries
    <2>3. /\ call' = [j \in Node |->
                        IF j = i THEN [k \in Node |-> NoCall]
                        ELSE IF call[j][i].stage = "sent" /\ call[j][i].req = r
                        THEN [call[j] EXCEPT ![i].stage = "handling"] ELSE call[j]]
          /\ leaveLate(i, late \ {r})
      BY <1>4, Zenon DEF CrashInAppendEntries
    <2>4. call' = [a \in Node |-> [b \in Node |-> call'[a][b]]]
      BY <2>1, <2>3, Zenon DEF Inv, CallsOK
    <2>5. ASSUME NEW a \in Node, NEW b \in Node
          PROVE  call'[a][b] = call[a][b] \/ WaitsOK(a, call[a][b])'
      <3>1. CASE a = i
        BY <2>1, <2>3, <3>1, Zenon DEF WaitsOK, NoCall
      <3>2. CASE a # i
        <4>1. \/ call'[a][b] = call[a][b]
              \/ call'[a][b] = [call[a][b] EXCEPT !.stage = "handling"]
                 /\ call[a][b].stage = "sent"
          BY <2>1, <2>3, <3>2, Zenon DEF Inv, CallsOK
        <4>2. call[a][b] = [stage |-> call[a][b].stage, req |-> call[a][b].req,
                            rep |-> call[a][b].rep]
          BY DEF Inv, CallsOK, WaitsOK
        <4>3. CASE call'[a][b] = [stage |-> "handling", req |-> call[a][b].req,
                                  rep |-> call[a][b].rep]
          BY <4>3 DEF WaitsOK
        <4> QED BY <4>1, <4>2, <4>3
      <3> QED BY <3>1, <3>2
    <2>6. \A q \in late' : q \in late \/ RequestOK(q)'
      BY <1>1, <2>1, <2>2, <2>3, LeftBehindOK
    <2>7. CallsOK'
      BY <1>1, <2>1, <2>2, <2>4, <2>5, <2>6, CallsStayOK DEF Inv
    <2>8. \/ st = stable[i]
          \/ st \in [term : Nat, votedFor : {None}] /\ st.term > currentTerm[i]
      BY <2>1
    <2> HIDE DEF st
    <2> QED BY <2>1, <2>2, <2>7, <2>8, RestartStep
  <1> QED BY <1>2, <1>3, <1>4

\* Sending, giving up and the end of an install only touch calls.
LEMMA CallersKeepInv ==
  ASSUME Inv, NEW i \in Node, NEW j \in Node,
         sendAppendEntriesTo(i, j) \/ sendInstallSnapshotTo(i, j) \/ RPCTimeout(i, j)
  PROVE  Inv'
  <1>0. UNCHANGED <<electionVars, voteVars>> /\ UNCHANGED elected
    BY DEF sendAppendEntriesTo, sendInstallSnapshotTo, RPCTimeout, voteVars
  <1>1. ASSUME NEW c, call' = [call EXCEPT ![i][j] = c], UNCHANGED late, WaitsOK(i, c)
        PROVE  Inv'
    <2>1. call' = [a \in Node |-> [b \in Node |-> call'[a][b]]]
      BY <1>1, Zenon DEF Inv, CallsOK
    <2>2. WaitsOK(i, c)'
      BY <1>0, <1>1 DEF WaitsOK, RequestOK, Addressed, Won
    <2>3. \A a, b \in Node : call'[a][b] = call[a][b] \/ WaitsOK(a, call[a][b])'
      <3> SUFFICES ASSUME NEW a \in Node, NEW b \in Node
                   PROVE  call'[a][b] = call[a][b] \/ WaitsOK(a, call[a][b])'
        OBVIOUS
      <3>1. CASE a = i /\ b = j
        <4>1. call'[a][b] = c
          BY <1>1, <3>1 DEF Inv, CallsOK
        <4> QED BY <2>2, <3>1, <4>1, Zenon DEF WaitsOK
      <3>2. CASE ~(a = i /\ b = j)
        BY <1>1, <3>2 DEF Inv, CallsOK
      <3> QED BY <3>1, <3>2
    <2>4. CallsOK'
      BY <1>0, <1>1, <2>1, <2>3, CallsStayOK DEF Inv
    <2> QED BY <1>0, <2>4, QuietStep
  <1>2. CASE sendAppendEntriesTo(i, j)
    <2>1. currentTerm[i] \in Nat /\ Won(currentTerm[i], i)
      BY <1>2, Zenon DEF sendAppendEntriesTo, Inv, VoteTypes, LeadersWon
    <2>2. PICK request : /\ request.from = i /\ request.to = j
                         /\ request.term = currentTerm[i] /\ request.type = "AE"
                         /\ \/ call' = [call EXCEPT ![i][j] =
                                  [stage |-> "load", req |-> currentTerm[i], rep |-> None]]
                            \/ call' = [call EXCEPT ![i][j] =
                                  [stage |-> "sent", req |-> request, rep |-> None]]
      <3> DEFINE nextIdx == IF nextIndex[i][j] = 0 THEN 1 ELSE nextIndex[i][j]
                 first   == nextIdx - logBaseIndex[i]
                 entries == IF nextIdx > lastLogIndexLocked(i) THEN <<>>
                            ELSE SubSeq(log[i], first,
                                   Min({Len(log[i]), first + MaxReplicationBatchSize - 1}))
                 q == [type |-> "AE", from |-> i, to |-> j, term |-> currentTerm[i],
                       prevLogIndex |-> nextIdx - 1,
                       prevLogTerm  |-> termAtLocked(i, nextIdx - 1),
                       entries      |-> entries,
                       leaderCommit |-> commitIndex[i]]
      <3>1. call' = [call EXCEPT ![i][j] =
                       IF nextIdx <= logBaseIndex[i]
                       THEN [stage |-> "load", req |-> currentTerm[i], rep |-> None]
                       ELSE [stage |-> "sent", req |-> q, rep |-> None]]
        BY <1>2, Zenon DEF sendAppendEntriesTo
      <3>2. q.from = i /\ q.to = j /\ q.term = currentTerm[i] /\ q.type = "AE"
        BY Zenon
      <3> HIDE DEF q, nextIdx
      <3> QED BY <3>1, <3>2, Zenon
    <2>3. /\ WaitsOK(i, [stage |-> "load", req |-> currentTerm[i], rep |-> None])
          /\ WaitsOK(i, [stage |-> "sent", req |-> request, rep |-> None])
      BY <2>1, <2>2 DEF WaitsOK, RequestOK, Addressed
    <2>4. UNCHANGED late
      BY <1>2 DEF sendAppendEntriesTo
    <2> QED BY <1>1, <2>2, <2>3, <2>4
  <1>3. CASE sendInstallSnapshotTo(i, j)
    <2> DEFINE t == call[i][j].req
    <2>1. t \in Nat /\ Won(t, i)
      BY <1>3, Zenon DEF sendInstallSnapshotTo, Inv, CallsOK, WaitsOK
    <2>2. PICK request : /\ request.from = i /\ request.to = j
                         /\ request.term = t /\ request.type = "IS"
                         /\ \/ call' = [call EXCEPT ![i][j] = NoCall]
                            \/ call' = [call EXCEPT ![i][j] =
                                  [stage |-> "sent", req |-> request, rep |-> None]]
      <3> DEFINE s == disk[i].snapshot
                 q == [type |-> "IS", from |-> i, to |-> j, term |-> t,
                       lastIncludedIndex |-> s.index,
                       lastIncludedTerm  |-> s.term, data |-> s.data]
      <3>1. \/ call' = [call EXCEPT ![i][j] = NoCall]
            \/ call' = [call EXCEPT ![i][j] =
                          [stage |-> "sent", rep |-> None, req |-> q]]
        BY <1>3, Zenon DEF sendInstallSnapshotTo, Inv, CallsOK
      <3>2. [stage |-> "sent", rep |-> None, req |-> q]
              = [stage |-> "sent", req |-> q, rep |-> None]
        BY Zenon
      <3>3. q.from = i /\ q.to = j /\ q.term = t /\ q.type = "IS"
        BY Zenon
      <3> HIDE DEF q
      <3> QED BY <3>1, <3>2, <3>3
    <2>3. /\ WaitsOK(i, NoCall)
          /\ WaitsOK(i, [stage |-> "sent", req |-> request, rep |-> None])
      BY <2>1, <2>2 DEF WaitsOK, RequestOK, Addressed, NoCall
    <2>4. UNCHANGED late
      BY <1>3 DEF sendInstallSnapshotTo
    <2> QED BY <1>1, <2>2, <2>3, <2>4
  <1>4. CASE RPCTimeout(i, j)
    <2>1. \A r \in late' : r \in late \/ RequestOK(r)
      <3>1. \/ UNCHANGED late
            \/ call[i][j].stage = "sent" /\ late' = late \cup {call[i][j].req}
        BY <1>4, Zenon DEF RPCTimeout
      <3>2. WaitsOK(i, call[i][j])
        BY DEF Inv, CallsOK
      <3>3. call[i][j].stage = "sent" => RequestOK(call[i][j].req)
        BY <3>2, Zenon DEF WaitsOK
      <3> QED BY <3>1, <3>3
    <2>2. \A r : RequestOK(r) => RequestOK(r)'
      BY <1>0, WonIsKept DEF RequestOK, Addressed
    <2>3. CallsOK'
      BY <1>0, <1>4, <2>1, <2>2, CallEnds, Zenon DEF RPCTimeout, Inv
    <2> QED BY <1>0, <2>3, QuietStep
  <1> QED BY <1>2, <1>3, <1>4

LEMMA InstallsKeepInv ==
  ASSUME Inv, NEW i \in Node, NEW h \in installs[i],
         InstallSave(i, h) \/ InstallRestore(i, h) \/ InstallFinish(i, h)
  PROVE  Inv'
  <1>0. UNCHANGED <<electionVars, voteVars>> /\ UNCHANGED <<late, elected>>
    BY DEF InstallSave, InstallRestore, InstallFinish, voteVars
  <1>1. CASE UNCHANGED call
    BY <1>0, <1>1, CallsUntouched, QuietStep DEF Inv
  <1>2. CASE call' = [call EXCEPT ![h.req.from][i] =
                        [stage |-> "replied", req |-> h.req, rep |-> [term |-> currentTerm[i]]]]
    <2>1. call' = [a \in Node |-> [b \in Node |-> call'[a][b]]]
      <3>1. CASE h.req.from \in Node
        BY <1>2, <3>1, Zenon DEF Inv, CallsOK
      <3>2. CASE h.req.from \notin Node
        BY <1>2, <3>2 DEF Inv, CallsOK
      <3> QED BY <3>1, <3>2
    <2>2. ASSUME NEW a \in Node, NEW b \in Node
          PROVE  call'[a][b] = call[a][b] \/ WaitsOK(a, call[a][b])'
      <3>1. CASE a = h.req.from /\ b = i
        <4>1. call'[a][b] = [stage |-> "replied", req |-> h.req,
                             rep |-> [term |-> currentTerm[i]]]
          BY <1>2, <3>1 DEF Inv, CallsOK
        <4>2. currentTerm[i] \in Nat
          BY DEF Inv, VoteTypes
        <4>3. /\ call'[a][b].stage = "replied" /\ call'[a][b].rep.term \in Nat
              /\ call'[a][b] = [stage |-> call'[a][b].stage, req |-> call'[a][b].req,
                                rep |-> call'[a][b].rep]
          BY <4>1, <4>2, RepliedShape
        <4> QED BY <4>3, Zenon DEF WaitsOK
      <3>2. CASE ~(a = h.req.from /\ b = i)
        BY <1>2, <3>2 DEF Inv, CallsOK
      <3> QED BY <3>1, <3>2
    <2>3. CallsOK'
      BY <1>0, <2>1, <2>2, CallsStayOK DEF Inv
    <2> QED BY <1>0, <2>3, QuietStep
  <1> QED BY <1>1, <1>2 DEF InstallSave, InstallRestore, InstallFinish

\* The apply loop and the clients do not touch elections or calls.
LEMMA OthersKeepInv ==
  ASSUME Inv, UNCHANGED <<electionVars, voteVars, rpcVars>>
  PROVE  Inv'
  BY CallsUntouched, QuietStep DEF Inv, voteVars, rpcVars

LEMMA InitInv == Init => Inv
  <1> SUFFICES ASSUME Init PROVE Inv
    OBVIOUS
  <1>1. VoteTypes
    BY Zenon DEF Init, VoteTypes
  <1>2. VotesBind
    <2>1. \A v : v \notin castVotes
      BY CastVotes, Zenon DEF Init, VoteCases, SentVote, CountedVote, WinningVote
    <2> QED BY <2>1 DEF Init, VotesBind
  <1>3. Quorums /\ LeadersWon /\ LeaderHintIsTrue
    BY DEF Init, Quorums, LeadersWon, LeaderHintIsTrue
  <1>4. CallsOK
    BY Zenon DEF Init, CallsOK, WaitsOK, NoCall
  <1> QED BY <1>1, <1>2, <1>3, <1>4 DEF Inv

LEMMA NextInv == Inv /\ [Next]_vars => Inv'
  <1> SUFFICES ASSUME Inv, [Next]_vars PROVE Inv'
    OBVIOUS
  <1>1. ASSUME NEW i \in Node, startElectionLocked(i) PROVE Inv'
    BY <1>1, StartElectionKeepsInv
  <1>2. ASSUME NEW r \in voteReqs \cup {q \in late : q.type = "RV"},
               HandleRequestVote(r) \/ CrashInRequestVote(r)
        PROVE  Inv'
    BY <1>2, RequestVoteKeepsInv, CrashKeepsInv
  <1>3. ASSUME NEW p \in voteReps, HandleVoteReply(p) PROVE Inv'
    BY <1>3, VoteReplyKeepsInv
  <1>4. ASSUME NEW i \in Node, NEW j \in Node,
               \/ sendAppendEntriesTo(i, j) \/ HandleAppendEntriesReply(i, j)
               \/ sendInstallSnapshotTo(i, j) \/ HandleInstallSnapshotReply(i, j)
               \/ RPCTimeout(i, j)
        PROVE  Inv'
    BY <1>4, CallersKeepInv, RepliesKeepInv
  <1>5. ASSUME NEW r \in Deliverable,
               HandleAppendEntries(r) \/ CrashInAppendEntries(r) \/ HandleInstallSnapshot(r)
        PROVE  Inv'
    BY <1>5, HandlersKeepInv, CrashKeepsInv
  <1>6. ASSUME NEW i \in Node, NEW h \in installs[i],
               InstallSave(i, h) \/ InstallRestore(i, h) \/ InstallFinish(i, h)
        PROVE  Inv'
    BY <1>6, InstallsKeepInv
  <1>7. ASSUME NEW i \in Node, NEW c \in Command, Propose(i, c) PROVE Inv'
    BY <1>7, OthersKeepInv DEF Propose
  <1>8. ASSUME NEW i \in Node,
               \/ appendBatch(i) \/ applyPending(i) \/ Apply(i) \/ maybeSnapshot(i)
               \/ TakeSnapshot(i) \/ SaveOwnSnapshot(i) \/ discardLogPrefixLocked(i)
        PROVE  Inv'
    BY <1>8, OthersKeepInv
       DEF appendBatch, applyPending, Apply, maybeSnapshot, TakeSnapshot, SaveOwnSnapshot,
           discardLogPrefixLocked
  <1>9. ASSUME NEW i \in Node, Crash(i) PROVE Inv'
    BY <1>9, CrashKeepsInv
  <1>10. ASSUME NEW c \in Command, waitForApply(c) PROVE Inv'
    BY <1>10, OthersKeepInv DEF waitForApply
  <1>11. CASE UNCHANGED vars
    BY <1>11, OthersKeepInv DEF vars
  <1> QED BY <1>1, <1>2, <1>3, <1>4, <1>5, <1>6, <1>7, <1>8, <1>9, <1>10, <1>11, Zenon DEF Next

-----------------------------------------------------------------------------
(* The theorems.                                                           *)

\* The inductive invariant holds of every reachable state.
THEOREM Invariance == Spec => []Inv
  BY InitInv, NextInv, PTL DEF Spec

\* Votes bind: a node's vote in a term, once on its way, counted or part of a
\* majority, is the one it remembers in memory and in raft-state.json for as
\* long as it stays in the term, crashes included, and it has no other
\* (HandleRequestVote, startElectionLocked, NewNode).
THEOREM VotesAreBinding == Spec => []VotesBind
  <1>1. Inv => VotesBind
    BY DEF Inv
  <1> QED BY <1>1, Invariance, PTL

\* At most one leader is ever elected in a term, whatever the number of
\* nodes, of terms, of crashes and of delayed requests (startElectionLocked's
\* count of the votes).
THEOREM AtMostOneLeaderPerTerm == Spec => []ElectionSafety
  <1>1. Inv => ElectionSafety
    BY OneWinner DEF Inv
  <1> QED BY <1>1, Invariance, PTL

\* The leader a follower names is the one elected in its term
\* (becomeFollowerLocked, HandleAppendEntries, HandleInstallSnapshot).
THEOREM LeaderHintsAreTrue == Spec => []LeaderHintIsTrue
  <1>1. Inv => LeaderHintIsTrue
    BY DEF Inv
  <1> QED BY <1>1, Invariance, PTL

=============================================================================
