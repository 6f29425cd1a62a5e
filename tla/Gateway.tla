------------------------------ MODULE Gateway ------------------------------
(***************************************************************************)
(* The gateway's request path (internal/gateway/proxy.go) over the nodes'  *)
(* HTTP handlers (internal/api): writes go to the leader the gateway       *)
(* believes in, with one refresh and one retry; reads come from the cache  *)
(* or, round robin, from any node; writes invalidate the cache.            *)
(*                                                                         *)
(* Of Raft there is what the handlers see: a node that believes to be the  *)
(* leader, proposals that commit at some time or never (also after the     *)
(* proposer was told they failed), and nodes that apply what is committed  *)
(* each at its own pace.  LeaderDiscovery has the polling of refresh, and  *)
(* RateLimiter and Workload what a request passes on its way here.         *)
(*                                                                         *)
(* A response is buffered until its handler returns, so handleWrite's      *)
(* answer and what it does to the cache afterwards are one step.           *)
(***************************************************************************)
EXTENDS Integers, Sequences, FiniteSets, FiniteSetsExt
LOCAL INSTANCE SequencesExt

CONSTANTS
  NodeCount,     \* the configured nodes are 0..NodeCount-1
  Key,           \* paths under /v1/kv/
  Writer, Reader,\* the requests of a behaviour, each a number: its own value
  None, NotFound,
  CacheCapacity,
  Written,       \* bound: the keys writers write to
  MaxTerm,       \* bound: elections
  MaxLost        \* bound: proxied requests whose answer does not arrive in time

VARIABLES
  role, term,    \* what each node's Status reports
  pending,       \* proposals that may still commit
  committed,     \* the commands in commit order
  lastApplied,
  leaderID,      \* the gateway's view of the leader
  cache,         \* an item: the entry and, as history, the writes done by then
  readCounter,
  req,           \* the state of each request's handler
  lost           \* see MaxLost

cluster == <<role, term, pending, committed, lastApplied>>
vars == <<cluster, leaderID, cache, readCounter, req, lost>>

C == INSTANCE LRU

Node == 0..NodeCount - 1
Request == Writer \cup Reader
newest == Max({term[n] : n \in Node})

\* The state of key at node n: what its engine has after lastApplied commands.
lastWrite(key, upTo) == Max({0} \cup {i \in 1..upTo : committed[i].key = key})
Get(n, key) ==
  LET i == lastWrite(key, lastApplied[n])
  IN  IF i = 0 \/ committed[i].op = "DELETE" THEN NotFound ELSE committed[i]

\* Every key has a value from before, written by request 0.
earlier ==
  SetToSeq({[from |-> 0, try |-> 1, op |-> "PUT", key |-> k, critical |-> FALSE] : k \in Key})

Init ==
  /\ role = [n \in Node |-> IF n = 0 THEN "LEADER" ELSE "FOLLOWER"]
  /\ term = [n \in Node |-> 1]
  /\ pending = {} /\ committed = earlier /\ lastApplied = [n \in Node |-> Len(earlier)]
  /\ leaderID \in {None, 0}
  /\ cache = C!NewLRU /\ readCounter = 0
  /\ req = [r \in Request |-> [pc |-> "new"]]
  /\ lost = 0

-----------------------------------------------------------------------------
(* The handler of a write.                                                 *)

\* Its first lines: the leader if one is known, else a refresh.
handleWrite(r, op, key, critical) ==
  /\ req[r].pc = "new"
  /\ req' = [req EXCEPT ![r] =
       [pc |-> IF leaderID = None THEN "refresh" ELSE "send", op |-> op, key |-> key,
        critical |-> critical, addr |-> leaderID, try |-> 1, status |-> 0]]
  /\ UNCHANGED <<cluster, leaderID, cache, readCounter, lost>>

done(r) == req[r].pc = "done"
answer(r, status) == req' = [req EXCEPT ![r].pc = "done", ![r].status = status]

\* refresh, seen as a whole: of the nodes that answered the poll, the leader
\* of the highest term, if there is one.
refreshed(up) ==
  LET leaders == {n \in up : role[n] = "LEADER"}
  IN  IF leaders = {} THEN leaderID
      ELSE Max({n \in leaders : \A m \in leaders : term[m] <= term[n]})

refresh(r) ==
  /\ req[r].pc = "refresh"
  /\ \E up \in SUBSET Node : leaderID' = refreshed(up)
  /\ IF leaderID' = None THEN answer(r, 503)
     ELSE req' = [req EXCEPT ![r].pc = "send", ![r].addr = leaderID']
  /\ UNCHANGED <<cluster, cache, readCounter, lost>>

\* Mutant: the answer of the second attempt is taken for a success.
notDeliveredOnce(r) ==
  IF req[r].try = 1 THEN req' = [req EXCEPT ![r].pc = "refresh", ![r].try = 2]
  ELSE req' = [req EXCEPT ![r].pc = "delivered", ![r].status = 204]

\* After proxyRequest said "not delivered": once more, or 503.
notDelivered(r) ==
  IF req[r].try = 1 THEN req' = [req EXCEPT ![r].pc = "refresh", ![r].try = 2]
  ELSE answer(r, 503)

\* The node's handlePut, handleDelete or handlePostEvent, up to its Propose.
\* Only the leader of the newest term gets anything committed.
writeThroughRaft(r) ==
  LET n == req[r].addr
  IN  /\ req[r].pc = "send"
      /\ \/ /\ req[r].op = "DELETE" /\ Get(n, req[r].key) = NotFound
            /\ req' = [req EXCEPT ![r].pc = "delivered", ![r].status = 404]
            /\ UNCHANGED pending
         \/ /\ req[r].op = "DELETE" => Get(n, req[r].key) # NotFound
            /\ role[n] # "LEADER"
            /\ notDelivered(r)
            /\ UNCHANGED pending
         \/ /\ req[r].op = "DELETE" => Get(n, req[r].key) # NotFound
            /\ role[n] = "LEADER"
            /\ pending' = IF term[n] = newest
                          THEN pending \cup {[from |-> r, try |-> req[r].try]} ELSE pending
            /\ req' = [req EXCEPT ![r].pc = "proposed"]
      /\ UNCHANGED <<role, term, committed, lastApplied, leaderID, cache, readCounter, lost>>

\* Propose returns once the node has applied the entry.
Propose(r) ==
  /\ req[r].pc = "proposed"
  /\ \E i \in 1..lastApplied[req[r].addr] :
       committed[i].from = r /\ committed[i].try = req[r].try
  /\ req' = [req EXCEPT ![r].pc = "delivered",
                        ![r].status = IF req[r].op = "EVENT" THEN 201 ELSE 204]
  /\ UNCHANGED <<cluster, leaderID, cache, readCounter, lost>>

\* No answer, or a 503: the connection failed, Propose timed out or gave up.
\* What was proposed may commit all the same.
writeLost(r) ==
  /\ req[r].pc \in {"send", "proposed"}
  /\ \/ lost < MaxLost /\ lost' = lost + 1
     \/ req[r].pc = "proposed" /\ term[req[r].addr] < newest /\ UNCHANGED lost
  /\ notDelivered(r)
  /\ UNCHANGED <<cluster, leaderID, cache, readCounter>>


\* The rest of handleWrite: whatever was delivered, a path under /v1/kv/ is
\* dropped from the cache; an event's key is not.
writeDelivered(r) ==
  /\ req[r].pc = "delivered"
  /\ answer(r, req[r].status)
  /\ cache' = IF req[r].op = "EVENT" THEN cache ELSE C!Delete(cache, req[r].key)
  /\ UNCHANGED <<cluster, leaderID, readCounter, lost>>

-----------------------------------------------------------------------------
(* The handler of a read.                                                  *)

handleRead(r, key) ==
  /\ req[r].pc = "new"
  /\ cache' = C!Get(cache, key)
  /\ IF key \in DOMAIN cache.items
     THEN /\ req' = [req EXCEPT ![r] = [pc |-> "done", key |-> key, got |-> cache.items[key].entry,
                                        status |-> 200, hit |-> TRUE, tried |-> {}]]
          /\ UNCHANGED readCounter
     ELSE /\ readCounter' = readCounter + 1
          /\ req' = [req EXCEPT ![r] =
               [pc |-> "read", key |-> key, start |-> readCounter' % NodeCount, i |-> 0,
                got |-> NotFound, status |-> 0, hit |-> FALSE, tried |-> {}]]
  /\ UNCHANGED <<cluster, leaderID, lost>>

\* Mutant: the pass starts one node late and ends where it would have.
targetOffByOne(q) == IF q.i = 0 THEN q.start ELSE (q.start + q.i - 1) % NodeCount

\* The node the loop is at.
target(q) == (q.start + q.i) % NodeCount

\* The node's handleGet.
handleGet(r) ==
  /\ req[r].pc = "read"
  /\ req' = [req EXCEPT ![r].pc = "got", ![r].got = Get(target(req[r]), req[r].key),
                        ![r].tried = @ \cup {target(req[r])}]
  /\ UNCHANGED <<cluster, leaderID, cache, readCounter, lost>>

\* The next node, up to one full pass.
readLost(r) ==
  /\ req[r].pc = "read"
  /\ lost < MaxLost /\ lost' = lost + 1
  /\ req' = [req EXCEPT ![r].tried = @ \cup {target(req[r])}, ![r].i = @ + 1,
                        ![r].pc = IF req[r].i + 1 = NodeCount THEN "done" ELSE "read",
                        ![r].status = IF req[r].i + 1 = NodeCount THEN 503 ELSE 0]
  /\ UNCHANGED <<cluster, leaderID, cache, readCounter>>

\* Mutant: whatever was found is cached.
isCacheableAll(got) == TRUE

isCacheableConsistency(got) == ~got.critical

\* The rest of handleRead.
readDelivered(r) ==
  /\ req[r].pc = "got"
  /\ answer(r, IF req[r].got = NotFound THEN 404 ELSE 200)
  /\ cache' = IF req[r].got # NotFound /\ isCacheableConsistency(req[r].got)
              THEN C!Set(cache, req[r].key, [entry |-> req[r].got, after |-> {w \in Writer : done(w)}])
              ELSE cache
  /\ UNCHANGED <<cluster, leaderID, readCounter, lost>>

-----------------------------------------------------------------------------
(* The cluster, as far as the handlers see it.                             *)

Elect(n) ==
  /\ newest < MaxTerm
  /\ role' = [role EXCEPT ![n] = "LEADER"]
  /\ term' = [term EXCEPT ![n] = newest + 1]
  /\ UNCHANGED <<pending, committed, lastApplied, leaderID, cache, readCounter, req, lost>>

StepDown(n) ==
  /\ term[n] < newest
  /\ role' = [role EXCEPT ![n] = "FOLLOWER"]
  /\ term' = [term EXCEPT ![n] = newest]
  /\ UNCHANGED <<pending, committed, lastApplied, leaderID, cache, readCounter, req, lost>>

Commit(p) ==
  /\ p \in pending
  /\ pending' = pending \ {p}
  /\ committed' = Append(committed,
       [from |-> p.from, try |-> p.try, op |-> req[p.from].op, key |-> req[p.from].key,
        critical |-> req[p.from].critical])
  /\ UNCHANGED <<role, term, lastApplied, leaderID, cache, readCounter, req, lost>>

Apply(n) ==
  /\ lastApplied[n] < Len(committed)
  /\ lastApplied' = [lastApplied EXCEPT ![n] = @ + 1]
  /\ UNCHANGED <<role, term, pending, committed, leaderID, cache, readCounter, req, lost>>

\* The refresh of the background loop (run).
run ==
  /\ \E up \in SUBSET Node : leaderID' = refreshed(up)
  /\ leaderID' # leaderID
  /\ UNCHANGED <<cluster, cache, readCounter, req, lost>>

Next ==
  \/ \E r \in Writer :
       \/ \E op \in {"PUT", "DELETE", "EVENT"}, key \in Written, critical \in BOOLEAN :
            (op = "DELETE" => ~critical) /\ handleWrite(r, op, key, critical)
       \/ refresh(r)
       \/ writeThroughRaft(r)
       \/ Propose(r)
       \/ writeLost(r)
       \/ writeDelivered(r)
  \/ \E r \in Reader :
       \/ \E key \in Key : handleRead(r, key)
       \/ handleGet(r)
       \/ readLost(r)
       \/ readDelivered(r)
  \/ \E n \in Node : Elect(n) \/ StepDown(n) \/ Apply(n)
  \/ \E p \in pending : Commit(p)
  \/ run

Spec == Init /\ [][Next]_vars

-----------------------------------------------------------------------------
\* A write answered with 2xx is committed, and however many attempts and late
\* commits there were, it was committed at most twice: once per attempt.
AnswersAreTrue ==
  \A r \in Writer : req[r].pc # "new" =>
    LET commits == {i \in 1..Len(committed) : committed[i].from = r}
    IN  /\ done(r) /\ req[r].status \in {201, 204} => commits # {}
        /\ Cardinality(commits) <= 2

\* The cache holds only what some node had committed under that key, nothing
\* of CRITICAL consistency, within its capacity, and its list and its map have
\* the same keys.
CacheIsSound ==
  /\ {cache.order[i] : i \in 1..Len(cache.order)} = DOMAIN cache.items
  /\ Cardinality(DOMAIN cache.items) = Len(cache.order)
  /\ Len(cache.order) <= CacheCapacity
  /\ \A k \in DOMAIN cache.items :
       /\ ~cache.items[k].entry.critical
       /\ \E i \in 1..Len(committed) : committed[i] = cache.items[k].entry /\ committed[i].key = k


\* A read fails only when every node was tried.
ReadsTryEveryNode == \A r \in Reader : done(r) /\ req[r].status = 503 => req[r].tried = Node

=============================================================================
