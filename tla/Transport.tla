----------------------------- MODULE Transport -----------------------------
(***************************************************************************)
(* Raft's gRPC transport with the faults that the admin server injects     *)
(* (internal/raft/rpc, internal/admin).  A node's Faults are asked twice   *)
(* for a call, by the sender's Transport and by the receiver's Server; each*)
(* time they are read once, and the call may then sleep for the latency    *)
(* while the admin server changes them, field by field.                    *)
(***************************************************************************)
EXTENDS Integers

CONSTANTS
  Node,
  Call,      \* identities of calls
  Absent,    \* a field a request does not have
  MaxChanges \* bound: requests to the admin servers

VARIABLES
  faults,   \* each node's faults
  request,  \* the fields a handleFault on a node has yet to set, the others Absent
  conns,    \* the peers each Transport has dialed
  call,     \* each call: stage, kind, ends and the faults it read
  ordered,  \* history: the nodes an administrator has cut off
  cut,      \* history: for each call, its ends cut off since before it began
  handled,  \* history: the calls a node handled
  changes

vars == <<faults, request, conns, call, ordered, cut, handled, changes>>

NoFaults  == [partitioned |-> FALSE, latency |-> 0, dropRate |-> 0]
NoRequest == [partitioned |-> Absent, latency |-> Absent, dropRate |-> Absent]

Init ==
  /\ faults = [n \in Node |-> NoFaults]
  /\ request = [n \in Node |-> NoRequest]
  /\ conns = [n \in Node |-> {}]
  /\ call = [c \in Call |-> [stage |-> "unsent"]]
  /\ ordered = {} /\ cut = [c \in Call |-> {}] /\ handled = {} /\ changes = 0

\* Faults.apply after its one read st: a rate of 1 drops every call.
mayProceed(st) == ~st.partitioned /\ st.dropRate < 2
mayDrop(st)    == st.partitioned \/ st.dropRate > 0

\* The start of a Send...: the caller's faults are read.
Send(kind, c, n, peer) ==
  /\ call[c].stage = "unsent" /\ n # peer
  /\ call' = [call EXCEPT ![c] =
       [stage |-> "sending", kind |-> kind, from |-> n, to |-> peer, read |-> faults[n]]]
  /\ cut' = [cut EXCEPT ![c] = ordered \intersect {n, peer}]
  /\ UNCHANGED <<faults, request, conns, ordered, handled, changes>>

SendRequestVote(c, n, peer)     == Send("RequestVote", c, n, peer)
SendAppendEntries(c, n, peer)   == Send("AppendEntries", c, n, peer)
SendInstallSnapshot(c, n, peer) == Send("InstallSnapshot", c, n, peer)

\* clientFor, and the call arrives: the receiver's faults are read.
clientFor(c) ==
  /\ call[c].stage = "sending" /\ mayProceed(call[c].read)
  /\ conns' = [conns EXCEPT ![call[c].from] = @ \union {call[c].to}]
  /\ call' = [call EXCEPT ![c] = [@ EXCEPT !.stage = "serving", !.read = faults[call[c].to]]]
  /\ UNCHANGED <<faults, request, ordered, cut, handled, changes>>

\* ErrFaultInjected on one side, codes.Unavailable on the other.
drop(c) ==
  /\ call[c].stage \in {"sending", "serving"} /\ mayDrop(call[c].read)
  /\ call' = [call EXCEPT ![c] = [stage |-> "failed"]]
  /\ UNCHANGED <<faults, request, conns, ordered, cut, handled, changes>>

\* Mutant: the server does not ask its faults.
handleUnasked(kind, c) ==
  /\ call[c].stage = "serving" /\ call[c].kind = kind
  /\ handled' = handled \union {c}
  /\ call' = [call EXCEPT ![c] = [stage |-> "answered"]]
  /\ UNCHANGED <<faults, request, conns, ordered, cut, changes>>

\* The node handles the call; its answer is not subject to faults.
handle(kind, c) ==
  /\ call[c].stage = "serving" /\ call[c].kind = kind /\ mayProceed(call[c].read)
  /\ handled' = handled \union {c}
  /\ call' = [call EXCEPT ![c] = [stage |-> "answered"]]
  /\ UNCHANGED <<faults, request, conns, ordered, cut, changes>>

RequestVote(c)     == handle("RequestVote", c)
AppendEntries(c)   == handle("AppendEntries", c)
InstallSnapshot(c) == handle("InstallSnapshot", c)

\* handleFault: the fields that are present, to be set one after the other.
handleFault(n, p, l, d) ==
  /\ request[n] = NoRequest /\ changes < MaxChanges /\ changes' = changes + 1
  /\ request' = [request EXCEPT ![n] = [partitioned |-> p, latency |-> l, dropRate |-> d]]
  /\ UNCHANGED <<faults, conns, call, ordered, cut, handled>>

\* SetDropRate clamps its argument; a rate of 1 is 2 here.
clamped(rate) == IF rate < 0 THEN 0 ELSE IF rate > 2 THEN 2 ELSE rate

\* The administrators' orders after node n is cut off, or not.
order(n, on) ==
  /\ ordered' = IF on THEN ordered \union {n} ELSE ordered \ {n}
  /\ cut' = [c \in Call |-> IF on THEN cut[c] ELSE cut[c] \ {n}]

SetPartitioned(n) ==
  /\ request[n].partitioned # Absent
  /\ faults' = [faults EXCEPT ![n].partitioned = request[n].partitioned]
  /\ order(n, request[n].partitioned)
  /\ request' = [request EXCEPT ![n].partitioned = Absent]
  /\ UNCHANGED <<conns, call, handled, changes>>

SetLatency(n) ==
  /\ request[n].partitioned = Absent /\ request[n].latency # Absent
  /\ faults' = [faults EXCEPT ![n].latency = request[n].latency]
  /\ request' = [request EXCEPT ![n].latency = Absent]
  /\ UNCHANGED <<conns, call, ordered, cut, handled, changes>>

SetDropRate(n) ==
  /\ request[n].partitioned = Absent /\ request[n].latency = Absent
  /\ request[n].dropRate # Absent
  /\ faults' = [faults EXCEPT ![n].dropRate = clamped(request[n].dropRate)]
  /\ request' = [request EXCEPT ![n].dropRate = Absent]
  /\ UNCHANGED <<conns, call, ordered, cut, handled, changes>>

\* handleRestore: Reset, also between two fields of a handleFault.
handleRestore(n) ==
  /\ changes < MaxChanges /\ changes' = changes + 1
  /\ faults' = [faults EXCEPT ![n] = NoFaults] /\ order(n, FALSE)
  /\ UNCHANGED <<request, conns, call, handled>>

Next ==
  \/ \E c \in Call :
       \/ \E n, peer \in Node : \/ SendRequestVote(c, n, peer)
                                \/ SendAppendEntries(c, n, peer)
                                \/ SendInstallSnapshot(c, n, peer)
       \/ clientFor(c) \/ drop(c)
       \/ RequestVote(c) \/ AppendEntries(c) \/ InstallSnapshot(c)
  \/ \E n \in Node :
       \/ \E p \in {Absent, TRUE, FALSE}, l \in {Absent, 1}, d \in {Absent, -1, 1, 3} :
            handleFault(n, p, l, d)
       \/ SetPartitioned(n) \/ SetLatency(n) \/ SetDropRate(n)
       \/ handleRestore(n)

Spec == Init /\ [][Next]_vars

-----------------------------------------------------------------------------
\* A node that is cut off is isolated in both directions: no call to or from
\* it that begins under the partition is handled while it lasts, whatever
\* latency and drop rate are set, and in whatever order, next to it.
PartitionIsolates == \A c \in handled : cut[c] = {}

=============================================================================
