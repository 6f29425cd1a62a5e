--------------------------- MODULE TransportProofs ---------------------------
(***************************************************************************)
(* A partitioned node is isolated, for any number of nodes and calls.      *)
(*                                                                         *)
(* PartitionIsolates is about the calls already handled; what makes it     *)
(* inductive is what the faults read on the way say of the ends that were  *)
(* cut off before the call began and still are: the sender's reading shows *)
(* the sender's partition, and once a call is past the sender, which then  *)
(* is not cut off, the receiver's reading shows the receiver's.            *)
(***************************************************************************)
EXTENDS Transport, TLAPS

\* What the proof needs of the variables' types.
Types ==
  /\ faults \in [Node -> [partitioned : BOOLEAN, latency : Int, dropRate : Int]]
  /\ request \in [Node -> [partitioned : BOOLEAN \union {Absent}, latency : {Absent, 1},
                           dropRate : {Absent, -1, 1, 3}]]
  /\ call \in [Call -> {[stage |-> s] : s \in {"unsent", "failed", "answered"}} \union
                       [stage : {"sending", "serving"}, from : Node, to : Node,
                        kind : {"RequestVote", "AppendEntries", "InstallSnapshot"},
                        read : [partitioned : BOOLEAN, latency : Int, dropRate : Int]]]
  /\ ordered \subseteq Node
  /\ cut \in [Call -> SUBSET Node]
  /\ handled \subseteq Call

\* The nodes cut off are those whose faults say so.
OrderedIsSet == \A n \in Node : n \in ordered <=> faults[n].partitioned

\* Ends cut off since before a call began are cut off now.
CutIsOrdered == \A c \in Call : cut[c] \subseteq ordered

\* What a call under way has read shows whether its end is cut off.
SendingReads ==
  \A c \in Call : call[c].stage = "sending" =>
    /\ cut[c] \subseteq {call[c].from, call[c].to}
    /\ call[c].from \in cut[c] => call[c].read.partitioned

ServingReads ==
  \A c \in Call : call[c].stage = "serving" =>
    /\ cut[c] \subseteq {call[c].to}
    /\ call[c].to \in cut[c] => call[c].read.partitioned

\* A call that was handled is over.
HandledIsOver == \A c \in handled : call[c].stage = "answered"

IInv ==
  /\ Types /\ OrderedIsSet /\ CutIsOrdered /\ SendingReads /\ ServingReads
  /\ HandledIsOver /\ PartitionIsolates

\* A call that begins: its sender's faults are read, and its ends recorded.
LEMMA SendKeepsInv ==
  ASSUME IInv, NEW c \in Call, NEW n \in Node, NEW peer \in Node,
         NEW kind \in {"RequestVote", "AppendEntries", "InstallSnapshot"},
         Send(kind, c, n, peer)
  PROVE  IInv'
<1> DEFINE new == [stage |-> "sending", kind |-> kind, from |-> n, to |-> peer, read |-> faults[n]]
<1>1. /\ call[c].stage = "unsent"
      /\ call' = [call EXCEPT ![c] = new]
      /\ cut' = [cut EXCEPT ![c] = ordered \intersect {n, peer}]
      /\ UNCHANGED <<faults, request, ordered, handled>>
  BY DEF Send
<1>2. Types'
  BY <1>1 DEF IInv, Types
<1>3. c \notin handled
  BY <1>1 DEF IInv, HandledIsOver
<1>4. /\ call'[c] = new /\ cut'[c] = ordered \intersect {n, peer}
      /\ \A d \in Call \ {c} : call'[d] = call[d] /\ cut'[d] = cut[d]
  BY <1>1 DEF IInv, Types
<1>5. (OrderedIsSet /\ CutIsOrdered)'
  BY <1>1, <1>4 DEF IInv, OrderedIsSet, CutIsOrdered
<1>6. SendingReads'
  <2>1. new.stage = "sending" /\ new.from = n /\ new.to = peer /\ new.read = faults[n]
    OBVIOUS
  <2>2. n \in ordered => faults[n].partitioned
    BY DEF IInv, OrderedIsSet
  <2> HIDE DEF new
  <2> QED
    BY <1>4, <2>1, <2>2 DEF IInv, SendingReads
<1>7. ServingReads'
  BY <1>4 DEF IInv, ServingReads
<1>8. (HandledIsOver /\ PartitionIsolates)'
  BY <1>1, <1>3, <1>4 DEF IInv, Types, HandledIsOver, PartitionIsolates
<1> QED
  BY <1>2, <1>5, <1>6, <1>7, <1>8 DEF IInv

\* A call that leaves its sender was not cut off there.
LEMMA ClientForKeepsInv ==
  ASSUME IInv, NEW c \in Call, clientFor(c)
  PROVE  IInv'
<1> DEFINE new == [call[c] EXCEPT !.stage = "serving", !.read = faults[call[c].to]]
<1>1. /\ call[c].stage = "sending" /\ ~call[c].read.partitioned
      /\ call' = [call EXCEPT ![c] = new]
      /\ UNCHANGED <<faults, request, ordered, cut, handled>>
  BY DEF clientFor, mayProceed
<1>2. /\ call[c].from \in Node /\ call[c].to \in Node
      /\ call[c] \in [stage : {"sending", "serving"}, from : Node, to : Node,
                      kind : {"RequestVote", "AppendEntries", "InstallSnapshot"},
                      read : [partitioned : BOOLEAN, latency : Int, dropRate : Int]]
  BY <1>1 DEF IInv, Types
<1>3. /\ new \in [stage : {"sending", "serving"}, from : Node, to : Node,
                  kind : {"RequestVote", "AppendEntries", "InstallSnapshot"},
                  read : [partitioned : BOOLEAN, latency : Int, dropRate : Int]]
      /\ new.stage = "serving" /\ new.to = call[c].to /\ new.read = faults[call[c].to]
  BY <1>2 DEF IInv, Types
<1> HIDE DEF new
<1>4. Types'
  BY <1>1, <1>3 DEF IInv, Types
<1>5. /\ call'[c] = new /\ \A d \in Call \ {c} : call'[d] = call[d]
      /\ c \notin handled
  BY <1>1 DEF IInv, Types, HandledIsOver
<1>6. (OrderedIsSet /\ CutIsOrdered)'
  BY <1>1 DEF IInv, OrderedIsSet, CutIsOrdered
<1>7. SendingReads'
  BY <1>1, <1>3, <1>5 DEF IInv, SendingReads
<1>8. ServingReads'
  <2>1. cut[c] \subseteq {call[c].to}
    BY <1>1 DEF IInv, SendingReads
  <2>2. call[c].to \in cut[c] => faults[call[c].to].partitioned
    BY <1>2 DEF IInv, CutIsOrdered, OrderedIsSet
  <2> QED
    BY <1>1, <1>3, <1>5, <2>1, <2>2 DEF IInv, ServingReads
<1>9. (HandledIsOver /\ PartitionIsolates)'
  BY <1>1, <1>5 DEF IInv, Types, HandledIsOver, PartitionIsolates
<1> QED
  BY <1>4, <1>6, <1>7, <1>8, <1>9 DEF IInv

\* A call that is over, handled or not: handled, it was cut off at neither end.
LEMMA OverKeepsInv ==
  ASSUME IInv, NEW c \in Call,
         \/ drop(c)
         \/ \E kind \in {"RequestVote", "AppendEntries", "InstallSnapshot"} : handle(kind, c)
  PROVE  IInv'
<1>1. UNCHANGED <<faults, request, ordered, cut>>
  BY DEF drop, handle
<1>2. PICK s \in {"failed", "answered"} : call' = [call EXCEPT ![c] = [stage |-> s]]
  BY DEF drop, handle
<1>3. \/ handled' = handled /\ call[c].stage \in {"sending", "serving"}
      \/ handled' = handled \union {c} /\ s = "answered" /\ cut[c] = {}
  <2>1. CASE drop(c)
    BY <2>1 DEF drop
  <2>2. CASE \E kind \in {"RequestVote", "AppendEntries", "InstallSnapshot"} : handle(kind, c)
    <3>1. /\ call[c].stage = "serving" /\ ~call[c].read.partitioned
          /\ handled' = handled \union {c} /\ call' = [call EXCEPT ![c] = [stage |-> "answered"]]
      BY <2>2 DEF handle, mayProceed
    <3>2. cut[c] = {}
      BY <3>1 DEF IInv, ServingReads
    <3>3. s = "answered"
      <4>1. call'[c] = [stage |-> s] /\ call'[c] = [stage |-> "answered"]
        BY <1>2, <3>1 DEF IInv, Types
      <4> QED
        BY <4>1
    <3> QED
      BY <3>1, <3>2, <3>3
  <2> QED
    BY <2>1, <2>2
<1>4. Types'
  BY <1>1, <1>2, <1>3 DEF IInv, Types
<1>5. call'[c].stage = s /\ \A d \in Call \ {c} : call'[d] = call[d]
  BY <1>2 DEF IInv, Types
<1>6. (OrderedIsSet /\ CutIsOrdered)'
  BY <1>1 DEF IInv, OrderedIsSet, CutIsOrdered
<1>7. (SendingReads /\ ServingReads)'
  BY <1>1, <1>5 DEF IInv, SendingReads, ServingReads
<1>8. (HandledIsOver /\ PartitionIsolates)'
  BY <1>1, <1>3, <1>5 DEF IInv, Types, HandledIsOver, PartitionIsolates
<1> QED
  BY <1>4, <1>6, <1>7, <1>8 DEF IInv

\* An order of an administrator, with the partition set to match.
LEMMA OrderKeepsInv ==
  ASSUME IInv, NEW n \in Node, NEW on \in BOOLEAN, order(n, on), Types',
         \A m \in Node : faults'[m].partitioned = IF m = n THEN on ELSE faults[m].partitioned,
         UNCHANGED <<call, handled>>
  PROVE  IInv'
<1>1. /\ ordered' = IF on THEN ordered \union {n} ELSE ordered \ {n}
      /\ \A c \in Call : cut'[c] = IF on THEN cut[c] ELSE cut[c] \ {n}
  BY DEF order
<1>2. (OrderedIsSet /\ CutIsOrdered)'
  BY <1>1 DEF IInv, OrderedIsSet, CutIsOrdered
<1>3. (SendingReads /\ ServingReads)'
  BY <1>1 DEF IInv, SendingReads, ServingReads
<1>4. (HandledIsOver /\ PartitionIsolates)'
  BY <1>1 DEF IInv, Types, HandledIsOver, PartitionIsolates
<1> QED
  BY <1>2, <1>3, <1>4 DEF IInv

\* The other steps of the admin server change neither partitions nor calls.
LEMMA OtherKeepsInv ==
  ASSUME IInv, Types', \A m \in Node : faults'[m].partitioned = faults[m].partitioned,
         UNCHANGED <<call, ordered, cut, handled>>
  PROVE  IInv'
BY DEF IInv, OrderedIsSet, CutIsOrdered, SendingReads, ServingReads, HandledIsOver,
       PartitionIsolates

LEMMA NextKeepsInv == IInv /\ [Next]_vars => IInv'
<1> SUFFICES ASSUME IInv, [Next]_vars PROVE IInv'
  OBVIOUS
<1>1. ASSUME NEW c \in Call, NEW n \in Node, NEW peer \in Node,
             \/ SendRequestVote(c, n, peer)
             \/ SendAppendEntries(c, n, peer)
             \/ SendInstallSnapshot(c, n, peer)
      PROVE  IInv'
  BY <1>1, SendKeepsInv DEF SendRequestVote, SendAppendEntries, SendInstallSnapshot
<1>2. ASSUME NEW c \in Call, clientFor(c) PROVE IInv'
  BY <1>2, ClientForKeepsInv
<1>3. ASSUME NEW c \in Call, drop(c) \/ RequestVote(c) \/ AppendEntries(c) \/ InstallSnapshot(c)
      PROVE  IInv'
  BY <1>3, OverKeepsInv DEF RequestVote, AppendEntries, InstallSnapshot
<1>4. ASSUME NEW n \in Node, NEW p \in {Absent, TRUE, FALSE}, NEW l \in {Absent, 1},
             NEW d \in {Absent, -1, 1, 3}, handleFault(n, p, l, d)
      PROVE  IInv'
  <2>1. UNCHANGED <<faults, call, ordered, cut, handled>>
    BY <1>4 DEF handleFault
  <2>2. Types'
    BY <1>4 DEF handleFault, IInv, Types
  <2> QED
    BY <2>1, <2>2, OtherKeepsInv
<1>5. ASSUME NEW n \in Node, SetPartitioned(n) PROVE IInv'
  <2> DEFINE on == request[n].partitioned
  <2>1. on \in BOOLEAN
    BY <1>5 DEF SetPartitioned, IInv, Types
  <2>2. /\ faults' = [faults EXCEPT ![n].partitioned = on] /\ order(n, on)
        /\ UNCHANGED <<call, handled>>
        /\ request' = [request EXCEPT ![n].partitioned = Absent]
    BY <1>5 DEF SetPartitioned
  <2> HIDE DEF on
  <2>3. Types'
    BY <2>1, <2>2 DEF IInv, Types, order
  <2>4. \A m \in Node : faults'[m].partitioned = IF m = n THEN on ELSE faults[m].partitioned
    BY <2>2 DEF IInv, Types
  <2> QED
    BY <2>1, <2>2, <2>3, <2>4, OrderKeepsInv
<1>6. ASSUME NEW n \in Node, SetLatency(n) \/ SetDropRate(n) PROVE IInv'
  <2>1. Types'
    <3>1. CASE SetLatency(n)
      <4>1. request[n].latency \in Int
        BY <3>1 DEF SetLatency, IInv, Types
      <4> QED
        BY <3>1, <4>1 DEF SetLatency, IInv, Types
    <3>2. CASE SetDropRate(n)
      <4>1. clamped(request[n].dropRate) \in Int
        BY <3>2 DEF SetDropRate, clamped, IInv, Types
      <4> QED
        BY <3>2, <4>1 DEF SetDropRate, IInv, Types
    <3> QED
      BY <1>6, <3>1, <3>2
  <2>2. \A m \in Node : faults'[m].partitioned = faults[m].partitioned
    BY <1>6 DEF SetLatency, SetDropRate, IInv, Types
  <2>3. UNCHANGED <<call, ordered, cut, handled>>
    BY <1>6 DEF SetLatency, SetDropRate
  <2> QED
    BY <2>1, <2>2, <2>3, OtherKeepsInv
<1>7. ASSUME NEW n \in Node, handleRestore(n) PROVE IInv'
  <2>1. /\ faults' = [faults EXCEPT ![n] = NoFaults] /\ order(n, FALSE)
        /\ UNCHANGED <<request, call, handled>>
    BY <1>7 DEF handleRestore
  <2>2. Types'
    BY <2>1 DEF IInv, Types, order, NoFaults
  <2>3. \A m \in Node : faults'[m].partitioned = IF m = n THEN FALSE ELSE faults[m].partitioned
    BY <2>1 DEF IInv, Types, NoFaults
  <2> QED
    BY <2>1, <2>2, <2>3, OrderKeepsInv
<1>8. CASE UNCHANGED vars
  BY <1>8 DEF vars, IInv, Types, OrderedIsSet, CutIsOrdered, SendingReads, ServingReads,
              HandledIsOver, PartitionIsolates
<1> QED
  BY <1>1, <1>2, <1>3, <1>4, <1>5, <1>6, <1>7, <1>8 DEF Next

\* No call to or from a partitioned node that begins under the partition is
\* handled while it lasts (Faults.apply in Transport and in Server), whatever
\* the other faults, the latencies and the orders in which they are set.
THEOREM PartitionsIsolate == Spec => []PartitionIsolates
<1>1. Init => IInv
  BY DEF Init, IInv, Types, NoFaults, NoRequest, OrderedIsSet, CutIsOrdered, SendingReads,
         ServingReads, HandledIsOver, PartitionIsolates
<1>2. IInv => PartitionIsolates
  BY DEF IInv
<1> QED
  BY <1>1, <1>2, NextKeepsInv, PTL DEF Spec

=============================================================================
