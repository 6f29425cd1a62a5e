------------------------------- MODULE Ingest -------------------------------
(***************************************************************************)
(* Campus events from their source to the store: cmd/ingest fetches and    *)
(* normalizes a batch (internal/events) and posts each event; the gateway  *)
(* sends it to the leader and, when no answer comes back, once more; the   *)
(* node normalizes what it receives again and stores it under its ID.  A   *)
(* request whose answer is lost may or may not have been applied.          *)
(***************************************************************************)
EXTENDS Integers, Sequences, FiniteSets

CONSTANTS
  Type,       \* event types, invalid ones included
  Attendance, \* expected attendances
  Given,      \* urgencies a source gives, "" included
  MaxRounds   \* bound: rounds of ingestion

VARIABLES
  batch,     \* the events runOnce has yet to post
  attempt,   \* of the gateway, for the first of them; 0: not posted yet
  store,     \* the entry under event:<ID>
  signalled, \* history: IDs for which the gateway entered CRITICAL mode
  ingested,  \* history: what ingestion computed for each ID
  acked,     \* history: IDs whose post was answered with 201
  lastID,    \* generateID: IDs are not used twice
  rounds

vars == <<batch, attempt, store, signalled, ingested, acked, lastID, rounds>>

Valid == {"ACADEMIC", "ATHLETICS", "STUDENT_ORG", "CAMPUS_EVENT", "DINING",
          "TRANSPORTATION", "WEATHER", "EMERGENCY", "SYSTEM"}

\* The fields that matter of an event a source delivers: no ID, and an
\* urgency or a traffic multiplier only where the source knows it.
Raw == [ID : {0}, Type : Type, ExpectedAttendance : Attendance, Urgency : Given,
        ExpectedTrafficMultiplier : {0}]

validate(e) == e.Type \in Valid /\ e.ExpectedAttendance >= 0

\* The urgency of an event: the one given, or by type and attendance.
classify(e) ==
  CASE e.Urgency # "" -> e.Urgency
    [] e.Urgency = "" /\ e.Type \in {"EMERGENCY", "WEATHER"} -> "CRITICAL"
    [] e.Urgency = "" /\ e.Type = "ATHLETICS" /\ e.ExpectedAttendance >= 5000 -> "HIGH"
    [] e.Urgency = "" /\ e.Type = "CAMPUS_EVENT" /\ e.ExpectedAttendance >= 2000 -> "HIGH"
    [] OTHER -> "NORMAL"

\* The traffic multiplier, in thousandths.
estimateTraffic(e) ==
  CASE e.ExpectedTrafficMultiplier > 0 -> e.ExpectedTrafficMultiplier
    [] e.ExpectedTrafficMultiplier = 0 /\ e.Urgency = "CRITICAL" -> 20000
    [] OTHER -> IF e.ExpectedAttendance > 14000 THEN 15000 ELSE 1000 + e.ExpectedAttendance

\* Mutant: every event gets an ID of its own, one that has one included.
NormalizeAfresh(e, id) ==
  LET c == [e EXCEPT !.ID = id, !.Urgency = classify(e)]
  IN  [c EXCEPT !.ExpectedTrafficMultiplier = estimateTraffic(c)]

\* Normalize, for a valid event: fills in what is missing.
Normalize(e, id) ==
  LET c == [e EXCEPT !.ID = IF e.ID = 0 THEN id ELSE e.ID, !.Urgency = classify(e)]
  IN  [c EXCEPT !.ExpectedTrafficMultiplier = estimateTraffic(c)]


consistencyForUrgency(u) ==
  CASE u = "CRITICAL" -> "CRITICAL"
    [] u \in {"HIGH", "SCHEDULED_SPIKE"} -> "STRONG"
    [] OTHER -> "EVENTUAL"

Init ==
  /\ batch = <<>> /\ attempt = 0 /\ store = <<>>
  /\ signalled = {} /\ ingested = <<>> /\ acked = {} /\ lastID = 0 /\ rounds = 0

\* FetchAndNormalize: an event that is not valid is skipped, the rest kept.
FetchAndNormalize(raw) ==
  LET valid == SelectSeq(raw, validate)
  IN  [i \in DOMAIN valid |-> Normalize(valid[i], lastID + i)]

runOnce(raw) ==
  /\ batch = <<>> /\ rounds < MaxRounds /\ rounds' = rounds + 1
  /\ batch' = FetchAndNormalize(raw)
  /\ lastID' = lastID + Len(batch')
  /\ ingested' = [id \in 1..lastID' |-> IF id <= lastID THEN ingested[id] ELSE batch'[id - lastID]]
  /\ UNCHANGED <<attempt, store, signalled, acked>>

\* postEvent, and the gateway's first attempt begins.
postEvent ==
  /\ batch # <<>> /\ attempt = 0 /\ attempt' = 1
  /\ UNCHANGED <<batch, store, signalled, ingested, acked, lastID, rounds>>

\* The node's handlePostEvent, for the event the gateway sends it.
handlePostEvent(id) ==
  LET e == Normalize(Head(batch), lastID + 1)
  IN  /\ id = e.ID
      /\ store' = [k \in DOMAIN store \union {id} |->
                     IF k = id THEN [event |-> e, consistency |-> consistencyForUrgency(e.Urgency)]
                     ELSE store[k]]
      /\ lastID' = IF id > lastID THEN id ELSE lastID

\* Created: the gateway reads the urgency in the answer and passes it on.
delivered ==
  /\ attempt > 0
  /\ \E id \in 1..(lastID + 1) :
       /\ handlePostEvent(id)
       /\ signalled' = IF store'[id].event.Urgency = "CRITICAL" THEN signalled \union {id} ELSE signalled
       /\ acked' = acked \union {Head(batch).ID}
  /\ batch' = Tail(batch) /\ attempt' = 0
  /\ UNCHANGED <<ingested, rounds>>

\* No answer, with the event applied or not: a second attempt after a
\* refresh, and then 503, which ingestion logs before the next event.
notDelivered ==
  /\ attempt > 0
  /\ \/ UNCHANGED <<store, lastID>>
     \/ \E id \in 1..(lastID + 1) : handlePostEvent(id)
  /\ IF attempt = 1 THEN attempt' = 2 /\ UNCHANGED batch
     ELSE attempt' = 0 /\ batch' = Tail(batch)
  /\ UNCHANGED <<signalled, ingested, acked, rounds>>

Next ==
  \/ \E a \in Raw : runOnce(<<a>>) \/ \E b \in Raw : runOnce(<<a, b>>)
  \/ postEvent \/ delivered \/ notDelivered

Spec == Init /\ [][Next]_vars

-----------------------------------------------------------------------------
\* What is in the store is what ingestion made of the source's events, once
\* each: an event that is sent again, or normalized again by the node, takes
\* no second key and does not change.
StoredOnceAsIngested ==
  \A id \in DOMAIN store : id \in DOMAIN ingested /\ store[id].event = ingested[id]


=============================================================================
