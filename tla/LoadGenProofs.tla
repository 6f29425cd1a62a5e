---------------------------- MODULE LoadGenProofs ----------------------------
(***************************************************************************)
(* The load generator's report is complete, for every scenario and every   *)
(* capacity of its semaphore and of its result channel.                    *)
(*                                                                         *)
(* The argument is conservation: a request that was dispatched waits for   *)
(* the semaphore, is under way, waits for room in the channel, is in the   *)
(* channel, or is in the report; and Run returns when all but the last     *)
(* are empty.                                                              *)
(***************************************************************************)
EXTENDS LoadGen, TLAPS

\* What a scenario is: rates and durations are numbers, and a ramp that takes
\* no time is never asked for its slope.
Scenario ==
  /\ Baseline \in Nat /\ Peak \in Nat /\ Scale \in Nat \ {0}
  /\ RampUp \in Nat /\ PeakDuration \in Nat /\ RampDown \in Nat

Types ==
  /\ sent \in Int /\ fired \in Int /\ results \in Int
  /\ waiting \in Int /\ inflight \in Int /\ answered \in Int /\ resultsCh \in Int

\* Every request dispatched is in one place.
Conserved == fired = waiting + inflight + answered + resultsCh + results

\* After Run has returned there is no goroutine left.
NothingLeft ==
  phase = "done" => waiting = 0 /\ inflight = 0 /\ answered = 0 /\ resultsCh = 0

IInv == Types /\ Conserved /\ NothingLeft

LEMMA Slope ==
  ASSUME NEW a \in Int, NEW b \in Nat \ {0}
  PROVE  a \div b \in Int /\ a % b \in Int
OBVIOUS

\* The target rate is a number at every time.
LEMMA TargetIsInt ==
  ASSUME Scenario, NEW t \in Nat
  PROVE  TargetRPS(t) \in Int
<1>1. CASE t < RampUp
  <2>1. RampUp \in Nat \ {0} /\ (Peak - Baseline) * t \in Int
    BY <1>1 DEF Scenario
  <2>2. ((Peak - Baseline) * t) \div RampUp \in Int
    BY <2>1, Slope
  <2> DEFINE q == ((Peak - Baseline) * t) \div RampUp
  <2>3. TargetRPS(t) = Baseline + q
    BY <1>1 DEF TargetRPS, Scenario
  <2> HIDE DEF q
  <2> QED
    BY <2>2, <2>3 DEF Scenario, q
<1>2. CASE ~(t < RampUp) /\ t < RampUp + PeakDuration
  BY <1>2 DEF TargetRPS, Scenario
<1>3. CASE ~(t < RampUp) /\ ~(t < RampUp + PeakDuration)
  <2>1. CASE t < TotalDuration
    <3>1. RampDown \in Nat \ {0} /\ (Peak - Baseline) * (t - RampUp - PeakDuration) \in Int
      BY <1>3, <2>1 DEF Scenario, TotalDuration
    <3> DEFINE q == ((Peak - Baseline) * (t - RampUp - PeakDuration)) \div RampDown
    <3>2. q \in Int
      BY <3>1, Slope
    <3>3. TargetRPS(t) = Peak - q
      BY <1>3, <2>1 DEF TargetRPS, Scenario, TotalDuration
    <3> HIDE DEF q
    <3> QED
      BY <3>2, <3>3 DEF Scenario
  <2>2. CASE ~(t < TotalDuration)
    BY <1>3, <2>2 DEF TargetRPS, Scenario, TotalDuration
  <2> QED
    BY <2>1, <2>2
<1> QED
  BY <1>1, <1>2, <1>3

\* The dispatch loop, whatever the number of requests due.
LEMMA DispatchKeepsInv ==
  ASSUME Scenario, IInv, NEW t \in 1..TotalDuration, dispatch(t)
  PROVE  IInv'
<1> DEFINE due == sent + TargetRPS(t)
           d   == due \div Scale
           r   == due % Scale
<1>1. t \in Nat
  BY DEF Scenario, TotalDuration
<1>2. due \in Int
  BY <1>1, TargetIsInt DEF IInv, Types
<1>3. /\ phase = "dispatch" /\ phase' = phase
      /\ sent' = r /\ fired' = fired + d /\ waiting' = waiting + d
      /\ UNCHANGED <<inflight, answered, resultsCh, results>>
  BY DEF dispatch
<1>4. d \in Int /\ r \in Int
  <2> HIDE DEF due
  <2> QED
    BY <1>2, Slope DEF Scenario
<1> HIDE DEF d, r
<1> QED
  BY <1>3, <1>4 DEF IInv, Types, Conserved, NothingLeft

LEMMA NextKeepsInv == Scenario /\ IInv /\ [Next]_vars => IInv'
<1> SUFFICES ASSUME Scenario, IInv, [Next]_vars PROVE IInv'
  OBVIOUS
<1>1. CASE \/ warmupStart \/ warmupPut \/ warmup \/ warmupCancel
          \/ dispatchEnd \/ Inject \/ Injected \/ stopped
  BY <1>1 DEF warmupStart, warmupPut, warmup, warmupCancel, dispatchEnd, Inject, Injected,
              stopped, fvars, IInv, Types, Conserved, NothingLeft
<1>2. ASSUME NEW t \in 1..TotalDuration, dispatch(t) PROVE IInv'
  BY <1>2, DispatchKeepsInv
<1>3. CASE fire \/ Do
  BY <1>3 DEF fire, Do, IInv, Types, Conserved, NothingLeft
<1>4. CASE result \/ collect
  BY <1>4 DEF result, collect, IInv, Types, Conserved, NothingLeft
<1>5. CASE Run
  BY <1>5 DEF Run, closable, fvars, IInv, Types, Conserved, NothingLeft
<1>6. CASE UNCHANGED vars
  BY <1>6 DEF vars, fvars, IInv, Types, Conserved, NothingLeft
<1> QED
  BY <1>1, <1>2, <1>3, <1>4, <1>5, <1>6 DEF Next

\* The report of Run has one result for each request that was dispatched.
THEOREM ReportIsComplete ==
  ASSUME Scenario
  PROVE  Spec => []EveryRequestIsReported
<1>1. Init => IInv
  BY DEF Init, IInv, Types, Conserved, NothingLeft
<1>2. IInv /\ [Next]_vars => IInv'
  BY NextKeepsInv
<1>3. IInv => EveryRequestIsReported
  BY DEF IInv, Types, Conserved, NothingLeft, EveryRequestIsReported
<1> QED
  BY <1>1, <1>2, <1>3, PTL DEF Spec

=============================================================================
