------------------------------ MODULE LoadGen ------------------------------
(***************************************************************************)
(* The load generator (simulator/loadgen.go): a warm-up that PUTs every    *)
(* key, a dispatch loop that starts a goroutine for each request due, the  *)
(* semaphore they pass, the result channel that is only drained once the   *)
(* dispatch loop is over, and the failure injector.                        *)
(*                                                                         *)
(* Goroutines are alike, so they are counted.  Target rates are requests   *)
(* for each tick of the dispatch loop; a ticker whose reader is late drops *)
(* ticks.                                                                  *)
(***************************************************************************)
EXTENDS Integers

CONSTANTS
  Keys,              \* number of keys to warm up
  warmupConcurrency,
  Baseline, Peak,    \* target rates, in Scale-ths of a request for each tick
  Scale,
  RampUp, PeakDuration, RampDown, \* in ticks
  Concurrency,
  ResultsCap,        \* the buffer of resultsCh
  InjectAt           \* when the injector acts

VARIABLES
  phase,     \* of Run: "warmup", "dispatch", "collect", "done", or "error"
  unstarted, warming, warmupFailed, \* the warm-up's keys
  now, sent, \* the dispatch loop's clock and its fraction of a request
  waiting, inflight, answered,      \* goroutines before sem, in Do, at the send
  resultsCh, results,
  injector,  \* "waiting", "injecting" or "over"
  fired      \* history: the requests dispatched

wvars == <<unstarted, warming, warmupFailed>>
fvars == <<waiting, inflight, answered, resultsCh>>
vars == <<phase, wvars, now, sent, fvars, results, injector, fired>>

TotalDuration == RampUp + PeakDuration + RampDown

\* Scenario.TargetRPS at a time of the run.
TargetRPS(elapsed) ==
  CASE elapsed < RampUp -> Baseline + ((Peak - Baseline) * elapsed) \div RampUp
    [] elapsed >= RampUp /\ elapsed < RampUp + PeakDuration -> Peak
    [] elapsed >= RampUp + PeakDuration /\ elapsed < TotalDuration ->
         Peak - ((Peak - Baseline) * (elapsed - RampUp - PeakDuration)) \div RampDown
    [] OTHER -> Baseline

Init ==
  /\ phase = "warmup" /\ unstarted = Keys /\ warming = 0 /\ warmupFailed = FALSE
  /\ now = 0 /\ sent = 0
  /\ waiting = 0 /\ inflight = 0 /\ answered = 0 /\ resultsCh = 0
  /\ results = 0 /\ injector = "waiting" /\ fired = 0

\* warmup: a goroutine for each key, as far as its semaphore goes.
warmupStart ==
  /\ phase = "warmup" /\ unstarted > 0 /\ warming < warmupConcurrency
  /\ unstarted' = unstarted - 1 /\ warming' = warming + 1
  /\ UNCHANGED <<phase, warmupFailed, now, sent, fvars, results, injector, fired>>

\* Any answer will do; no answer is kept as the error.
warmupPut ==
  /\ warming > 0 /\ warming' = warming - 1
  /\ warmupFailed' \in {warmupFailed, TRUE}
  /\ UNCHANGED <<phase, unstarted, now, sent, fvars, results, injector, fired>>

warmup ==
  /\ phase = "warmup" /\ unstarted = 0 /\ warming = 0
  /\ phase' = IF warmupFailed THEN "error" ELSE "dispatch"
  /\ UNCHANGED <<wvars, now, sent, fvars, results, injector, fired>>

\* The caller's context ends before every key is started; those that were go on.
warmupCancel ==
  /\ phase = "warmup" /\ unstarted > 0
  /\ phase' = "error"
  /\ UNCHANGED <<wvars, now, sent, fvars, results, injector, fired>>

\* One turn of the dispatch loop, for the tick at time t.
dispatch(t) ==
  /\ phase = "dispatch" /\ t > now /\ t <= TotalDuration
  /\ now' = t
  /\ LET due == sent + TargetRPS(t)
     IN  /\ sent' = due % Scale
         /\ fired' = fired + due \div Scale
         /\ waiting' = waiting + due \div Scale
  /\ UNCHANGED <<phase, wvars, inflight, answered, resultsCh, results, injector>>

\* The tick after the deadline ends the loop and closes stopCh.
dispatchEnd ==
  /\ phase = "dispatch" /\ phase' = "collect"
  /\ UNCHANGED <<wvars, now, sent, fvars, results, injector, fired>>

fire ==
  /\ waiting > 0 /\ inflight + answered < Concurrency
  /\ waiting' = waiting - 1 /\ inflight' = inflight + 1
  /\ UNCHANGED <<phase, wvars, now, sent, answered, resultsCh, results, injector, fired>>

\* The request has its answer, or its timeout.
Do ==
  /\ inflight > 0 /\ inflight' = inflight - 1 /\ answered' = answered + 1
  /\ UNCHANGED <<phase, wvars, now, sent, waiting, resultsCh, results, injector, fired>>

\* The send on resultsCh, and after it the semaphore and wg are released.
result ==
  /\ answered > 0 /\ resultsCh < ResultsCap
  /\ answered' = answered - 1 /\ resultsCh' = resultsCh + 1
  /\ UNCHANGED <<phase, wvars, now, sent, waiting, inflight, results, injector, fired>>

\* The injector's timer, which may win over a stopCh that is closed as well.
Inject ==
  /\ injector = "waiting" /\ (phase = "collect" \/ (phase = "dispatch" /\ now >= InjectAt))
  /\ injector' = "injecting"
  /\ UNCHANGED <<phase, wvars, now, sent, fvars, results, fired>>

Injected ==
  /\ injector = "injecting" /\ injector' = "over"
  /\ UNCHANGED <<phase, wvars, now, sent, fvars, results, fired>>

\* stopCh is closed, or the context has ended.
stopped ==
  /\ phase \in {"dispatch", "collect"} /\ injector = "waiting" /\ injector' = "over"
  /\ UNCHANGED <<phase, wvars, now, sent, fvars, results, fired>>

\* Mutant: the channel is closed without waiting for the requests.
closableEarly == waiting = 0 /\ inflight = 0

\* wg.Wait returns: every goroutine, and the injector, is done.
closable == waiting = 0 /\ inflight = 0 /\ answered = 0 /\ injector = "over"

\* Mutant: results are only read once every goroutine is done.
collectAfterWait ==
  /\ phase = "collect" /\ closable /\ resultsCh > 0
  /\ resultsCh' = resultsCh - 1 /\ results' = results + 1
  /\ UNCHANGED <<phase, wvars, now, sent, waiting, inflight, answered, injector, fired>>

collect ==
  /\ phase = "collect" /\ resultsCh > 0
  /\ resultsCh' = resultsCh - 1 /\ results' = results + 1
  /\ UNCHANGED <<phase, wvars, now, sent, waiting, inflight, answered, injector, fired>>

\* resultsCh is closed and drained: the report has what was collected.
Run ==
  /\ phase = "collect" /\ closable /\ resultsCh = 0
  /\ phase' = "done"
  /\ UNCHANGED <<wvars, now, sent, fvars, results, injector, fired>>

Next ==
  \/ warmupStart \/ warmupPut \/ warmup \/ warmupCancel
  \/ (\E t \in 1..TotalDuration : dispatch(t)) \/ dispatchEnd
  \/ fire \/ Do \/ result
  \/ Inject \/ Injected \/ stopped
  \/ collect \/ Run

\* Some goroutine that can run does, the ticker ticks until the deadline is
\* past, a request has a timeout, and an injection returns.
step == warmupStart \/ warmupPut \/ warmup \/ dispatchEnd \/ fire \/ Do \/ result
          \/ Injected \/ stopped \/ collect \/ Run

Fairness == WF_vars(step)

Spec == Init /\ [][Next]_vars /\ Fairness

-----------------------------------------------------------------------------
\* The report has one result for each request dispatched, none lost and none
\* counted twice, however full the result channel was.
EveryRequestIsReported == phase = "done" => results = fired

\* Run returns: goroutines that hold the semaphore and wait for room in
\* resultsCh, and goroutines that wait for the semaphore, do not wait for ever.
RunReturns == <>(phase \in {"done", "error"})

=============================================================================
