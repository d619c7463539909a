----------------------------- MODULE LoadEngine -----------------------------
(***************************************************************************)
(* The load generator's engine: arrivals at a constant rate, each admitted *)
(* to a free concurrency slot or shed, goroutines that attempt one request *)
(* each, statistics, and the circuit breaker that ends the run.            *)
(***************************************************************************)
EXTENDS Breaker

CONSTANTS
  Concurrency,  \* slots of the semaphore
  HasBreaker,   \* FALSE in the incident scenario
  MaxArrivals   \* bound: ticks of a run that find the breaker quiet

ASSUME EngineAssumption ==
  Concurrency \in Nat \ {0} /\ HasBreaker \in BOOLEAN /\ MaxArrivals \in Nat

VARIABLES
  loop,       \* what run is doing
  result,     \* what run returns
  interrupted, \* the context is canceled
  tripped,
  attempt,    \* per slot: what its goroutine is doing
  stats,      \* requests, errors and shed, and the arrivals and cuts nobody counts
  late        \* history: arrivals since the breaker tripped

vars == <<breakerVars, loop, result, interrupted, tripped, attempt, stats, late>>

-----------------------------------------------------------------------------
Sem == 1..Concurrency

LoopSteps == {"select", "arriving", "draining", "returned"}
Results == {"none", "nil", "tripped"}

\* A goroutine is waiting for its answer, has counted it (ok or failed), or is
\* about to store that the breaker tripped.
AttemptSteps == {"free", "waiting", "ok", "failed", "alarmed"}

Stats == [arrivals : 0..MaxArrivals, requests : 0..MaxArrivals, errors : 0..MaxArrivals,
          shed : 0..MaxArrivals, cut : 0..MaxArrivals]

Init ==
  /\ BreakerInit
  /\ loop = "select" /\ result = "none"
  /\ interrupted = FALSE /\ tripped = FALSE
  /\ attempt = [s \in Sem |-> "free"]
  /\ stats = [arrivals |-> 0, requests |-> 0, errors |-> 0, shed |-> 0, cut |-> 0]
  /\ late = 0

Goes(s, step) == attempt' = [attempt EXCEPT ![s] = step]

-----------------------------------------------------------------------------
(* run.  select takes any case that is ready; progress lines change nothing. *)

Return(r) == loop' = "draining" /\ result' = r

\* Mutated form: the tick does not look at the breaker.
TickUnchecked ==
  /\ loop = "select"
  /\ stats.arrivals < MaxArrivals /\ loop' = "arriving" /\ UNCHANGED result
  /\ UNCHANGED <<breakerVars, interrupted, tripped, attempt, stats, late>>

Tick ==
  /\ loop = "select"
  /\ \/ tripped /\ Return("tripped")
     \/ ~tripped /\ stats.arrivals < MaxArrivals /\ loop' = "arriving" /\ UNCHANGED result
  /\ UNCHANGED <<breakerVars, interrupted, tripped, attempt, stats, late>>

Deadline ==
  /\ loop = "select"
  /\ Return("nil")
  /\ UNCHANGED <<breakerVars, interrupted, tripped, attempt, stats, late>>

Done == interrupted /\ Deadline

\* arrive: the arrival takes a free slot, or is shed.
Admit(s) ==
  /\ loop = "arriving" /\ loop' = "select"
  /\ attempt[s] = "free"
  /\ Goes(s, "waiting")
  /\ stats' = [stats EXCEPT !.arrivals = @ + 1]
  /\ late' = IF tripped THEN late + 1 ELSE late
  /\ UNCHANGED <<breakerVars, result, interrupted, tripped>>

Shed ==
  /\ loop = "arriving" /\ loop' = "select"
  /\ \A s \in Sem : attempt[s] # "free"
  /\ stats' = [stats EXCEPT !.arrivals = @ + 1, !.shed = @ + 1]
  /\ late' = IF tripped THEN late + 1 ELSE late
  /\ UNCHANGED <<breakerVars, result, interrupted, tripped, attempt>>

\* The deferred wg.Wait.
Drained ==
  /\ loop = "draining" /\ loop' = "returned"
  /\ \A s \in Sem : attempt[s] = "free"
  /\ UNCHANGED <<breakerVars, result, interrupted, tripped, attempt, stats, late>>

Interrupt ==
  /\ ~interrupted /\ loop # "returned"
  /\ interrupted' = TRUE
  /\ UNCHANGED <<breakerVars, loop, result, tripped, attempt, stats, late>>

-----------------------------------------------------------------------------
(* attempt. *)

\* Mutated form: a failed request is counted as an error only.
AnswerHalfCounted(s, failed) ==
  /\ attempt[s] = "waiting"
  /\ Goes(s, IF failed THEN "failed" ELSE "ok")
  /\ stats' = IF failed THEN [stats EXCEPT !.errors = @ + 1]
              ELSE [stats EXCEPT !.requests = @ + 1]
  /\ UNCHANGED <<breakerVars, loop, result, interrupted, tripped, late>>

\* The request is answered, or times out, and the statistics are updated.
Answer(s, failed) ==
  /\ attempt[s] = "waiting"
  /\ Goes(s, IF failed THEN "failed" ELSE "ok")
  /\ stats' = [stats EXCEPT !.requests = @ + 1, !.errors = IF failed THEN @ + 1 ELSE @]
  /\ UNCHANGED <<breakerVars, loop, result, interrupted, tripped, late>>

\* cutByInterrupt: neither a request nor an error.
Cut(s) ==
  /\ attempt[s] = "waiting" /\ interrupted
  /\ Goes(s, "free")
  /\ stats' = [stats EXCEPT !.cut = @ + 1]
  /\ UNCHANGED <<breakerVars, loop, result, interrupted, tripped, late>>

\* Mutated form: the breaker is told what worked.
FeedInverted(s) ==
  /\ attempt[s] \in {"ok", "failed"}
  /\ IF HasBreaker
     THEN Record(attempt[s] = "ok") /\ Goes(s, IF alarm' THEN "alarmed" ELSE "free")
     ELSE UNCHANGED breakerVars /\ Goes(s, "free")
  /\ UNCHANGED <<loop, result, interrupted, tripped, stats, late>>

\* breaker.record; without a breaker the goroutine is done.
Feed(s) ==
  /\ attempt[s] \in {"ok", "failed"}
  /\ IF HasBreaker
     THEN Record(attempt[s] = "failed") /\ Goes(s, IF alarm' THEN "alarmed" ELSE "free")
     ELSE UNCHANGED breakerVars /\ Goes(s, "free")
  /\ UNCHANGED <<loop, result, interrupted, tripped, stats, late>>

\* Mutated form: the slot is not released.
TripKeepsSlot(s) ==
  /\ attempt[s] = "alarmed"
  /\ tripped' = TRUE
  /\ UNCHANGED <<breakerVars, loop, result, interrupted, attempt, stats, late>>

\* tripped.Store(true)
Trip(s) ==
  /\ attempt[s] = "alarmed"
  /\ tripped' = TRUE
  /\ Goes(s, "free")
  /\ UNCHANGED <<breakerVars, loop, result, interrupted, stats, late>>

-----------------------------------------------------------------------------
Goroutine(s) == (\E failed \in BOOLEAN : Answer(s, failed)) \/ Cut(s) \/ Feed(s) \/ Trip(s)
Arrive == (\E s \in Sem : Admit(s)) \/ Shed
Run == Tick \/ Deadline \/ Done \/ Arrive \/ Drained

\* A run that has returned is over.
Over == loop = "returned" /\ UNCHANGED vars

Next == Run \/ Interrupt \/ (\E s \in Sem : Goroutine(s)) \/ Over

Spec == Init /\ [][Next]_vars

\* The client's timeout ends every request; the select is fair to its cases
\* (Go picks a ready one at random), here to the tick and to the deadline.
FairSpec ==
  /\ Spec
  /\ WF_vars(Arrive) /\ WF_vars(Drained) /\ SF_vars(Tick) /\ SF_vars(Deadline)
  /\ \A s \in Sem : WF_vars(Goroutine(s))

-----------------------------------------------------------------------------
TypeOK ==
  /\ BreakerTypeOK
  /\ loop \in LoopSteps /\ result \in Results
  /\ interrupted \in BOOLEAN /\ tripped \in BOOLEAN
  /\ attempt \in [Sem -> AttemptSteps]
  /\ stats \in Stats
  /\ late \in 0..MaxArrivals

Waiting == {s \in Sem : attempt[s] = "waiting"}

(***************************************************************************)
(* "An arrival that finds `concurrency' requests in flight is SHED and     *)
(* counted, never delayed": every arrival is in flight, counted once in    *)
(* the summary or cut by the interrupt, and none is in flight when run has *)
(* returned.                                                               *)
(***************************************************************************)
EveryArrivalIsCounted ==
  /\ stats.arrivals = stats.requests + stats.shed + stats.cut + Cardinality(Waiting)
  /\ stats.errors <= stats.requests
  /\ loop = "returned" => \A s \in Sem : attempt[s] = "free"

(***************************************************************************)
(* Once the breaker has tripped no arrival is made, but for the one whose  *)
(* tick had already looked.                                                *)
(***************************************************************************)
LoadStopsWhenTripped == late <= IF loop = "arriving" THEN 0 ELSE 1

(***************************************************************************)
(* The breaker trips on what the statistics show: half a window of         *)
(* requests, and more errors than half of the fewest it may judge.         *)
(***************************************************************************)
TripIsEarned ==
  tripped \/ result = "tripped" =>
    /\ HasBreaker
    /\ stats.requests >= Size \div 2 /\ 2 * stats.errors > Size \div 2

\* A run ends, drained, whatever the server does.
RunEnds == <>(loop = "returned")

=============================================================================
