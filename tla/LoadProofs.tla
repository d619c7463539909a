----------------------------- MODULE LoadProofs -----------------------------
(***************************************************************************)
(* Proofs about Breaker, LoadEngine and LoadClient, for any number of      *)
(* slots, size of the ring, length of the run, mix of operations, images   *)
(* that are there before and limit on the lists of ids.                    *)
(***************************************************************************)
EXTENDS LoadClient, FiniteSetTheorems, SequenceTheorems, TLAPS

-----------------------------------------------------------------------------
(* The circuit breaker, for a ring of every size. *)

Bad == {i \in Used : ring[i]}

\* The inductive invariant.
BInv == BreakerTypeOK /\ CountIsExact

-----------------------------------------------------------------------------
\* Sets of slots are finite.
LEMMA SlotsAreFinite ==
  ASSUME NEW S \in SUBSET Slots
  PROVE  IsFiniteSet(S) /\ Cardinality(S) \in Nat /\ Cardinality(S) <= Size
<1>1. IsFiniteSet(Slots) /\ Cardinality(Slots) = Size
  BY SizeAssumption, FS_Interval DEF Slots
<1>2. IsFiniteSet(S) /\ Cardinality(S) <= Size
  BY <1>1, FS_Subset
<1> QED BY <1>2, FS_CardinalityType

\* The invariant holds at first: the ring is unused.
LEMMA InitBInv == BreakerInit => BInv
<1> SUFFICES ASSUME BreakerInit PROVE BInv
  OBVIOUS
<1>1. BreakerTypeOK
  <2>1. 0 \in Slots /\ 0 \in 0..Size
    BY SizeAssumption DEF Slots
  <2>2. ring \in [Slots -> BOOLEAN]
    BY DEF BreakerInit
  <2> QED BY <2>1, <2>2 DEF BreakerInit, BreakerTypeOK
<1>2. {i \in Used : ring[i]} = {}
  BY SizeAssumption DEF BreakerInit, Used, Slots
<1>3. CountIsExact
  BY <1>2, FS_EmptySet DEF BreakerInit, CountIsExact
<1> QED BY <1>1, <1>3 DEF BInv

\* The running count follows the ring: what the new result overwrites is
\* taken off, unless the ring is not full and the slot held nothing.
LEMMA CountFollows ==
  ASSUME BInv, NEW failed \in BOOLEAN, Record(failed)
  PROVE  failures' = Cardinality({i \in Used : ring[i]}') /\ failures' \in 0..Size
<1> DEFINE kept == Bad \ {next}
           bad == {i \in Used : ring[i]}'
<1> USE SizeAssumption
<1>1. next \in Slots /\ filled \in 0..Size /\ ring \in [Slots -> BOOLEAN]
  BY DEF BInv, BreakerTypeOK
<1>2. filled < Size => next = filled
  BY DEF BInv, CountIsExact
<1>3. bad = IF failed THEN kept \cup {next} ELSE kept
  <2>1. Used' = Used \cup {next}
    BY <1>1, <1>2 DEF Record, Used, Slots
  <2>2. \A i \in Slots : ring'[i] = IF i = next THEN failed ELSE ring[i]
    BY <1>1 DEF Record
  <2>3. Used \subseteq Slots
    BY DEF Used
  <2> QED BY <2>1, <2>2, <2>3, <1>1 DEF Bad
<1>4. next \in Bad <=> filled = Size /\ ring[next]
  BY <1>1, <1>2 DEF Bad, Used, Slots
<1>5. IsFiniteSet(Bad) /\ Cardinality(Bad) \in Nat
  BY SlotsAreFinite DEF Bad, Used
<1>6. failures = Cardinality(Bad)
  BY DEF BInv, CountIsExact, Bad
<1>7. IsFiniteSet(kept) /\ Cardinality(kept) = IF next \in Bad THEN Cardinality(Bad) - 1 ELSE Cardinality(Bad)
  BY <1>5, FS_RemoveElement
<1>8. Cardinality(kept) = failures - Leaving
  BY <1>4, <1>5, <1>6, <1>7 DEF Leaving
<1>9. Cardinality(kept \cup {next}) = Cardinality(kept) + 1
  BY <1>7, FS_AddElement
<1>10. failures' = Cardinality(bad)
  <2>1. failures' = Cardinality(kept) + (IF failed THEN 1 ELSE 0)
    BY <1>8 DEF Record
  <2>2. Cardinality(kept) \in Nat
    BY <1>7, FS_CardinalityType
  <2> HIDE DEF kept, bad
  <2>3. CASE failed
    BY <2>1, <2>3, <1>3, <1>9
  <2>4. CASE ~failed
    BY <2>1, <2>2, <2>4, <1>3
  <2> QED BY <2>3, <2>4
<1>11. Cardinality(bad) \in 0..Size
  <2>1. bad \in SUBSET Slots
    BY <1>1, <1>3 DEF Bad, Used
  <2> QED BY <2>1, SlotsAreFinite
<1> QED BY <1>10, <1>11

\* A call of record keeps the invariant.
LEMMA RecordBInv ==
  ASSUME BInv, NEW failed \in BOOLEAN, Record(failed)
  PROVE  BInv'
<1> USE SizeAssumption
<1>1. next \in Slots /\ filled \in 0..Size /\ ring \in [Slots -> BOOLEAN]
  BY DEF BInv, BreakerTypeOK
<1>2. filled < Size => next = filled
  BY DEF BInv, CountIsExact
<1>3. failures' = Cardinality({i \in Used : ring[i]}') /\ failures' \in 0..Size
  BY CountFollows
<1>4. next' \in Slots /\ filled' \in 0..Size /\ (filled' < Size => next' = filled')
  BY <1>1, <1>2 DEF Record, After, Slots
<1>5. ring' \in [Slots -> BOOLEAN]
  BY <1>1 DEF Record
<1>6. alarm' \in BOOLEAN
  BY DEF Record, Trips
<1> QED BY <1>3, <1>4, <1>5, <1>6 DEF BInv, BreakerTypeOK, CountIsExact

(***************************************************************************)
(* The invariant of the breaker, for every size of its ring.               *)
(***************************************************************************)
THEOREM BreakerInvariance == BreakerSpec => []BInv
<1>1. BreakerInit => BInv
  BY InitBInv
<1>2. BInv /\ [BreakerNext]_breakerVars => BInv'
  <2> SUFFICES ASSUME BInv, [BreakerNext]_breakerVars PROVE BInv'
    OBVIOUS
  <2>1. CASE BreakerNext
    BY <2>1, RecordBInv DEF BreakerNext
  <2>2. CASE UNCHANGED breakerVars
    BY <2>2 DEF breakerVars, BInv, BreakerTypeOK, CountIsExact, Used
  <2> QED BY <2>1, <2>2
<1> QED BY <1>1, <1>2, PTL DEF BreakerSpec

(***************************************************************************)
(* The running count of failures is the number of failed results that the  *)
(* ring holds, however often it has wrapped round.                         *)
(***************************************************************************)
THEOREM BreakerCounts == BreakerSpec => []CountIsExact
BY BreakerInvariance, PTL DEF BInv

-----------------------------------------------------------------------------
\* The slots behind `next' are the used ones, each once.
LEMMA BackIsOntoUsed ==
  ASSUME BInv
  PROVE  /\ \A k \in 1..filled : Back(k) \in Used
         /\ \A j, k \in 1..filled : Back(j) = Back(k) => j = k
         /\ \A i \in Used : \E k \in 1..filled : Back(k) = i
<1> USE SizeAssumption
<1>1. next \in Slots /\ filled \in 0..Size /\ (filled < Size => next = filled)
  BY DEF BInv, BreakerTypeOK, CountIsExact
<1>2. \A k \in 1..filled : Back(k) \in Used
  BY <1>1 DEF Back, Used, Slots
<1>3. \A j, k \in 1..filled : Back(j) = Back(k) => j = k
  BY <1>1 DEF Back, Slots
<1>4. ASSUME NEW i \in Used PROVE \E k \in 1..filled : Back(k) = i
  <2> DEFINE k == IF i < next THEN next - i ELSE (next + Size) - i
  <2>1. k \in 1..filled /\ Back(k) = i
    BY <1>1 DEF Back, Used, Slots
  <2> QED BY <2>1
<1> QED BY <1>2, <1>3, <1>4

\* The window shows as many failures as the breaker counts.
LEMMA WindowCounts ==
  ASSUME BInv
  PROVE  Cardinality({k \in 1..filled : ring[Back(k)]}) = failures
<1> DEFINE seen == {k \in 1..filled : ring[Back(k)]}
           f == [k \in seen |-> Back(k)]
<1>1. f \in [seen -> Bad]
  BY BackIsOntoUsed DEF Bad
<1>2. \A j, k \in seen : f[j] = f[k] => j = k
  BY BackIsOntoUsed
<1>3. \A i \in Bad : \E k \in seen : f[k] = i
  BY BackIsOntoUsed DEF Bad
<1>4. f \in Bijection(seen, Bad)
  BY <1>1, <1>2, <1>3 DEF Bijection, Injection, Surjection, IsInjective
<1>5. filled \in Nat
  BY SizeAssumption DEF BInv, BreakerTypeOK
<1>6. IsFiniteSet(seen)
  <2>1. IsFiniteSet(1..filled)
    BY <1>5, FS_Interval
  <2>2. seen \in SUBSET (1..filled)
    OBVIOUS
  <2> QED BY <2>1, <2>2, FS_Subset
<1>7. Cardinality(Bad) = Cardinality(seen)
  BY <1>4, <1>6, FS_Bijection DEF ExistsBijection
<1> QED BY <1>7 DEF BInv, CountIsExact, Bad

\* Cardinality is the same operator on both sides of the instance.
LEMMA SameCardinality ==
  ASSUME NEW S
  PROVE  Window!Cardinality(S) = Cardinality(S)
BY DEF Window!Cardinality, Cardinality

\* The window is as long as the ring is full.
LEMMA WindowLength ==
  ASSUME BInv
  PROVE  filled \in Nat /\ Cardinality(1..filled) = filled
<1>1. filled \in Nat
  BY SizeAssumption DEF BInv, BreakerTypeOK
<1> QED BY <1>1, FS_Interval

\* One call of record pushes its result onto the window.
LEMMA RecordPushes ==
  ASSUME BInv, NEW failed \in BOOLEAN, Record(failed)
  PROVE  Window!Record(failed)
<1> DEFINE recent == [k \in 1..filled |-> ring[Back(k)]]
<1> USE SizeAssumption
<1>1. next \in Slots /\ filled \in 0..Size /\ ring \in [Slots -> BOOLEAN]
      /\ (filled < Size => next = filled)
  BY DEF BInv, BreakerTypeOK, CountIsExact
<1>2. BInv'
  BY RecordBInv
<1>3. Window!Length = filled
  <2>1. DOMAIN recent = 1..filled
    OBVIOUS
  <2>2. Window!Length = Cardinality(DOMAIN recent)
    BY SameCardinality DEF Window!Length
  <2> QED BY <2>1, <2>2, WindowLength
<1>4. filled' = IF filled < Size THEN filled + 1 ELSE Size
  BY <1>1 DEF Record
<1>5. ASSUME NEW k \in 1..filled'
      PROVE  ring'[Back(k)'] = IF k = 1 THEN failed ELSE recent[k - 1]
  <2>1. \A i \in Slots : ring'[i] = IF i = next THEN failed ELSE ring[i]
    BY <1>1 DEF Record
  <2>2. CASE k = 1
    <3>1. Back(k)' = next
      BY <1>1, <2>2 DEF Back, Record, After, Slots
    <3> QED BY <3>1, <2>1, <2>2, <1>1
  <2>3. CASE k # 1
    <3>1. k - 1 \in 1..filled
      BY <1>1, <1>4, <2>3
    <3>2. Back(k)' = Back(k - 1)
      BY <1>1, <1>4, <2>3 DEF Back, Record, After, Slots
    <3>3. Back(k - 1) \in Slots /\ Back(k - 1) # next
      BY <1>1, <1>4, <2>3 DEF Back, Slots
    <3> QED BY <3>1, <3>2, <3>3, <2>1, <2>3
  <2> QED BY <2>2, <2>3
<1>6. recent' = Window!Pushed(failed)
  BY <1>3, <1>4, <1>5 DEF Window!Pushed
<1>7. Cardinality(DOMAIN recent') = filled'
  <2>1. (filled \in Nat /\ Cardinality(1..filled) = filled)'
    BY <1>2, WindowLength, PTL
  <2> QED BY <2>1
<1>8. Cardinality(Window!Failed(recent')) = failures'
  <2>1. (Cardinality({k \in 1..filled : ring[Back(k)]}) = failures)'
    BY <1>2, WindowCounts, PTL
  <2>2. Window!Failed(recent') = {k \in 1..filled : ring[Back(k)]}'
    BY DEF Window!Failed
  <2> QED BY <2>1, <2>2
<1>9. alarm' = Trips(filled', failures')
  BY DEF Record
<1>10. alarm' = ( /\ Cardinality(DOMAIN recent') >= Size \div 2
                 /\ 2 * Cardinality(Window!Failed(recent')) > Cardinality(DOMAIN recent') )
  <2> HIDE DEF recent
  <2> QED BY <1>7, <1>8, <1>9 DEF Trips
<1> QED BY <1>6, <1>10, SameCardinality DEF Window!Record

(***************************************************************************)
(* The breaker implements the window of the last results: it gives the     *)
(* alarm exactly when more than half of them failed and half a window has  *)
(* been seen.                                                              *)
(***************************************************************************)
THEOREM BreakerRefinement == BreakerSpec => ImplementsWindow
<1>1. BreakerInit => Window!Init
  <2> SUFFICES ASSUME BreakerInit PROVE Window!Init
    OBVIOUS
  <2>1. 1..filled = {}
    BY DEF BreakerInit
  <2> QED BY <2>1 DEF Window!Init, BreakerInit
<1>2. BInv /\ [BreakerNext]_breakerVars => [Window!Next]_Window!vars
  <2> SUFFICES ASSUME BInv, [BreakerNext]_breakerVars
               PROVE  [Window!Next]_Window!vars
    OBVIOUS
  <2>1. CASE BreakerNext
    BY <2>1, RecordPushes DEF BreakerNext, Window!Next
  <2>2. CASE UNCHANGED breakerVars
    BY <2>2 DEF breakerVars, Window!vars, Back
  <2> QED BY <2>1, <2>2
<1> QED BY <1>1, <1>2, BreakerInvariance, PTL DEF BreakerSpec, ImplementsWindow, Window!Spec

-----------------------------------------------------------------------------
(* The engine. *)

Counted == {s \in Sem : attempt[s] \in {"ok", "failed"}}
Erred == {s \in Sem : attempt[s] = "failed"}

EngineTypes ==
  /\ loop \in LoopSteps /\ result \in Results
  /\ interrupted \in BOOLEAN /\ tripped \in BOOLEAN
  /\ attempt \in [Sem -> AttemptSteps]
  /\ stats \in Stats
  /\ late \in 0..MaxArrivals

\* Every arrival is somewhere; one more will fit.
Balance ==
  /\ stats.arrivals = stats.requests + stats.shed + stats.cut + Cardinality(Waiting)
  /\ loop = "arriving" => stats.arrivals < MaxArrivals
  /\ loop = "returned" => \A s \in Sem : attempt[s] = "free"

\* The breaker has been fed no more than was counted: what a goroutine has
\* counted and not yet fed is still to come.
FedIsCounted ==
  /\ filled + Cardinality(Counted) <= stats.requests
  /\ failures + Cardinality(Erred) <= stats.errors

Earned == HasBreaker /\ stats.requests >= Size \div 2 /\ 2 * stats.errors > Size \div 2

AlarmsAreEarned ==
  tripped \/ result = "tripped" \/ (\E s \in Sem : attempt[s] = "alarmed") => Earned

\* The tick that admits an arrival has looked.
LateIsOne ==
  /\ late <= 1
  /\ ~tripped \/ loop = "arriving" => late = 0

EngineInv ==
  /\ BInv /\ EngineTypes /\ Balance /\ stats.errors <= stats.requests
  /\ FedIsCounted /\ AlarmsAreEarned /\ LateIsOne

\* Requests in flight can be counted.
LEMMA SemIsFinite ==
  ASSUME NEW S \in SUBSET Sem
  PROVE  IsFiniteSet(S) /\ Cardinality(S) \in Nat
<1>1. IsFiniteSet(Sem)
  BY EngineAssumption, FS_Interval DEF Sem
<1> QED
  BY <1>1, FS_Subset, FS_CardinalityType

\* How many slots are at a step when one of them moves.
LEMMA OneMoves ==
  ASSUME NEW S \in SUBSET Sem, NEW T \in SUBSET Sem, NEW s \in Sem,
         S \ {s} = T \ {s}
  PROVE  /\ s \in S /\ s \in T => Cardinality(T) = Cardinality(S)
         /\ s \notin S /\ s \notin T => Cardinality(T) = Cardinality(S)
         /\ s \in S /\ s \notin T => Cardinality(T) = Cardinality(S) - 1
         /\ s \notin S /\ s \in T => Cardinality(T) = Cardinality(S) + 1
<1>1. IsFiniteSet(S) /\ IsFiniteSet(T) /\ Cardinality(S) \in Nat /\ Cardinality(T) \in Nat
  BY SemIsFinite
<1>2. Cardinality(S \ {s}) = IF s \in S THEN Cardinality(S) - 1 ELSE Cardinality(S)
  BY <1>1, FS_RemoveElement
<1>3. Cardinality(T \ {s}) = IF s \in T THEN Cardinality(T) - 1 ELSE Cardinality(T)
  BY <1>1, FS_RemoveElement
<1> QED
  BY <1>1, <1>2, <1>3

\* The sets of a slot's steps, when one slot goes to another step.
LEMMA SlotsMove ==
  ASSUME EngineTypes, NEW s \in Sem, NEW step \in AttemptSteps, Goes(s, step)
  PROVE  /\ attempt' \in [Sem -> AttemptSteps]
         /\ \A t \in Sem : attempt'[t] = IF t = s THEN step ELSE attempt[t]
         /\ Waiting' \subseteq Sem /\ Waiting \subseteq Sem /\ Waiting \ {s} = Waiting' \ {s}
         /\ Counted' \subseteq Sem /\ Counted \subseteq Sem /\ Counted \ {s} = Counted' \ {s}
         /\ Erred' \subseteq Sem /\ Erred \subseteq Sem /\ Erred \ {s} = Erred' \ {s}
<1>1. \A t \in Sem : attempt'[t] = IF t = s THEN step ELSE attempt[t]
  BY DEF Goes, EngineTypes
<1>2. attempt' \in [Sem -> AttemptSteps]
  BY DEF Goes, EngineTypes
<1>3. Sem' = Sem
  BY DEF Sem
<1> QED
  BY <1>1, <1>2, <1>3 DEF Waiting, Counted, Erred

\* Nothing has arrived, and the ring is empty.
LEMMA EngineInit == Init => EngineInv
<1> SUFFICES ASSUME Init PROVE EngineInv
  OBVIOUS
<1>1. BInv
  BY InitBInv DEF Init
<1>2. EngineTypes
  <2>1. 0 \in 0..MaxArrivals
    BY EngineAssumption
  <2>2. stats \in Stats
    BY <2>1 DEF Init, Stats
  <2>3. attempt \in [Sem -> AttemptSteps]
    BY DEF Init, AttemptSteps
  <2> QED
    BY <2>1, <2>2, <2>3 DEF Init, EngineTypes, LoopSteps, Results
<1>3. Waiting = {} /\ Counted = {} /\ Erred = {}
  BY DEF Init, Waiting, Counted, Erred
<1>4. Cardinality(Waiting) = 0 /\ Cardinality(Counted) = 0 /\ Cardinality(Erred) = 0
  BY <1>3, FS_EmptySet
<1>5. Balance /\ FedIsCounted
  BY <1>4 DEF Init, BreakerInit, Balance, FedIsCounted
<1>6. AlarmsAreEarned /\ LateIsOne
  BY DEF Init, AlarmsAreEarned, LateIsOne
<1> QED
  BY <1>1, <1>2, <1>5, <1>6 DEF EngineInv, Init

\* What the invariant's parts take from statistics that only grow.
LEMMA BreakerRests ==
  ASSUME BInv, UNCHANGED breakerVars
  PROVE  BInv'
BY DEF BInv, BreakerTypeOK, CountIsExact, Used, breakerVars

\* The loop's steps but for the arrival: tick, deadline, interrupt, drained.
LEMMA LoopKeeps ==
  ASSUME EngineInv, Tick \/ Deadline \/ Interrupt \/ Drained
  PROVE  EngineInv'
<1>1. UNCHANGED <<breakerVars, attempt, stats, late, tripped>>
  BY DEF Tick, Deadline, Interrupt, Drained
<1>2. BInv'
  BY <1>1, BreakerRests DEF EngineInv
<1>3. EngineTypes'
  BY <1>1 DEF EngineInv, EngineTypes, Tick, Deadline, Interrupt, Drained, Return, LoopSteps, Results
<1>4. Waiting' = Waiting /\ Counted' = Counted /\ Erred' = Erred
  BY <1>1 DEF Waiting, Counted, Erred
<1>5. Balance'
  BY <1>1, <1>4 DEF EngineInv, Balance, Tick, Deadline, Interrupt, Drained, Return
<1>6. FedIsCounted'
  BY <1>1, <1>4 DEF EngineInv, FedIsCounted, breakerVars
<1>7. AlarmsAreEarned'
  <2>1. result' = "tripped" => tripped \/ result = "tripped"
    BY DEF Tick, Deadline, Interrupt, Drained, Return
  <2>2. Earned' <=> Earned
    BY <1>1 DEF Earned
  <2> QED
    BY <1>1, <2>1, <2>2 DEF EngineInv, AlarmsAreEarned
<1>8. LateIsOne'
  BY <1>1 DEF EngineInv, LateIsOne, Tick, Deadline, Interrupt, Drained, Return
<1> QED
  BY <1>1, <1>2, <1>3, <1>5, <1>6, <1>7, <1>8 DEF EngineInv

\* The arrival's numbers stay below the bound of the run.
LEMMA StatsFit ==
  ASSUME EngineInv
  PROVE  /\ stats \in [arrivals : Nat, requests : Nat, errors : Nat, shed : Nat, cut : Nat]
         /\ Cardinality(Waiting) \in Nat
         /\ stats.requests + stats.shed + stats.cut + Cardinality(Waiting) = stats.arrivals
         /\ stats.arrivals <= MaxArrivals
<1>1. Cardinality(Waiting) \in Nat
  BY SemIsFinite DEF Waiting
<1> QED
  BY <1>1 DEF EngineInv, EngineTypes, Balance, Stats

\* An admitted arrival is one that waits.
LEMMA AdmitKeeps ==
  ASSUME EngineInv, NEW s \in Sem, Admit(s)
  PROVE  EngineInv'
<1>1. UNCHANGED <<breakerVars, result, interrupted, tripped>>
  BY DEF Admit
<1>2. BInv'
  BY <1>1, BreakerRests DEF EngineInv
<1>3. stats' = [stats EXCEPT !.arrivals = @ + 1] /\ loop = "arriving" /\ loop' = "select"
  BY DEF Admit
<1>4. /\ attempt' \in [Sem -> AttemptSteps]
      /\ \A t \in Sem : attempt'[t] = IF t = s THEN "waiting" ELSE attempt[t]
      /\ Waiting' \subseteq Sem /\ Waiting \subseteq Sem /\ Waiting \ {s} = Waiting' \ {s}
      /\ Counted' \subseteq Sem /\ Counted \subseteq Sem /\ Counted \ {s} = Counted' \ {s}
      /\ Erred' \subseteq Sem /\ Erred \subseteq Sem /\ Erred \ {s} = Erred' \ {s}
  BY SlotsMove, "waiting" \in AttemptSteps DEF EngineInv, Admit, AttemptSteps
<1>5. s \notin Waiting /\ s \notin Counted /\ s \notin Erred
  BY DEF Admit, Waiting, Counted, Erred
<1>6. s \in Waiting' /\ s \notin Counted' /\ s \notin Erred'
  BY <1>4 DEF Waiting, Counted, Erred
<1>7. Cardinality(Waiting') = Cardinality(Waiting) + 1
  BY <1>4, <1>5, <1>6, OneMoves
<1>8. Cardinality(Counted') = Cardinality(Counted) /\ Cardinality(Erred') = Cardinality(Erred)
  BY <1>4, <1>5, <1>6, OneMoves
<1>9. /\ stats \in [arrivals : Nat, requests : Nat, errors : Nat, shed : Nat, cut : Nat]
      /\ Cardinality(Waiting) \in Nat
      /\ stats.requests + stats.shed + stats.cut + Cardinality(Waiting) = stats.arrivals
      /\ stats.arrivals < MaxArrivals
  BY <1>3, StatsFit DEF EngineInv, Balance
<1>10. late' \in 0..MaxArrivals /\ LateIsOne'
  BY <1>1, <1>3, <1>9, EngineAssumption DEF EngineInv, EngineTypes, LateIsOne, Admit
<1>11. EngineTypes'
  <2>1. stats' \in Stats
    BY <1>3, <1>9, EngineAssumption DEF EngineInv, EngineTypes, Stats
  <2> QED
    BY <1>1, <1>3, <1>4, <1>10, <2>1 DEF EngineInv, EngineTypes, LoopSteps
<1>12. Balance'
  BY <1>3, <1>7, <1>9 DEF Balance
<1>13. FedIsCounted' /\ stats'.errors <= stats'.requests
  BY <1>1, <1>3, <1>8, <1>9 DEF EngineInv, FedIsCounted, breakerVars
<1>14. AlarmsAreEarned'
  BY <1>1, <1>3, <1>4, <1>9 DEF EngineInv, AlarmsAreEarned, Earned
<1> QED
  BY <1>2, <1>10, <1>11, <1>12, <1>13, <1>14 DEF EngineInv

\* An arrival that finds no slot is counted as shed.
LEMMA ShedKeeps ==
  ASSUME EngineInv, Shed
  PROVE  EngineInv'
<1>1. UNCHANGED <<breakerVars, result, interrupted, tripped, attempt>>
  BY DEF Shed
<1>2. BInv'
  BY <1>1, BreakerRests DEF EngineInv
<1>3. /\ stats' = [stats EXCEPT !.arrivals = @ + 1, !.shed = @ + 1]
      /\ loop = "arriving" /\ loop' = "select"
  BY DEF Shed
<1>4. Waiting' = Waiting /\ Counted' = Counted /\ Erred' = Erred
  BY <1>1 DEF Waiting, Counted, Erred
<1>5. /\ stats \in [arrivals : Nat, requests : Nat, errors : Nat, shed : Nat, cut : Nat]
      /\ Cardinality(Waiting) \in Nat
      /\ stats.requests + stats.shed + stats.cut + Cardinality(Waiting) = stats.arrivals
      /\ stats.arrivals < MaxArrivals
  BY <1>3, StatsFit DEF EngineInv, Balance
<1>6. late' \in 0..MaxArrivals /\ LateIsOne'
  BY <1>1, <1>3, <1>5, EngineAssumption DEF EngineInv, EngineTypes, LateIsOne, Shed
<1>7. EngineTypes'
  <2>1. stats' \in Stats
    <3>1. stats.arrivals + 1 \in 0..MaxArrivals /\ stats.shed + 1 \in 0..MaxArrivals
      BY <1>5, EngineAssumption
    <3> QED
      BY <1>3, <3>1 DEF EngineInv, EngineTypes, Stats
  <2> QED
    BY <1>1, <1>3, <1>6, <2>1 DEF EngineInv, EngineTypes, LoopSteps
<1>8. Balance'
  BY <1>3, <1>4, <1>5 DEF Balance
<1>9. FedIsCounted' /\ stats'.errors <= stats'.requests
  BY <1>1, <1>3, <1>4, <1>5 DEF EngineInv, FedIsCounted, breakerVars
<1>10. AlarmsAreEarned'
  BY <1>1, <1>3, <1>5 DEF EngineInv, AlarmsAreEarned, Earned
<1> QED
  BY <1>2, <1>6, <1>7, <1>8, <1>9, <1>10 DEF EngineInv

\* An answer: the request is counted, and with it what the breaker is to hear.
LEMMA AnswerKeeps ==
  ASSUME EngineInv, NEW s \in Sem, NEW failed \in BOOLEAN, Answer(s, failed)
  PROVE  EngineInv'
<1> DEFINE step == IF failed THEN "failed" ELSE "ok"
<1>1. UNCHANGED <<breakerVars, loop, result, interrupted, tripped, late>>
  BY DEF Answer
<1>2. BInv'
  BY <1>1, BreakerRests DEF EngineInv
<1>3. stats' = [stats EXCEPT !.requests = @ + 1, !.errors = IF failed THEN @ + 1 ELSE @]
  BY DEF Answer
<1>4. /\ attempt' \in [Sem -> AttemptSteps]
      /\ \A t \in Sem : attempt'[t] = IF t = s THEN step ELSE attempt[t]
      /\ Waiting' \subseteq Sem /\ Waiting \subseteq Sem /\ Waiting \ {s} = Waiting' \ {s}
      /\ Counted' \subseteq Sem /\ Counted \subseteq Sem /\ Counted \ {s} = Counted' \ {s}
      /\ Erred' \subseteq Sem /\ Erred \subseteq Sem /\ Erred \ {s} = Erred' \ {s}
  <2>1. step \in AttemptSteps /\ Goes(s, step)
    BY DEF Answer, AttemptSteps
  <2> HIDE DEF step
  <2> QED
    BY <2>1, SlotsMove DEF EngineInv
<1>5. s \in Waiting /\ s \notin Counted /\ s \notin Erred
  BY DEF Answer, Waiting, Counted, Erred
<1>6. s \notin Waiting' /\ s \in Counted' /\ (s \in Erred' <=> failed)
  BY <1>4 DEF Waiting, Counted, Erred
<1>7. /\ Cardinality(Waiting') = Cardinality(Waiting) - 1
      /\ Cardinality(Counted') = Cardinality(Counted) + 1
  BY <1>4, <1>5, <1>6, OneMoves
<1>8. Cardinality(Erred') = IF failed THEN Cardinality(Erred) + 1 ELSE Cardinality(Erred)
  BY <1>4, <1>5, <1>6, OneMoves
<1>9. /\ stats \in [arrivals : Nat, requests : Nat, errors : Nat, shed : Nat, cut : Nat]
      /\ Cardinality(Waiting) \in Nat
      /\ stats.requests + stats.shed + stats.cut + Cardinality(Waiting) = stats.arrivals
      /\ stats.arrivals <= MaxArrivals
  BY StatsFit
<1>10. Cardinality(Waiting') \in Nat /\ Cardinality(Counted) \in Nat /\ Cardinality(Erred) \in Nat
  BY <1>4, SemIsFinite
<1>11. EngineTypes'
  <2>1. stats.errors <= stats.requests
    BY DEF EngineInv
  <2>2. stats' \in Stats
    <3>1. stats.requests + 1 \in 0..MaxArrivals
      BY <1>7, <1>9, <1>10, EngineAssumption
    <3>2. stats.errors + 1 \in 0..MaxArrivals
      BY <1>9, <2>1, <3>1, EngineAssumption
    <3> QED
      BY <1>3, <3>1, <3>2 DEF EngineInv, EngineTypes, Stats
  <2> QED
    BY <1>1, <1>4, <2>2 DEF EngineInv, EngineTypes
<1>12. Balance'
  <2>1. loop = "returned" => FALSE
    BY <1>5 DEF EngineInv, Balance, Waiting
  <2>2. loop' = "arriving" => stats'.arrivals < MaxArrivals
    BY <1>1, <1>3, <1>9 DEF EngineInv, Balance
  <2>3. stats'.arrivals = stats'.requests + stats'.shed + stats'.cut + Cardinality(Waiting')
    BY <1>3, <1>7, <1>9
  <2> QED
    BY <1>1, <2>1, <2>2, <2>3 DEF Balance
<1>13. FedIsCounted' /\ stats'.errors <= stats'.requests
  <2>1. filled \in Nat /\ failures \in Nat
    BY SizeAssumption DEF EngineInv, BInv, BreakerTypeOK
  <2> QED
    BY <1>1, <1>3, <1>7, <1>8, <1>9, <1>10, <2>1 DEF EngineInv, FedIsCounted, breakerVars
<1>14. AlarmsAreEarned'
  <2>1. Earned => Earned'
    BY <1>3, <1>9, SizeAssumption DEF Earned
  <2>2. \A t \in Sem : attempt'[t] = "alarmed" => attempt[t] = "alarmed"
    BY <1>4
  <2> QED
    BY <1>1, <2>1, <2>2 DEF EngineInv, AlarmsAreEarned, Sem
<1>15. LateIsOne'
  BY <1>1 DEF EngineInv, LateIsOne
<1> QED
  BY <1>2, <1>11, <1>12, <1>13, <1>14, <1>15 DEF EngineInv

\* A cut request is counted as cut only.
LEMMA CutKeeps ==
  ASSUME EngineInv, NEW s \in Sem, Cut(s)
  PROVE  EngineInv'
<1>1. UNCHANGED <<breakerVars, loop, result, interrupted, tripped, late>>
  BY DEF Cut
<1>2. BInv'
  BY <1>1, BreakerRests DEF EngineInv
<1>3. stats' = [stats EXCEPT !.cut = @ + 1]
  BY DEF Cut
<1>4. /\ attempt' \in [Sem -> AttemptSteps]
      /\ \A t \in Sem : attempt'[t] = IF t = s THEN "free" ELSE attempt[t]
      /\ Waiting' \subseteq Sem /\ Waiting \subseteq Sem /\ Waiting \ {s} = Waiting' \ {s}
      /\ Counted' \subseteq Sem /\ Counted \subseteq Sem /\ Counted \ {s} = Counted' \ {s}
      /\ Erred' \subseteq Sem /\ Erred \subseteq Sem /\ Erred \ {s} = Erred' \ {s}
  BY SlotsMove DEF EngineInv, Cut, AttemptSteps
<1>5. s \in Waiting /\ s \notin Counted /\ s \notin Erred
  BY DEF Cut, Waiting, Counted, Erred
<1>6. s \notin Waiting' /\ s \notin Counted' /\ s \notin Erred'
  BY <1>4 DEF Waiting, Counted, Erred
<1>7. /\ Cardinality(Waiting') = Cardinality(Waiting) - 1
      /\ Cardinality(Counted') = Cardinality(Counted) /\ Cardinality(Erred') = Cardinality(Erred)
  BY <1>4, <1>5, <1>6, OneMoves
<1>8. /\ stats \in [arrivals : Nat, requests : Nat, errors : Nat, shed : Nat, cut : Nat]
      /\ Cardinality(Waiting) \in Nat
      /\ stats.requests + stats.shed + stats.cut + Cardinality(Waiting) = stats.arrivals
      /\ stats.arrivals <= MaxArrivals
  BY StatsFit
<1>9. Cardinality(Waiting') \in Nat
  BY <1>4, SemIsFinite
<1>10. EngineTypes'
  <2>1. stats' \in Stats
    BY <1>3, <1>7, <1>8, <1>9, EngineAssumption DEF EngineInv, EngineTypes, Stats
  <2> QED
    BY <1>1, <1>4, <2>1 DEF EngineInv, EngineTypes
<1>11. Balance'
  <2>1. loop # "returned"
    BY <1>5 DEF EngineInv, Balance, Waiting
  <2>2. stats'.arrivals = stats'.requests + stats'.shed + stats'.cut + Cardinality(Waiting')
    BY <1>3, <1>7, <1>8
  <2> QED
    BY <1>1, <1>3, <1>8, <2>1, <2>2 DEF EngineInv, Balance
<1>12. FedIsCounted' /\ stats'.errors <= stats'.requests
  BY <1>1, <1>3, <1>7, <1>8 DEF EngineInv, FedIsCounted, breakerVars
<1>13. AlarmsAreEarned'
  <2>1. Earned' <=> Earned
    BY <1>3, <1>8 DEF Earned
  <2>2. \A t \in Sem : attempt'[t] = "alarmed" => attempt[t] = "alarmed"
    BY <1>4
  <2> QED
    BY <1>1, <2>1, <2>2 DEF EngineInv, AlarmsAreEarned, Sem
<1>14. LateIsOne'
  BY <1>1 DEF EngineInv, LateIsOne
<1> QED
  BY <1>2, <1>10, <1>11, <1>12, <1>13, <1>14 DEF EngineInv

\* What the breaker is told was counted before; what makes it alarm are failures
\* it was told, more than half of at least half a window.
LEMMA FeedKeeps ==
  ASSUME EngineInv, NEW s \in Sem, Feed(s)
  PROVE  EngineInv'
<1> DEFINE step == IF HasBreaker /\ alarm' THEN "alarmed" ELSE "free"
           failed == attempt[s] = "failed"
<1>1. UNCHANGED <<loop, result, interrupted, tripped, stats, late>>
  BY DEF Feed
<1>2. (HasBreaker /\ Record(failed)) \/ (~HasBreaker /\ UNCHANGED breakerVars)
  BY DEF Feed
<1>3. BInv'
  BY <1>2, RecordBInv, BreakerRests DEF EngineInv
<1>4. /\ attempt' \in [Sem -> AttemptSteps]
      /\ \A t \in Sem : attempt'[t] = IF t = s THEN step ELSE attempt[t]
      /\ Waiting' \subseteq Sem /\ Waiting \subseteq Sem /\ Waiting \ {s} = Waiting' \ {s}
      /\ Counted' \subseteq Sem /\ Counted \subseteq Sem /\ Counted \ {s} = Counted' \ {s}
      /\ Erred' \subseteq Sem /\ Erred \subseteq Sem /\ Erred \ {s} = Erred' \ {s}
  <2>1. step \in AttemptSteps /\ Goes(s, step)
    BY DEF Feed, AttemptSteps
  <2> HIDE DEF step
  <2> QED
    BY <2>1, SlotsMove DEF EngineInv
<1>5. s \notin Waiting /\ s \in Counted /\ (s \in Erred <=> failed)
  BY DEF Feed, Waiting, Counted, Erred
<1>6. s \notin Waiting' /\ s \notin Counted' /\ s \notin Erred'
  BY <1>4 DEF Waiting, Counted, Erred
<1>7. /\ Cardinality(Waiting') = Cardinality(Waiting)
      /\ Cardinality(Counted') = Cardinality(Counted) - 1
  BY <1>4, <1>5, <1>6, OneMoves
<1>8. Cardinality(Erred') = IF failed THEN Cardinality(Erred) - 1 ELSE Cardinality(Erred)
  BY <1>4, <1>5, <1>6, OneMoves
<1>9. /\ stats \in [arrivals : Nat, requests : Nat, errors : Nat, shed : Nat, cut : Nat]
      /\ Cardinality(Counted) \in Nat /\ Cardinality(Erred) \in Nat
      /\ Cardinality(Counted') \in Nat /\ Cardinality(Erred') \in Nat
  BY <1>4, SemIsFinite, StatsFit
<1>10. /\ filled \in Nat /\ failures \in Nat /\ filled' \in Nat /\ failures' \in Nat
       /\ filled' <= filled + 1
       /\ failures' <= IF failed THEN failures + 1 ELSE failures
  <2>1. filled \in Nat /\ failures \in Nat /\ filled' \in Nat /\ failures' \in Nat
    BY <1>3, SizeAssumption DEF EngineInv, BInv, BreakerTypeOK
  <2>2. CASE Record(failed)
    <3>1. Leaving \in {0, 1}
      BY DEF Leaving
    <3> HIDE DEF failed
    <3> QED
      BY <2>1, <2>2, <3>1 DEF Record
  <2>3. CASE UNCHANGED breakerVars
    BY <2>1, <2>3 DEF breakerVars
  <2> QED
    BY <1>2, <2>1, <2>2, <2>3
<1>11. FedIsCounted'
  <2> HIDE DEF failed
  <2> QED
    BY <1>1, <1>7, <1>8, <1>9, <1>10 DEF EngineInv, FedIsCounted
<1>12. EngineTypes'
  BY <1>1, <1>4 DEF EngineInv, EngineTypes
<1>13. Balance'
  <2>1. loop # "returned"
    BY <1>5 DEF EngineInv, Balance, Counted
  <2> QED
    BY <1>1, <1>7, <2>1 DEF EngineInv, Balance
<1>14. AlarmsAreEarned'
  <2>1. Earned' <=> Earned
    BY <1>1 DEF Earned
  <2>2. HasBreaker /\ alarm' => Earned
    <3>1. SUFFICES ASSUME HasBreaker, alarm' PROVE Earned
      OBVIOUS
    <3>2. filled' >= Size \div 2 /\ 2 * failures' > filled'
      BY <1>2, <3>1 DEF Record, Trips
    <3>3. filled' <= stats.requests /\ failures' <= stats.errors
      BY <1>1, <1>9, <1>10, <1>11 DEF FedIsCounted
    <3>4. Size \div 2 \in Nat
      BY SizeAssumption
    <3>5. stats.requests \in Nat /\ stats.errors \in Nat
      BY <1>9
    <3>6. ASSUME NEW half \in Nat, NEW full \in Nat, NEW bad \in Nat, NEW r \in Nat, NEW e \in Nat,
                 full >= half, 2 * bad > full, full <= r, bad <= e
          PROVE  r >= half /\ 2 * e > half
      BY <3>6
    <3> QED
      BY <1>10, <3>1, <3>2, <3>3, <3>4, <3>5, <3>6 DEF Earned
  <2>3. \A t \in Sem : attempt'[t] = "alarmed" => attempt[t] = "alarmed" \/ (HasBreaker /\ alarm')
    BY <1>4
  <2> QED
    BY <1>1, <2>1, <2>2, <2>3 DEF EngineInv, AlarmsAreEarned, Sem
<1>15. LateIsOne' /\ stats'.errors <= stats'.requests
  BY <1>1 DEF EngineInv, LateIsOne
<1> QED
  BY <1>3, <1>11, <1>12, <1>13, <1>14, <1>15 DEF EngineInv

\* The alarm of a request becomes the trip.
LEMMA TripKeeps ==
  ASSUME EngineInv, NEW s \in Sem, Trip(s)
  PROVE  EngineInv'
<1>1. UNCHANGED <<breakerVars, loop, result, interrupted, stats, late>> /\ tripped' = TRUE
  BY DEF Trip
<1>2. BInv'
  BY <1>1, BreakerRests DEF EngineInv
<1>3. /\ attempt' \in [Sem -> AttemptSteps]
      /\ \A t \in Sem : attempt'[t] = IF t = s THEN "free" ELSE attempt[t]
  BY SlotsMove DEF EngineInv, Trip, AttemptSteps
<1>4. Waiting' = Waiting /\ Counted' = Counted /\ Erred' = Erred
  BY <1>3 DEF Trip, Waiting, Counted, Erred, Sem
<1>5. Earned' /\ Earned
  BY <1>1 DEF EngineInv, AlarmsAreEarned, Earned, Trip
<1>6. EngineTypes' /\ FedIsCounted' /\ AlarmsAreEarned' /\ LateIsOne'
  BY <1>1, <1>3, <1>4, <1>5
  DEF EngineInv, EngineTypes, FedIsCounted, AlarmsAreEarned, LateIsOne, breakerVars
<1>7. Balance'
  <2>1. loop # "returned"
    BY DEF EngineInv, Balance, Trip
  <2> QED
    BY <1>1, <1>4, <2>1 DEF EngineInv, Balance
<1> QED
  BY <1>1, <1>2, <1>6, <1>7 DEF EngineInv

\* A stuttering step.
LEMMA EngineRests ==
  ASSUME EngineInv, UNCHANGED vars
  PROVE  EngineInv'
<1>1. BInv'
  BY BreakerRests DEF EngineInv, vars
<1> QED
  BY <1>1 DEF EngineInv, EngineTypes, Balance, FedIsCounted, AlarmsAreEarned, Earned, LateIsOne,
              Waiting, Counted, Erred, vars, breakerVars

\* Every step of the engine keeps the invariant.
LEMMA EngineStep == EngineInv /\ [Next]_vars => EngineInv'
<1> SUFFICES ASSUME EngineInv, [Next]_vars PROVE EngineInv'
  OBVIOUS
<1>1. CASE Run
  <2>1. CASE Tick \/ Deadline \/ Done \/ Drained
    BY <2>1, LoopKeeps DEF Done
  <2>2. CASE Arrive
    BY <2>2, AdmitKeeps, ShedKeeps DEF Arrive
  <2> QED
    BY <1>1, <2>1, <2>2 DEF Run
<1>2. CASE Interrupt
  BY <1>2, LoopKeeps
<1>3. CASE \E s \in Sem : Goroutine(s)
  BY <1>3, AnswerKeeps, CutKeeps, FeedKeeps, TripKeeps DEF Goroutine
<1>4. CASE Over \/ UNCHANGED vars
  BY <1>4, EngineRests DEF Over
<1> QED
  BY <1>1, <1>2, <1>3, <1>4 DEF Next

-----------------------------------------------------------------------------
\* The client adds steps at which the engine rests, and takes part in others.
LEMMA EngineStepOrStutter == [LoadNext]_loadVars => [Next]_vars
<1> SUFFICES ASSUME [LoadNext]_loadVars PROVE [Next]_vars
  OBVIOUS
<1>1. ASSUME NEW s \in Sem, ClientSteps(s) PROVE [Next]_vars
  <2>1. CASE Begin(s) \/ Serve(s)
    BY <2>1 DEF Begin, Serve
  <2>2. CASE Returns(s)
    BY <2>2 DEF Returns, Next, Goroutine
  <2>3. CASE IsCut(s)
    BY <2>3 DEF IsCut, Next, Goroutine
  <2> QED
    BY <1>1, <2>1, <2>2, <2>3 DEF ClientSteps
<1>2. CASE EngineSteps
  BY <1>2 DEF EngineSteps, Next, Goroutine
<1>3. CASE Over
  BY <1>3 DEF Next
<1>4. CASE UNCHANGED loadVars
  BY <1>4 DEF loadVars
<1> QED
  BY <1>1, <1>2, <1>3, <1>4 DEF LoadNext

\* The client refines nothing of the engine: what holds of the engine holds of
\* the engine with its client.
THEOREM EngineRefinement == LoadSpec => Spec
<1>1. ClientInit => Init
  BY DEF ClientInit
<1> QED
  BY <1>1, EngineStepOrStutter, PTL DEF LoadSpec, Spec

\* For every number of slots and every ring the inductive invariant of the engine
\* holds.
THEOREM EngineInvariance == Spec => []EngineInv
BY EngineInit, EngineStep, PTL DEF Spec

\* Admitted, shed or cut: no arrival of a run of any length is missing from the
\* summary's account, none is counted twice, and none outlives the run.
THEOREM ArrivalsAreCounted == LoadSpec => []EveryArrivalIsCounted
<1>1. EngineInv => EveryArrivalIsCounted
  BY DEF EngineInv, Balance, EveryArrivalIsCounted
<1> QED
  BY <1>1, EngineRefinement, EngineInvariance, PTL

\* Of any number of goroutines that trip the breaker at any time, none lets more
\* than the arrival through whose tick had looked.
THEOREM LoadStops == LoadSpec => []LoadStopsWhenTripped
<1>1. EngineInv => LoadStopsWhenTripped
  BY DEF EngineInv, LateIsOne, EngineTypes, LoadStopsWhenTripped
<1> QED
  BY <1>1, EngineRefinement, EngineInvariance, PTL

\* For any ring: what ends the run are failures that the summary shows, more than
\* half of the fewest results the breaker may judge.
THEOREM TripsAreEarned == LoadSpec => []TripIsEarned
<1>1. EngineInv => TripIsEarned
  BY DEF EngineInv, AlarmsAreEarned, Earned, TripIsEarned
<1> QED
  BY <1>1, EngineRefinement, EngineInvariance, PTL

-----------------------------------------------------------------------------
(* The client: whose an uploaded image is.  It is on the list of images to *)
(* delete, in an answer that will put it there, or in the DELETE that took *)
(* it from there; in one of these, and in one goroutine's hands only.      *)

ClaimsOf(r) ==
  IF r.op = "delete" /\ r.outcome = "none" THEN {r.id}
  ELSE IF r.op = "upload" THEN ToSet(r.found) ELSE {}

IsRequest(r) ==
  r.op = "upload" =>
    /\ r.found \in Seq(Nat) /\ IsInjective(r.found)
    /\ r.outcome = "none" => r.found = <<>>

Gallery == newID \in Nat /\ images \subseteq Nat /\ (\A i \in images : i < newID)

Mine == mine \in Seq(Nat) /\ IsInjective(mine) /\ ToSet(mine) \subseteq images \ Foreign

ClientInv ==
  /\ Gallery /\ Foreign \subseteq images /\ Mine
  /\ request = [s \in Sem |-> request[s]] /\ \A s \in Sem : IsRequest(request[s])
  /\ \A s \in Sem : ClaimsOf(request[s]) \subseteq images \ (Foreign \cup ToSet(mine))
  /\ \A s, t \in Sem : s # t => ClaimsOf(request[s]) \cap ClaimsOf(request[t]) = {}

\* An empty list of ids has none twice.
LEMMA EmptyIsInjective == IsInjective(<<>>) /\ ToSet(<<>>) = {} /\ <<>> \in Seq(Nat)
BY DEF IsInjective, ToSet

\* pick(true): the last id leaves the list, which had it once.
LEMMA PopTakesOne ==
  ASSUME NEW list \in Seq(Nat), list # <<>>, IsInjective(list)
  PROVE  /\ Front(list) \in Seq(Nat) /\ IsInjective(Front(list))
         /\ Last(list) \in ToSet(list)
         /\ ToSet(Front(list)) \subseteq ToSet(list) \ {Last(list)}
<1>1. Len(list) \in Nat \ {0} /\ DOMAIN list = 1..Len(list)
  BY EmptySeq, LenProperties
<1>2. \A i \in 1..(Len(list) - 1) : list[i] \in Nat
  BY <1>1, ElementOfSeq
<1>3. /\ Front(list) \in Seq(Nat)
      /\ Len(Front(list)) = Len(list) - 1
      /\ \A i \in 1..(Len(list) - 1) : Front(list)[i] = list[i]
  BY <1>1, <1>2, SubSeqProperties DEF Front
<1>4. DOMAIN Front(list) = 1..(Len(list) - 1)
  BY <1>3, LenProperties
<1>5. \A i \in DOMAIN Front(list) :
        i \in DOMAIN list /\ i # Len(list) /\ Front(list)[i] = list[i]
  <2>1. ASSUME NEW n \in Nat PROVE \A i \in 1..(n - 1) : i \in 1..n /\ i # n
    OBVIOUS
  <2> SUFFICES ASSUME NEW i \in 1..(Len(list) - 1)
               PROVE  i \in DOMAIN list /\ i # Len(list) /\ Front(list)[i] = list[i]
    BY <1>4
  <2>2. Front(list)[i] = list[i]
    BY <1>3
  <2>3. Len(list) \in Nat
    BY <1>1
  <2>4. i \in 1..Len(list) /\ i # Len(list)
    BY <2>1, <2>3
  <2> QED
    BY <1>1, <2>2, <2>4
<1>6. Len(list) \in DOMAIN list /\ Last(list) = list[Len(list)]
  BY <1>1 DEF Last
<1>7. IsInjective(Front(list))
  BY <1>5 DEF IsInjective
<1>8. \A i \in DOMAIN Front(list) : list[i] # list[Len(list)]
  BY <1>5, <1>6 DEF IsInjective
<1>9. ToSet(Front(list)) \subseteq ToSet(list) \ {Last(list)}
  BY <1>5, <1>6, <1>8 DEF ToSet
<1> QED
  BY <1>3, <1>6, <1>7, <1>9 DEF ToSet

\* trackIDs: what is remembered was remembered or found, and nothing twice that
\* was not there twice.
LEMMA TrackedIsFound ==
  ASSUME NEW list \in Seq(Nat), NEW found \in Seq(Nat),
         IsInjective(list), IsInjective(found), ToSet(list) \cap ToSet(found) = {}
  PROVE  /\ Tracked(list, found) \in Seq(Nat) /\ IsInjective(Tracked(list, found))
         /\ ToSet(Tracked(list, found)) \subseteq ToSet(list) \cup ToSet(found)
<1> DEFINE n == IF Len(list) + Len(found) <= MaxTracked THEN Len(found) ELSE MaxTracked - Len(list)
           part == SubSeq(found, 1, n)
<1>1. Len(list) \in Nat /\ DOMAIN list = 1..Len(list) /\ Len(found) \in Nat /\ DOMAIN found = 1..Len(found)
  BY LenProperties
<1>2. n \in Int /\ n <= Len(found)
  BY <1>1, ClientAssumption
<1> HIDE DEF n
<1>3. \A i \in 1..n : found[i] \in Nat
  BY <1>1, <1>2, ElementOfSeq
<1>4. /\ part \in Seq(Nat)
      /\ Len(part) = IF 1 <= n THEN n ELSE 0
      /\ \A i \in 1..n : part[i] = found[i]
  BY <1>2, <1>3, SubSeqProperties
<1>5. DOMAIN part = 1..Len(part) /\ Len(part) \in Nat
  BY <1>4, LenProperties
<1>6. \A i \in DOMAIN part : i \in DOMAIN found /\ part[i] = found[i]
  BY <1>1, <1>2, <1>4, <1>5
<1> HIDE DEF part
<1>7. /\ list \o part \in Seq(Nat)
      /\ Len(list \o part) = Len(list) + Len(part)
      /\ \A i \in 1..(Len(list) + Len(part)) :
           (list \o part)[i] = IF i <= Len(list) THEN list[i] ELSE part[i - Len(list)]
  BY <1>4, ConcatProperties
<1>8. DOMAIN (list \o part) = 1..(Len(list) + Len(part))
  BY <1>7, LenProperties
<1>9. \A i \in DOMAIN (list \o part) :
        \/ i \in DOMAIN list /\ (list \o part)[i] = list[i]
        \/ /\ i > Len(list) /\ i - Len(list) \in DOMAIN found
           /\ (list \o part)[i] = found[i - Len(list)]
  <2> SUFFICES ASSUME NEW i \in 1..(Len(list) + Len(part)), i > Len(list)
               PROVE  i - Len(list) \in DOMAIN part
    BY <1>1, <1>5, <1>6, <1>7, <1>8
  <2> QED
    BY <1>1, <1>5
<1>10. ToSet(list \o part) \subseteq ToSet(list) \cup ToSet(found)
  BY <1>9 DEF ToSet
<1>11. IsInjective(list \o part)
  <2> SUFFICES ASSUME NEW i \in DOMAIN (list \o part), NEW j \in DOMAIN (list \o part),
                      (list \o part)[i] = (list \o part)[j]
               PROVE  i = j
    BY DEF IsInjective
  <2>1. i \in Int /\ j \in Int
    BY <1>1, <1>5, <1>8
  <2>2. CASE i \in DOMAIN list /\ (list \o part)[i] = list[i]
    <3>1. j \in DOMAIN list /\ (list \o part)[j] = list[j]
      BY <1>9, <2>2 DEF ToSet
    <3> QED
      BY <2>2, <3>1 DEF IsInjective
  <2>3. CASE /\ i > Len(list) /\ i - Len(list) \in DOMAIN found
             /\ (list \o part)[i] = found[i - Len(list)]
    <3>1. j > Len(list) /\ j - Len(list) \in DOMAIN found
          /\ (list \o part)[j] = found[j - Len(list)]
      BY <1>9, <2>3 DEF ToSet
    <3>2. i - Len(list) = j - Len(list)
      BY <2>3, <3>1 DEF IsInjective
    <3> QED
      BY <1>1, <2>1, <3>2
  <2> QED
    BY <1>9, <2>2, <2>3
<1>12. Tracked(list, found) = list \o part
  BY DEF Tracked, part, n
<1> QED
  BY <1>7, <1>10, <1>11, <1>12

\* One request changes; what it claims then, nobody else does.
LEMMA ClaimsMove ==
  ASSUME ClientInv, NEW s \in Sem, NEW q, request' = [request EXCEPT ![s] = q], IsRequest(q),
         Gallery', Foreign \subseteq images', Mine',
         ClaimsOf(q) \subseteq images' \ (Foreign \cup ToSet(mine')),
         \A t \in Sem \ {s} :
           /\ ClaimsOf(request[t]) \subseteq images' \ (Foreign \cup ToSet(mine'))
           /\ ClaimsOf(request[t]) \cap ClaimsOf(q) = {}
  PROVE  ClientInv'
<1>1. request' = [t \in Sem |-> IF t = s THEN q ELSE request[t]]
  BY DEF ClientInv
<1>2. \A t \in Sem : request'[t] = IF t = s THEN q ELSE request[t]
  BY <1>1
<1>3. request' = [t \in Sem |-> request'[t]]
  BY <1>1
<1>4. \A t \in Sem : IsRequest(request'[t])
  BY <1>2 DEF ClientInv
<1>5. \A t \in Sem : ClaimsOf(request'[t]) \subseteq images' \ (Foreign \cup ToSet(mine'))
  BY <1>2
<1>6. \A t, u \in Sem : t # u => ClaimsOf(request'[t]) \cap ClaimsOf(request'[u]) = {}
  BY <1>2 DEF ClientInv
<1> QED
  BY <1>3, <1>4, <1>5, <1>6 DEF ClientInv, Sem

\* A request that begins claims the id it is to delete, if it is to delete one.
LEMMA SendsClaims ==
  ASSUME NEW op, NEW id
  PROVE  /\ IsRequest(Sends(op, id))
         /\ ClaimsOf(Sends(op, id)) = IF op = "delete" THEN {id} ELSE {}
BY EmptyIsInjective DEF Sends, IsRequest, ClaimsOf

\* A slot without a request claims nothing.
LEMMA NoRequestClaimsNothing == IsRequest(NoRequest) /\ ClaimsOf(NoRequest) = {}
BY SendsClaims DEF NoRequest

\* An attempt begins: what it is to delete leaves the list.
LEMMA BeginKeeps ==
  ASSUME ClientInv, NEW s \in Sem, Begin(s)
  PROVE  ClientInv'
<1>1. UNCHANGED gallery
  BY DEF Begin
<1>2. PICK op \in Ops : Plain(s, op) \/ Get(s, op) \/ Delete(s, op)
  BY DEF Begin
<1>3. Gallery' /\ Foreign \subseteq images'
  BY <1>1 DEF ClientInv, Gallery, gallery
<1>4. ASSUME NEW o, NEW id, o # "delete", Asks(s, o, id), UNCHANGED mine
      PROVE  ClientInv'
  <2>1. IsRequest(Sends(o, id)) /\ ClaimsOf(Sends(o, id)) = {}
    BY <1>4, SendsClaims
  <2>2. Mine'
    BY <1>1, <1>4 DEF ClientInv, Mine, gallery
  <2>3. \A t \in Sem \ {s} :
          /\ ClaimsOf(request[t]) \subseteq images' \ (Foreign \cup ToSet(mine'))
          /\ ClaimsOf(request[t]) \cap ClaimsOf(Sends(o, id)) = {}
    BY <1>1, <1>4, <2>1 DEF ClientInv, gallery
  <2> QED
    BY <1>3, <1>4, <2>1, <2>2, <2>3, ClaimsMove DEF Asks
<1>5. CASE Plain(s, op)
  BY <1>4, <1>5 DEF Plain
<1>6. CASE Get(s, op)
  BY <1>4, <1>6 DEF Get
<1>7. CASE Delete(s, op)
  <2>1. CASE mine = <<>>
    BY <1>4, <1>7, <2>1 DEF Delete
  <2>2. CASE mine # <<>>
    <3>1. Asks(s, "delete", Last(mine)) /\ mine' = Front(mine)
      BY <1>7, <2>2 DEF Delete
    <3>2. /\ Front(mine) \in Seq(Nat) /\ IsInjective(Front(mine))
          /\ Last(mine) \in ToSet(mine)
          /\ ToSet(Front(mine)) \subseteq ToSet(mine) \ {Last(mine)}
      BY <2>2, PopTakesOne DEF ClientInv, Mine
    <3>3. IsRequest(Sends("delete", Last(mine))) /\ ClaimsOf(Sends("delete", Last(mine))) = {Last(mine)}
      BY SendsClaims
    <3>4. Mine'
      BY <1>1, <3>1, <3>2 DEF ClientInv, Mine, gallery
    <3>5. {Last(mine)} \subseteq images' \ (Foreign \cup ToSet(mine'))
      BY <1>1, <3>1, <3>2 DEF ClientInv, Mine, gallery
    <3>6. \A t \in Sem \ {s} :
            /\ ClaimsOf(request[t]) \subseteq images' \ (Foreign \cup ToSet(mine'))
            /\ ClaimsOf(request[t]) \cap {Last(mine)} = {}
      BY <1>1, <3>1, <3>2 DEF ClientInv, gallery
    <3> QED
      BY <1>3, <3>1, <3>3, <3>4, <3>5, <3>6, ClaimsMove DEF Asks
  <2> QED
    BY <2>1, <2>2
<1> QED
  BY <1>2, <1>5, <1>6, <1>7

\* The application answers: an upload's id is new, and in the answer only.
LEMMA ServeKeeps ==
  ASSUME ClientInv, NEW s \in Sem, Serve(s)
  PROVE  ClientInv'
<1> DEFINE r == request[s]
<1>1. r.outcome = "none" /\ mine' = mine
  BY DEF Serve
<1>2. PICK outcome \in {"ok", "4xx", "failure"}, found \in {<<>>, Found(r)} :
        /\ request' = [request EXCEPT ![s] =
             [op |-> r.op, id |-> r.id, found |-> found, outcome |-> outcome]]
        /\ Effect(r) \/ UNCHANGED gallery
        /\ outcome = "ok" => Effect(r)
        /\ outcome # "ok" => found = <<>>
  BY DEF Serve
<1> DEFINE q == [op |-> r.op, id |-> r.id, found |-> found, outcome |-> outcome]
<1>3. request' = [request EXCEPT ![s] = q]
  BY <1>2
<1>4. ClaimsOf(r) = IF r.op = "delete" THEN {r.id} ELSE {}
  BY <1>1, EmptyIsInjective DEF ClientInv, IsRequest, ClaimsOf
<1>5. ClaimsOf(r) \subseteq images \ (Foreign \cup ToSet(mine))
  BY DEF ClientInv
<1>6. \A t \in Sem \ {s} : /\ ClaimsOf(request[t]) \subseteq images \ (Foreign \cup ToSet(mine))
                           /\ ClaimsOf(request[t]) \cap ClaimsOf(r) = {}
  BY DEF ClientInv
<1>7. ASSUME r.op # "upload" \/ found = <<>>
      PROVE  IsRequest(q) /\ ClaimsOf(q) = {}
  BY <1>2, <1>7, EmptyIsInjective DEF IsRequest, ClaimsOf
<1>8. CASE UNCHANGED gallery /\ outcome # "ok"
  <2>1. IsRequest(q) /\ ClaimsOf(q) = {}
    BY <1>2, <1>7, <1>8
  <2>2. Gallery' /\ Foreign \subseteq images' /\ Mine'
    BY <1>1, <1>8 DEF ClientInv, Gallery, Mine, gallery
  <2>3. images' = images
    BY <1>8 DEF gallery
  <2> HIDE DEF q, r
  <2> QED
    BY <1>1, <1>3, <1>6, <2>1, <2>2, <2>3, ClaimsMove
<1>9. CASE Effect(r) /\ r.op = "delete"
  <2>1. images' = images \ {r.id} /\ newID' = newID
    BY <1>9 DEF Effect
  <2>2. IsRequest(q) /\ ClaimsOf(q) = {}
    BY <1>7, <1>9
  <2>3. r.id \notin Foreign /\ r.id \notin ToSet(mine)
    BY <1>4, <1>5, <1>9
  <2>4. Gallery' /\ Foreign \subseteq images' /\ Mine'
    BY <1>1, <2>1, <2>3 DEF ClientInv, Gallery, Mine
  <2>5. \A t \in Sem \ {s} : ClaimsOf(request[t]) \subseteq images' \ (Foreign \cup ToSet(mine'))
    BY <1>1, <1>4, <1>6, <1>9, <2>1
  <2> HIDE DEF q, r
  <2> QED
    BY <1>3, <2>2, <2>4, <2>5, ClaimsMove
<1>10. CASE Effect(r) /\ r.op = "upload"
  <2>1. images' = images \cup {newID} /\ newID' = newID + 1
    BY <1>10 DEF Effect
  <2>2. newID \in Nat /\ newID \notin images
    BY DEF ClientInv, Gallery
  <2>3. found = <<>> \/ found = <<newID>>
    BY <1>2, <1>10 DEF Found
  <2>4. found \in Seq(Nat) /\ IsInjective(found) /\ ToSet(found) \subseteq {newID}
    <3>1. CASE found = <<>>
      BY <3>1, EmptyIsInjective
    <3>2. CASE found = <<newID>>
      BY <2>2, <3>2 DEF IsInjective, ToSet
    <3> QED
      BY <2>3, <3>1, <3>2
  <2>5. IsRequest(q) /\ ClaimsOf(q) \subseteq {newID}
    BY <1>2, <1>10, <2>4 DEF IsRequest, ClaimsOf
  <2>6. Gallery' /\ Foreign \subseteq images' /\ Mine'
    BY <1>1, <2>1, <2>2 DEF ClientInv, Gallery, Mine
  <2>7. ClaimsOf(q) \subseteq images' \ (Foreign \cup ToSet(mine'))
    BY <1>1, <2>1, <2>2, <2>5 DEF ClientInv, Mine
  <2>8. \A t \in Sem \ {s} :
          /\ ClaimsOf(request[t]) \subseteq images' \ (Foreign \cup ToSet(mine'))
          /\ ClaimsOf(request[t]) \cap ClaimsOf(q) = {}
    BY <1>1, <1>6, <2>1, <2>2, <2>5
  <2> HIDE DEF q, r
  <2> QED
    BY <1>3, <2>5, <2>6, <2>7, <2>8, ClaimsMove
<1>11. CASE Effect(r) /\ r.op \notin {"delete", "upload"}
  <2>1. images' = images /\ newID' = newID
    BY <1>11 DEF Effect, gallery
  <2>2. IsRequest(q) /\ ClaimsOf(q) = {}
    BY <1>7, <1>11
  <2>3. Gallery' /\ Foreign \subseteq images' /\ Mine'
    BY <1>1, <2>1 DEF ClientInv, Gallery, Mine
  <2> HIDE DEF q, r
  <2> QED
    BY <1>1, <1>3, <1>6, <2>1, <2>2, <2>3, ClaimsMove
<1> QED
  BY <1>2, <1>8, <1>9, <1>10, <1>11

\* An answer comes back: the id of an upload goes to the list.
LEMMA ReturnsKeeps ==
  ASSUME ClientInv, NEW s \in Sem, Returns(s)
  PROVE  ClientInv'
<1> DEFINE r == request[s]
<1>1. request' = [request EXCEPT ![s] = NoRequest] /\ UNCHANGED gallery
  BY DEF Returns
<1>2. images' = images /\ newID' = newID
  BY <1>1 DEF gallery
<1>3. IsRequest(NoRequest) /\ ClaimsOf(NoRequest) = {}
  BY NoRequestClaimsNothing
<1>4. /\ mine' \in Seq(Nat) /\ IsInjective(mine')
      /\ ToSet(mine') \subseteq ToSet(mine) \cup ClaimsOf(r)
  <2>1. mine \in Seq(Nat) /\ IsInjective(mine) /\ IsRequest(r)
    BY DEF ClientInv, Mine
  <2>2. CASE r.op = "upload"
    <3>1. ClaimsOf(r) = ToSet(r.found)
      BY <2>2 DEF ClaimsOf
    <3>2. r.found \in Seq(Nat) /\ IsInjective(r.found)
      BY <2>1, <2>2 DEF IsRequest
    <3>3. ToSet(mine) \cap ToSet(r.found) = {}
      BY <3>1 DEF ClientInv
    <3>4. mine' = Tracked(mine, r.found)
      BY <2>2 DEF Returns
    <3> QED
      BY <2>1, <3>1, <3>2, <3>3, <3>4, TrackedIsFound
  <2>3. CASE r.op # "upload"
    BY <2>1, <2>3 DEF Returns
  <2> QED
    BY <2>2, <2>3
<1>5. Gallery' /\ Foreign \subseteq images' /\ Mine'
  BY <1>2, <1>4 DEF ClientInv, Gallery, Mine
<1>6. \A t \in Sem \ {s} : ClaimsOf(request[t]) \subseteq images' \ (Foreign \cup ToSet(mine'))
  BY <1>2, <1>4 DEF ClientInv
<1> QED
  BY <1>1, <1>3, <1>5, <1>6, ClaimsMove

\* An attempt that is cut off takes what it claims with it.
LEMMA CutForgets ==
  ASSUME ClientInv, NEW s \in Sem, IsCut(s)
  PROVE  ClientInv'
<1>1. request' = [request EXCEPT ![s] = NoRequest] /\ UNCHANGED <<mine, gallery>>
  BY DEF IsCut
<1>2. Gallery' /\ Foreign \subseteq images' /\ Mine' /\ images' = images /\ mine' = mine
  BY <1>1 DEF ClientInv, Gallery, Mine, gallery
<1>3. \A t \in Sem \ {s} : ClaimsOf(request[t]) \subseteq images' \ (Foreign \cup ToSet(mine'))
  BY <1>2 DEF ClientInv
<1> QED
  BY <1>1, <1>2, <1>3, NoRequestClaimsNothing, ClaimsMove

\* No id is known.
LEMMA ClientStarts == ClientInit => ClientInv
<1> SUFFICES ASSUME ClientInit PROVE ClientInv
  OBVIOUS
<1>1. Cardinality(Foreign) \in Nat /\ Foreign = 1..Cardinality(Foreign)
  BY ClientAssumption, FS_CardinalityType
<1>2. Gallery
  BY <1>1 DEF ClientInit, Gallery
<1>3. Mine
  BY EmptyIsInjective DEF ClientInit, Mine
<1>4. request = [s \in Sem |-> NoRequest]
  BY DEF ClientInit
<1> QED
  BY <1>2, <1>3, <1>4, NoRequestClaimsNothing DEF ClientInit, ClientInv

\* Every step of the load and its client keeps the invariant.
LEMMA ClientNext == ClientInv /\ [LoadNext]_loadVars => ClientInv'
<1> SUFFICES ASSUME ClientInv, [LoadNext]_loadVars PROVE ClientInv'
  OBVIOUS
<1>1. ASSUME NEW s \in Sem, ClientSteps(s) PROVE ClientInv'
  BY <1>1, BeginKeeps, ServeKeeps, ReturnsKeeps, CutForgets DEF ClientSteps
<1>2. CASE UNCHANGED <<client, gallery>>
  BY <1>2 DEF client, gallery, ClientInv, Gallery, Mine, Sem
<1> QED
  BY <1>1, <1>2 DEF LoadNext, loadVars

\* For every number of slots, mix of operations and limit on the lists the inductive
\* invariant of the client holds.
THEOREM ClientInvariance == LoadSpec => []ClientInv
BY ClientStarts, ClientNext, PTL DEF LoadSpec

\* "IDs this run uploaded: the only delete targets": for any number of goroutines,
\* mix of operations and limit on the lists, and whichever requests fail before
\* or after their effect.
THEOREM OwnImagesAreDeletedOnce == LoadSpec => []DeletesItsOwnOnce
<1>1. ClientInv => DeletesItsOwnOnce
  <2> SUFFICES ASSUME ClientInv PROVE DeletesItsOwnOnce
    OBVIOUS
  <2>1. \A s \in Deleting : s \in Sem /\ ClaimsOf(request[s]) = {request[s].id}
    BY DEF Deleting, ClaimsOf
  <2> QED
    BY <2>1 DEF ClientInv, Mine, DeletesItsOwnOnce
<1> QED
  BY <1>1, ClientInvariance, PTL

=============================================================================
