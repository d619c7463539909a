------------------------------- MODULE Breaker -------------------------------
(***************************************************************************)
(* The load generator's circuit breaker: a ring of the last results with a *)
(* running count of its failures.  Its threshold is the 0.5 of the only    *)
(* breaker the program makes.                                              *)
(***************************************************************************)
EXTENDS Naturals, FiniteSets

CONSTANT Size  \* len(ring)
ASSUME SizeAssumption == Size \in Nat \ {0}

VARIABLES ring, next, filled, failures,
          alarm  \* what the last call of record returned

breakerVars == <<ring, next, filled, failures, alarm>>

Slots == 0..(Size - 1)

BreakerInit ==
  /\ ring = [i \in Slots |-> FALSE]
  /\ next = 0 /\ filled = 0 /\ failures = 0
  /\ alarm = FALSE

\* Mutated form: a result is overwritten while it still counts.
LeavingKept == 0

\* The failure that the next result overwrites, if the ring is full.
Leaving == IF filled = Size /\ ring[next] THEN 1 ELSE 0

Trips(full, failed) == full >= Size \div 2 /\ 2 * failed > full

After(slot) == IF slot + 1 = Size THEN 0 ELSE slot + 1

Record(failed) ==
  /\ failures' = (failures - Leaving) + (IF failed THEN 1 ELSE 0)
  /\ ring' = [ring EXCEPT ![next] = failed]
  /\ next' = After(next)
  /\ filled' = IF filled < Size THEN filled + 1 ELSE filled
  /\ alarm' = Trips(filled', failures')

BreakerNext == \E failed \in BOOLEAN : Record(failed)

BreakerSpec == BreakerInit /\ [][BreakerNext]_breakerVars

-----------------------------------------------------------------------------
BreakerTypeOK ==
  /\ ring \in [Slots -> BOOLEAN]
  /\ next \in Slots
  /\ filled \in 0..Size /\ failures \in 0..Size
  /\ alarm \in BOOLEAN

\* The slots that hold a result.
Used == {i \in Slots : i < filled}

(***************************************************************************)
(* The running count never drifts from what the ring holds, whatever the   *)
(* number of times it has wrapped round.                                   *)
(***************************************************************************)
CountIsExact ==
  /\ filled < Size => next = filled
  /\ failures = Cardinality({i \in Used : ring[i]})

-----------------------------------------------------------------------------
\* The k-th newest result is k slots behind `next'.
Back(k) == IF k <= next THEN next - k ELSE (next + Size) - k

Window == INSTANCE ErrorWindow WITH recent <- [k \in 1..filled |-> ring[Back(k)]]

(***************************************************************************)
(* The ring and its counters behave as the window of the last Size results *)
(* that record's comment describes.                                        *)
(***************************************************************************)
ImplementsWindow == Window!Spec

=============================================================================
