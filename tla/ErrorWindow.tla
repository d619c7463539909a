----------------------------- MODULE ErrorWindow -----------------------------
(***************************************************************************)
(* What the load generator's circuit breaker promises: it looks at the     *)
(* last Size results and gives the alarm when more than half of them       *)
(* failed, once it has seen half a window.                                 *)
(***************************************************************************)
EXTENDS Naturals, FiniteSets

CONSTANT Size

VARIABLES
  recent,  \* the last results, newest first: TRUE is a failure
  alarm    \* what the last call said

vars == <<recent, alarm>>

Length == Cardinality(DOMAIN recent)

Failed(window) == {k \in DOMAIN window : window[k]}

Init == recent = [k \in {} |-> FALSE] /\ alarm = FALSE

\* The window after one more result; the oldest leaves a full one.
Pushed(failed) ==
  [k \in 1..(IF Length < Size THEN Length + 1 ELSE Size) |->
     IF k = 1 THEN failed ELSE recent[k - 1]]

Record(failed) ==
  /\ recent' = Pushed(failed)
  /\ alarm' = ( /\ Cardinality(DOMAIN recent') >= Size \div 2
                /\ 2 * Cardinality(Failed(recent')) > Cardinality(DOMAIN recent') )

Next == \E failed \in BOOLEAN : Record(failed)

Spec == Init /\ [][Next]_vars

=============================================================================
