---------------------------- MODULE JobDelivery ----------------------------
(***************************************************************************)
(* What the job queue promises, free of streams, groups and consumers:     *)
(* at-least-once handling with bounded retention.  Every appended job is   *)
(* owed to a worker until a worker has finished it and said so, or until   *)
(* MaxLen younger jobs exist.                                              *)
(***************************************************************************)
EXTENDS Naturals, Sequences

CONSTANTS Jobs, MaxLen

VARIABLES log, owed, finished, settled

vars == <<log, owed, finished, settled>>

Init == log = <<>> /\ owed = {} /\ finished = {} /\ settled = {}

\* Jobs retention no longer covers: at least MaxLen younger ones exist.
Expired(l) == {e \in 1..Len(l) : Len(l) - e >= MaxLen}

Append1(j) ==
  /\ log' = Append(log, j)
  /\ \E lost \in SUBSET Expired(log') : owed' = (owed \cup {Len(log')}) \ lost
  /\ UNCHANGED <<finished, settled>>

\* A job already appended may expire later, when the queue next looks at it.
Expire ==
  /\ \E lost \in SUBSET Expired(log) : owed' = owed \ lost
  /\ UNCHANGED <<log, finished, settled>>

\* Some worker brought job e to an outcome.  It may happen more than once.
Finish(e) ==
  /\ finished' = finished \cup {e}
  /\ UNCHANGED <<log, owed, settled>>

\* Only a finished job stops being owed.
Settle(e) ==
  /\ e \in finished
  /\ owed' = owed \ {e}
  /\ settled' = settled \cup {e}
  /\ UNCHANGED <<log, finished>>

Next ==
  \/ \E j \in Jobs : Append1(j)
  \/ Expire
  \/ \E e \in 1..Len(log) : Finish(e) \/ Settle(e)

Spec == Init /\ [][Next]_vars

=============================================================================
