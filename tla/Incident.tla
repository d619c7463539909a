------------------------------ MODULE Incident ------------------------------
(***************************************************************************)
(* The load generator's incident scenario against the demo controls: a PUT *)
(* of the whole document at the start of each phase, and a reset on every  *)
(* way out.  What the application serves in the meantime is DemoControls,  *)
(* its clock reduced to the expiry of the cache entry.                     *)
(***************************************************************************)
EXTENDS DemoControls, Sequences

CONSTANTS
  Own,       \* the calls that are the client's; the others read
  Fault      \* the value of a control that is on

ASSUME IncidentAssumption ==
  Own \subseteq Calls /\ Fault \in Settings \ {Off}

VARIABLES
  client,   \* what runIncident is doing
  phase,    \* the number of the phase
  request,  \* the call whose answer the client is waiting for, if any
  warned,   \* the reset failed, and the client says so
  givenUp   \* history: the PUTs whose answer the client did not wait for

clientVars == <<client, phase, request, warned, givenUp>>
incidentVars == <<vars, clientVars>>

-----------------------------------------------------------------------------
\* incidentPhases: healthy, one kind of fault after the other, recovery.
Script == <<AllOff, [f \in Fields |-> Fault], AllOff>>

ClientSteps == {"phase", "put", "playing", "leaving", "reset", "done"}

IncidentInit ==
  /\ Init
  /\ client = "phase" /\ phase = 1 /\ request = {} /\ warned = FALSE /\ givenUp = {}

Answered(failed) == \E c \in request : call[c].step = "done" /\ call[c].failed = failed

\* setControls: the PUT.  The controls of the phase are the whole document.
SetControls(c) ==
  /\ client = "phase" /\ client' = "put"
  /\ Put(c, Script[phase])
  /\ request' = {c}
  /\ UNCHANGED <<phase, warned, givenUp>>

PhaseStarts ==
  /\ client = "put" /\ client' = "playing"
  /\ Answered(FALSE)
  /\ request' = {}
  /\ UNCHANGED <<vars, phase, warned, givenUp>>

\* Mutated form: a failed PUT ends the scenario there and then.
PutFailsAndStops ==
  /\ client = "put" /\ client' = "done"
  /\ \/ Answered(TRUE) /\ UNCHANGED givenUp
     \/ givenUp' = givenUp \cup request
  /\ request' = {}
  /\ UNCHANGED <<vars, phase, warned>>

\* An error status, or the interrupt or the client's timeout, which leave the
\* application to do with the request what it will.
PutFails ==
  /\ client = "put" /\ client' = "leaving"
  /\ \/ Answered(TRUE) /\ UNCHANGED givenUp
     \/ givenUp' = givenUp \cup request
  /\ request' = {}
  /\ UNCHANGED <<vars, phase, warned>>

\* engine.run returns at the deadline.
PhaseEnds ==
  /\ client = "playing"
  /\ IF phase < Len(Script) THEN client' = "phase" /\ phase' = phase + 1
     ELSE client' = "leaving" /\ UNCHANGED phase
  /\ UNCHANGED <<vars, request, warned, givenUp>>

\* The interrupt, during a phase or between two.
Interrupted ==
  /\ client \in {"phase", "playing"} /\ client' = "leaving"
  /\ UNCHANGED <<vars, phase, request, warned, givenUp>>

\* The deferred reset, on a context of its own.
ResetControls(c) ==
  /\ client = "leaving" /\ client' = "reset"
  /\ Reset(c)
  /\ request' = {c}
  /\ UNCHANGED <<phase, warned, givenUp>>

ResetEnds ==
  /\ client = "reset" /\ client' = "done"
  /\ \/ Answered(FALSE) /\ UNCHANGED warned
     \/ warned' = TRUE
  /\ request' = {}
  /\ UNCHANGED <<vars, phase, givenUp>>

-----------------------------------------------------------------------------
\* The application's share: requests in progress, other readers, the TTL.
Serving(c) ==
  /\ Serve(c) \/ Abandon(c) \/ (c \notin Own /\ Read(c))
  /\ UNCHANGED clientVars

Expiry ==
  /\ entry # {} /\ entry' = {}
  /\ UNCHANGED <<stored, call, last, failures, clientVars>>

Client ==
  \/ \E c \in Own : SetControls(c) \/ ResetControls(c)
  \/ PhaseStarts \/ PutFails \/ PhaseEnds \/ Interrupted \/ ResetEnds

\* The scenario is over and so are all requests.
Over ==
  /\ client = "done" /\ \A c \in Calls : ~InProgress(c)
  /\ UNCHANGED incidentVars

IncidentNext ==
  \/ Client \/ Expiry \/ Over
  \/ \E c \in Calls : Serving(c)

IncidentSpec == IncidentInit /\ [][IncidentNext]_incidentVars

IncidentFairSpec ==
  /\ IncidentSpec
  /\ WF_incidentVars(Client) /\ WF_incidentVars(Expiry)
  /\ \A c \in Calls : WF_incidentVars(Serve(c) /\ UNCHANGED clientVars)

-----------------------------------------------------------------------------
IncidentTypeOK ==
  /\ TypeOK
  /\ client \in ClientSteps /\ phase \in 1..Len(Script)
  /\ request \subseteq Own /\ givenUp \subseteq Own /\ warned \in BOOLEAN

(***************************************************************************)
(* The scenario leaves the controls off on every way out, whichever call   *)
(* fails, unless it warns.  What it cannot take back is a PUT it gave up   *)
(* on: the application may carry it out after the reset.                   *)
(***************************************************************************)
ResetsUnlessGivenUp ==
  client = "done" /\ ~warned => stored = AllOff \/ givenUp # {}

(***************************************************************************)
(* The application recovers from the scenario: with the same exceptions,   *)
(* what its cache serves is off in the end.                                *)
(***************************************************************************)
AppRecovers == <>[](warned \/ givenUp # {} \/ \A e \in entry : e.doc = AllOff)

(***************************************************************************)
(* runIncident "ALWAYS resets the controls on the way out, including on    *)
(* Ctrl-C, so a presenter can never leave the app broken": when it is done *)
(* and has not warned, the controls are off.  The code does not keep this, *)
(* see README, section 3.                                                  *)
(***************************************************************************)
LeavesControlsOff == client = "done" /\ ~warned => stored = AllOff

=============================================================================
