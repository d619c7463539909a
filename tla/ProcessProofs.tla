---------------------------- MODULE ProcessProofs ----------------------------
(***************************************************************************)
(* Proofs about Process, for every environment, number of requests or jobs *)
(* and size of the connection pool: what is open where the main goroutine  *)
(* is, and who holds a slot of the slow-query hook.                        *)
(***************************************************************************)
EXTENDS Process, FiniteSetTheorems, TLAPS

-----------------------------------------------------------------------------
(* Slots. *)

Holding == {h \in Handlers : work[h] \in {"slot", "sleeping"}}

WorkType == work \in [Handlers -> {"none", "hook", "probe", "job", "slot", "sleeping",
                                   "waiting", "query"}]

SlotsInv == WorkType /\ slots = Cardinality(Holding) /\ slots <= MaxInjected

\* Requests that hold a slot can be counted.
LEMMA HoldingFinite == IsFiniteSet(Holding) /\ Cardinality(Holding) \in Nat
BY ProcessAssumption, FS_Subset, FS_CardinalityType DEF Holding

\* The main goroutine and the world leave requests and jobs alone.
LEMMA MainLeavesWork == Main \/ ServerFails \/ World \/ Exited => UNCHANGED <<work, slots>>
BY DEF Main, ServerFails, World, Exited, LoadConfig, NewProvider, NewConnection, NewObjectStore,
       MakeBucket, ConnectValkey, WireServices, ListObjects, SyncObject, SyncDone, Listen,
       Shutdown, Drained, DrainExpires, EnsureGroup, RegisterGauges, StopHealthServer,
       UnregisterGauges, CloseGaugeClient, Close, Cancel, Outage, Recovery, OtherMakesBucket,
       others, serving, vars

\* No slot is held at first.
LEMMA SlotsInit == Init => SlotsInv
<1> SUFFICES ASSUME Init PROVE SlotsInv
  OBVIOUS
<1>1. work = [h \in Handlers |-> "none"] /\ slots = 0
  BY DEF Init
<1>2. Holding = {}
  BY <1>1 DEF Holding
<1> QED
  BY <1>1, <1>2, FS_EmptySet, ProcessAssumption DEF SlotsInv, WorkType

\* A request takes a slot when it starts to hold one and gives it back when it
\* stops, so the counter is the number of holders.
LEMMA SlotsStep == SlotsInv /\ [Next]_vars => SlotsInv'
<1> SUFFICES ASSUME SlotsInv, [Next]_vars PROVE SlotsInv'
  OBVIOUS
<1>1. CASE UNCHANGED <<work, slots>>
  <2>1. Holding' = Holding
    BY <1>1 DEF Holding
  <2> QED
    BY <1>1, <2>1 DEF SlotsInv, WorkType
<1>2. ASSUME NEW h \in Handlers, Serve(h) PROVE SlotsInv'
  <2> USE DEF SlotsInv
  <2>1. WorkType'
    BY <1>2 DEF Serve, Arrive, TakeSlot, SkipHook, Sleep, LeaveHook, Query, Finish, Probe,
                Does, WorkType
  <2>2. CASE TakeSlot(h)
    <3>1. h \notin Holding /\ Holding' = Holding \cup {h}
      BY <2>2 DEF TakeSlot, Does, Holding, WorkType
    <3>2. Cardinality(Holding') = Cardinality(Holding) + 1
      BY <3>1, HoldingFinite, FS_AddElement
    <3> QED
      BY <2>1, <2>2, <3>2, HoldingFinite, ProcessAssumption DEF TakeSlot
  <2>3. CASE LeaveHook(h)
    <3>1. h \in Holding /\ Holding' = Holding \ {h}
      BY <2>3 DEF LeaveHook, Does, Holding, WorkType
    <3>2. Cardinality(Holding') = Cardinality(Holding) - 1
      BY <3>1, HoldingFinite, FS_RemoveElement
    <3> QED
      BY <2>1, <2>3, <3>2, HoldingFinite, ProcessAssumption DEF LeaveHook
  <2>4. CASE Arrive(h) \/ SkipHook(h) \/ Sleep(h) \/ Query(h) \/ Finish(h) \/ Probe(h)
    <3>1. slots' = slots /\ Holding' = Holding
      BY <2>4 DEF Arrive, SkipHook, Sleep, Query, Finish, Probe, Does, Holding, WorkType
    <3> QED
      BY <2>1, <3>1
  <2> QED
    BY <1>2, <2>2, <2>3, <2>4 DEF Serve
<1> QED
  BY <1>1, <1>2, MainLeavesWork DEF Next, vars, others, serving

\* Injected slow queries hold at most MaxInjected connections of the pool, however
\* many requests come, and no slot is lost or given back twice.
THEOREM SlotsSuffice == Spec => []InjectedQueriesLeaveRoom
<1>1. SlotsInv => InjectedQueriesLeaveRoom
  <2> SUFFICES ASSUME SlotsInv PROVE InjectedQueriesLeaveRoom
    OBVIOUS
  <2>1. Sleeping \subseteq Holding
    BY DEF Sleeping, Holding
  <2>2. Cardinality(Sleeping) <= Cardinality(Holding) /\ Cardinality(Sleeping) \in Nat
    BY <2>1, HoldingFinite, FS_Subset, FS_CardinalityType
  <2> QED
    BY <2>2, HoldingFinite, ProcessAssumption
       DEF SlotsInv, InjectedQueriesLeaveRoom, Holding
<1> QED
  BY <1>1, SlotsInit, SlotsStep, PTL DEF Spec

-----------------------------------------------------------------------------
(***************************************************************************)
(* What is open at each step of the main goroutine.  EveryExitCleansUp and *)
(* ConnectionsOutliveWork are about the end; to get there the invariant    *)
(* follows every resource from where it is opened to where it is closed,   *)
(* and keeps the two roles' steps apart.                                   *)
(***************************************************************************)
Owned == {"telemetry", "db", "valkey", "gaugeClient", "gauges", "healthServer"}

WorkerOnly == {"group", "gauges", "healthServer", "unregister", "gaugeClient"}
ServeOnly == {"list", "sync", "listen"}
Serving == {"running", "draining"}
Ending == {"close", "closeDB", "flush", "exited"}
Starting == {"load", "telemetry", "db", "store", "makeBucket", "valkey", "services",
             "list", "sync", "listen", "group", "gauges"}

Placed ==
  /\ step \in Starting \cup Serving \cup WorkerOnly \cup Ending
  /\ role \in {"serve", "worker"}
  /\ step \in WorkerOnly => role = "worker"
  /\ step \in ServeOnly => role = "serve"

Held ==
  /\ open \subseteq Owned \cup Unclosed
  /\ step \in {"load", "telemetry", "exited"} => open \subseteq Unclosed
  /\ step \notin {"load", "telemetry", "exited"} => "telemetry" \in open
  /\ step \notin {"load", "telemetry", "db"} \cup Ending => "db" \in open
  /\ step = "closeDB" => open \subseteq Unclosed \cup {"telemetry", "db"}
  /\ step = "flush" => open \subseteq Unclosed \cup {"telemetry"}
  /\ step \in Starting \cup Ending \/ role = "serve" =>
       open \subseteq Unclosed \cup {"telemetry", "db", "valkey"}
  /\ step = "gaugeClient" => "gauges" \notin open /\ "healthServer" \notin open
  /\ step = "unregister" => "healthServer" \notin open
  /\ "gauges" \in open => "gaugeClient" \in open

\* The clients of Valkey: the container's stays, the other is there from the wiring
\* to the end of the drain, for the web role if it has a publisher.
Dialled ==
  /\ cacheOn => "containerClient" \in open
  /\ publisher /\ step \notin {"closeDB", "flush", "exited"} => "valkey" \in open
  /\ role = "worker" /\ step \in WorkerOnly \cup Serving => "valkey" \in open

\* Requests come while the process is running; on the way out some are left
\* only if the drain expired or the listener broke.
Attended ==
  InFlight # {} =>
    \/ step \in Serving
    \/ step \in Ending /\ role = "serve" /\ (expired \/ broken)

OpenInv == WorkType /\ Placed /\ Held /\ Dialled /\ Attended

\* Nothing is open at first.
LEMMA OpenInit == Init => OpenInv
BY DEF Init, OpenInv, WorkType, Placed, Held, Dialled, Attended, InFlight, Starting,
       WorkerOnly, ServeOnly, Serving, Unclosed

\* While the process starts, no work is in flight to look after.
LEMMA UnattendedStep ==
  ASSUME OpenInv, UNCHANGED <<work, role>>, step \in Starting, Placed', Held', Dialled'
  PROVE  OpenInv'
BY DEF OpenInv, WorkType, Attended, InFlight, Starting, Serving, Ending

\* Every step of the process and its surroundings keeps the invariant.
LEMMA OpenStep == OpenInv /\ [Next]_vars => OpenInv'
<1> SUFFICES ASSUME OpenInv, [Next]_vars PROVE OpenInv'
  OBVIOUS
<1> USE DEF OpenInv, Advance, Opens, Closes, Dials, others, wiring, world, sync, serving
<1> DEFINE Steps == Starting \cup Serving \cup WorkerOnly \cup Ending
<1>1. CASE LoadConfig \/ NewProvider \/ NewConnection
  <2>1. UNCHANGED <<work, role>> /\ step \in Starting
    BY <1>1 DEF LoadConfig, NewProvider, NewConnection, Starting
  <2>2. Placed' /\ Held'
    BY <1>1 DEF LoadConfig, NewProvider, NewConnection, Placed, Held, Starting, Ending,
                WorkerOnly, ServeOnly, Serving, Owned, Unclosed
  <2>3. Dialled'
    BY <1>1 DEF LoadConfig, NewProvider, NewConnection, Placed, Dialled, Starting, Serving, WorkerOnly,
                ServeOnly, Ending, Unclosed
  <2> QED BY <2>1, <2>2, <2>3, UnattendedStep
<1>2. CASE NewObjectStore \/ MakeBucket \/ ConnectValkey \/ WireServices
  <2>1. UNCHANGED <<work, role>> /\ step \in Starting
    BY <1>2 DEF NewObjectStore, MakeBucket, ConnectValkey, WireServices, Starting
  <2>2. Placed' /\ Held'
    BY <1>2 DEF NewObjectStore, MakeBucket, ConnectValkey, WireServices, Placed, Held, Starting,
                Ending, WorkerOnly, ServeOnly, Serving, Owned, Unclosed
  <2>3. Dialled'
    BY <1>2 DEF NewObjectStore, MakeBucket, ConnectValkey, WireServices, Placed, Dialled,
                Starting, Serving, WorkerOnly, ServeOnly, Ending, Unclosed
  <2> QED BY <2>1, <2>2, <2>3, UnattendedStep
<1>3. CASE ListObjects \/ SyncObject \/ SyncDone \/ Listen \/ EnsureGroup \/ RegisterGauges
  <2>1. UNCHANGED <<work, role>> /\ step \in Starting
    BY <1>3 DEF ListObjects, SyncObject, SyncDone, Listen, EnsureGroup, RegisterGauges, Starting
  <2>2. Placed' /\ Held'
    BY <1>3 DEF ListObjects, SyncObject, SyncDone, Listen, EnsureGroup, RegisterGauges,
                Placed, Held, Starting, Ending, WorkerOnly, ServeOnly, Serving, Owned, Unclosed
  <2>3. Dialled'
    BY <1>3 DEF ListObjects, SyncObject, SyncDone, Listen, EnsureGroup, RegisterGauges,
                Placed, Dialled, Starting, Serving, WorkerOnly, ServeOnly, Ending, Unclosed
  <2> QED BY <2>1, <2>2, <2>3, UnattendedStep
<1>4. CASE ServerFails \/ Shutdown \/ Drained \/ DrainExpires
  <2>1. UNCHANGED <<work, role, open>> /\ step \in Serving
    BY <1>4 DEF ServerFails, Shutdown, Drained, DrainExpires, Serving
  <2>2. Placed' /\ Held'
    BY <1>4 DEF ServerFails, Shutdown, Drained, DrainExpires, Placed, Held, Starting,
                Ending, WorkerOnly, ServeOnly, Serving, Owned, Unclosed
  <2>3. Attended'
    BY <1>4 DEF ServerFails, Shutdown, Drained, DrainExpires, Attended, InFlight, Serving, Ending, Placed
  <2>4. Dialled'
    BY <1>4 DEF ServerFails, Shutdown, Drained, DrainExpires, Placed, Dialled, Starting, Serving, WorkerOnly,
                ServeOnly, Ending, Unclosed
  <2> QED BY <2>1, <2>2, <2>4, <2>3 DEF WorkType
<1>5. CASE StopHealthServer \/ UnregisterGauges \/ CloseGaugeClient
  <2>1. UNCHANGED <<work, role>> /\ InFlight = {}
    BY <1>5 DEF StopHealthServer, UnregisterGauges, CloseGaugeClient, Attended, Serving, Ending
  <2>2. Placed' /\ Held'
    BY <1>5 DEF StopHealthServer, UnregisterGauges, CloseGaugeClient, Placed, Held, Starting,
                Ending, WorkerOnly, ServeOnly, Serving, Owned, Unclosed
  <2>3. Dialled'
    BY <1>5 DEF StopHealthServer, UnregisterGauges, CloseGaugeClient, Placed, Dialled, Starting, Serving, WorkerOnly,
                ServeOnly, Ending, Unclosed
  <2> QED BY <2>1, <2>2, <2>3 DEF WorkType, Attended, InFlight
<1>6. CASE Close
  <2>1. UNCHANGED <<work, role, expired, broken>>
    BY <1>6 DEF Close
  <2>2. Placed' /\ Held'
    BY <1>6 DEF Close, Placed, Held, Starting, Ending, WorkerOnly, ServeOnly, Serving, Owned, Unclosed
  <2>3. Attended'
    BY <1>6, <2>1 DEF Close, Attended, InFlight, Serving, Ending
  <2>4. Dialled'
    BY <1>6 DEF Close, Placed, Dialled, Starting, Serving, WorkerOnly,
                ServeOnly, Ending, Unclosed
  <2> QED BY <2>1, <2>2, <2>4, <2>3 DEF WorkType
<1>7. CASE World \/ Exited \/ UNCHANGED vars
  <2>1. UNCHANGED <<work, role, step, open, expired, broken, cacheOn, publisher>>
    BY <1>7 DEF World, Exited, Cancel, Outage, Recovery, OtherMakesBucket, vars
  <2> QED
    BY <2>1 DEF WorkType, Placed, Held, Dialled, Attended, InFlight
<1>8. ASSUME NEW h \in Handlers, step # "exited", Serve(h) PROVE OpenInv'
  <2>1. UNCHANGED <<role, step, open, expired, broken, cacheOn, publisher>>
    BY <1>8 DEF Serve, Arrive, TakeSlot, SkipHook, Sleep, LeaveHook, Query, Finish, Probe, away
  <2>2. WorkType'
    BY <1>8 DEF Serve, Arrive, TakeSlot, SkipHook, Sleep, LeaveHook, Query, Finish, Probe,
                Does, WorkType
  <2>3. InFlight # {} \/ step = "running"
    BY <1>8 DEF Serve, Arrive, TakeSlot, SkipHook, Sleep, LeaveHook, Query, Finish, Probe,
                Does, InFlight
  <2>4. Attended'
    BY <2>1, <2>3 DEF Attended, Serving
  <2> QED
    BY <2>1, <2>2, <2>4 DEF Placed, Held, Dialled
<1> QED
  BY <1>1, <1>2, <1>3, <1>4, <1>5, <1>6, <1>7, <1>8 DEF Next, Main

\* For every environment and amount of work the inductive invariant holds: what is
\* open is determined by where the main goroutine is.
THEOREM OpenInvariance == Spec => []OpenInv
BY OpenInit, OpenStep, PTL DEF Spec

\* On every path out of RunServe and RunWorker, however far the start came, what
\* Deps and RunWorker hold is closed, the telemetry last; only the container's client
\* and what a failed start of the telemetry or a failed ping left stay open.
THEOREM ExitsAreClean == Spec => []EveryExitCleansUp
<1>1. OpenInv => EveryExitCleansUp
  BY DEF OpenInv, Held, EveryExitCleansUp
<1> QED
  BY <1>1, OpenInvariance, PTL

\* Only an expired drain or a broken listener closes Postgres or a client of Valkey
\* under work in flight; never the worker, whose drain has no limit.  The gauges and
\* the health server do not outlive the clients they ask.
THEOREM WorkKeepsItsConnections == Spec => []ConnectionsOutliveWork
<1>1. OpenInv => ConnectionsOutliveWork
  <2> SUFFICES ASSUME OpenInv PROVE ConnectionsOutliveWork
    OBVIOUS
  <2>1. ASSUME step \in Serving PROVE Used \subseteq open
    BY <2>1 DEF OpenInv, Held, Dialled, Placed, Starting, Serving, Ending, Used
  <2>2. "gauges" \in open => {"gaugeClient", "telemetry"} \subseteq open
    BY DEF OpenInv, Held, Unclosed
  <2>3. "healthServer" \in open => "valkey" \in open
    BY DEF OpenInv, Held, Dialled, Placed, Unclosed
  <2> QED
    BY <2>1, <2>2, <2>3 DEF OpenInv, Attended, ConnectionsOutliveWork
<1> QED
  BY <1>1, OpenInvariance, PTL

=============================================================================
