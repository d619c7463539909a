------------------------------ MODULE Process -------------------------------
(***************************************************************************)
(* The life of one process, in the role of RunServe or of RunWorker: what  *)
(* it opens on the way up, what it runs with, how it drains and what it    *)
(* closes on the way out, on every path.  Postgres, the object store and   *)
(* Valkey come and go.                                                     *)
(*                                                                         *)
(* The web role's list requests take connections of the database pool, the *)
(* injected slow query among them; a readiness probe needs one too.        *)
(***************************************************************************)
EXTENDS Config

CONSTANTS
  Environments,  \* environment variables the process may be started with
  Handlers,      \* bound: requests or jobs in flight
  Objects,       \* objects in the bucket at start
  WithRow,       \* those of them that have a row in images
  Pool,          \* SetMaxOpenConns
  MaxInjected,   \* maxInjectedSlowQueries
  MaxOutages     \* bound: times a service goes down

ASSUME ProcessAssumption ==
  /\ WithRow \subseteq Objects
  /\ Pool \in Nat /\ MaxInjected \in Nat /\ MaxInjected < Pool
  /\ IsFiniteSet(Handlers) /\ MaxOutages \in Nat

VARIABLES
  role,       \* "serve" or "worker"
  cfg,        \* what Load made of the environment
  step,       \* where the main goroutine is
  open,       \* what it has opened and not closed yet
  cacheOn,    \* the container's own connection: the cache and its invalidation
  publisher,  \* jobs can be published
  canceled,   \* SIGTERM: ctx is canceled
  expired,    \* the 30 s of Shutdown are over
  broken,     \* the listener failed, at once or while the server was running
  down,       \* services that cannot be reached
  outages,
  bucket,     \* the S3 bucket exists
  todo,       \* objects the synchronisation has not looked at
  rows,       \* objects that have a row
  work,       \* what each request or job is doing
  slots       \* slots of SlowDBHook taken

wiring == <<role, cfg, cacheOn, publisher>>
world == <<canceled, broken, down, outages>>
sync == <<todo, rows>>
serving == <<work, slots>>
others == <<expired, world, bucket, sync, serving>>
vars == <<wiring, step, open, others>>

Reachable(service) == service \notin down
InFlight == {h \in Handlers : work[h] # "none"}

\* Opened, and closed by nothing: exporters and readers of a telemetry that failed
\* to start, clients whose ping failed, and the container's own client.
Unclosed == {"exporters", "unpinged", "containerClient"}

Init ==
  /\ role \in {"serve", "worker"}
  /\ \E e \in Environments : cfg = Load(e)
  /\ step = "load" /\ open = {} /\ cacheOn = FALSE /\ publisher = FALSE
  /\ canceled = FALSE /\ expired = FALSE /\ broken = FALSE
  /\ down \in SUBSET {"db", "store", "valkey"} /\ outages = Cardinality(down)
  /\ outages <= MaxOutages
  /\ bucket \in BOOLEAN
  /\ todo = {} /\ rows = WithRow
  /\ work = [h \in Handlers |-> "none"] /\ slots = 0

-----------------------------------------------------------------------------
(* Bootstrap.  Close is deferred by its callers, and called by itself on   *)
(* the errors after the telemetry was set up.                              *)

Advance(from, to) == step = from /\ step' = to
Opens(resources) == open' = open \cup resources
Closes(resources) == open' = open \ resources

LoadConfig ==
  /\ Advance("load", IF Validate(cfg) THEN "telemetry" ELSE "exited")
  /\ UNCHANGED <<open, wiring, others>>

\* It may fail with its exporters made, also for reasons that are not modelled.
\* The caller then returns without Close.
NewProvider ==
  /\ \/ validateSampler(cfg) /\ Advance("telemetry", "db") /\ Opens({"telemetry"})
     \/ Advance("telemetry", "exited") /\ (UNCHANGED open \/ Opens({"exporters"}))
  /\ UNCHANGED <<wiring, others>>

\* Mutated form: an error of the database returns without Close.
NewConnectionOrExit ==
  /\ IF cfg.databaseURL # NoURL /\ Reachable("db")
     THEN Advance("db", "store") /\ Opens({"db"})
     ELSE Advance("db", "exited") /\ UNCHANGED open
  /\ UNCHANGED <<wiring, others>>

\* Open, then Ping, which is not under ctx.
NewConnection ==
  /\ IF cfg.databaseURL # NoURL /\ Reachable("db")
     THEN Advance("db", "store") /\ Opens({"db"})
     ELSE Advance("db", "close") /\ UNCHANGED open
  /\ UNCHANGED <<wiring, others>>

\* S3 looks for its bucket under ctx; GCS contacts nobody.  Both may fail.
NewObjectStore ==
  /\ \/ Advance("store", "close")
     \/ cfg.provider = "gcs" /\ Advance("store", "valkey")
     \/ /\ cfg.provider # "gcs" /\ Reachable("store") /\ ~canceled
        /\ Advance("store", IF bucket THEN "valkey" ELSE "makeBucket")
  /\ UNCHANGED <<open, wiring, others>>

\* It fails when another process has made the bucket since.
MakeBucket ==
  /\ IF Reachable("store") /\ ~canceled /\ ~bucket
     THEN Advance("makeBucket", "valkey") /\ bucket' = TRUE
     ELSE Advance("makeBucket", "close") /\ UNCHANGED bucket
  /\ UNCHANGED <<wiring, open, expired, world, sync, serving>>

\* Mutated form: Valkey is required.
ConnectValkeyOrFail ==
  /\ IF cfg.cacheEnabled /\ Reachable("valkey")
     THEN Advance("valkey", "services") /\ Opens({"valkey"})
     ELSE Advance("valkey", "close") /\ UNCHANGED open
  /\ UNCHANGED <<wiring, others>>

\* NewInstrumentedClient, when the cache is enabled: a client, and a ping.  It does
\* not close a client whose ping fails.
Dials(client) ==
  Opens(IF ~cfg.cacheEnabled THEN {} ELSE IF Reachable("valkey") THEN {client} ELSE {"unpinged"})

ConnectValkey ==
  /\ Advance("valkey", "services") /\ Dials("valkey")
  /\ UNCHANGED <<wiring, others>>

\* NewContainerWithObservability: a second connection to Valkey, never closed;
\* then wireJobPublisher.  A worker without the first one has given up before.
WireServices ==
  /\ IF role = "worker" /\ "valkey" \notin open
     THEN Advance("services", "close") /\ UNCHANGED <<open, cacheOn, publisher>>
     ELSE /\ Advance("services", IF role = "worker" THEN "group"
                                 ELSE IF cfg.syncOnStartup THEN "list" ELSE "listen")
          /\ Dials("containerClient")
          /\ cacheOn' = (cfg.cacheEnabled /\ Reachable("valkey"))
          /\ publisher' = (role = "serve" /\ "valkey" \in open)
  /\ UNCHANGED <<role, cfg, others>>

-----------------------------------------------------------------------------
(* syncExistingImages.  No error of it stops the process. *)

SyncColumns == {"original_filename", "storage_path", "content_type", "file_size",
                "uploaded_at", "created_at", "updated_at"}

\* The columns of images that are NOT NULL and have no default.
RequiredColumns == {"filename", "original_filename", "content_type", "file_size",
                    "storage_path"}

ListObjects ==
  /\ IF Reachable("store") /\ ~canceled
     THEN Advance("list", "sync") /\ todo' = Objects
     ELSE Advance("list", "listen") /\ UNCHANGED todo
  /\ UNCHANGED <<wiring, open, expired, world, bucket, rows, serving>>

\* A SELECT that fails and one that finds no row look the same.
SyncObject ==
  /\ step = "sync"
  /\ \E o \in todo :
       /\ todo' = todo \ {o}
       /\ rows' = IF Reachable("db") /\ ~canceled /\ RequiredColumns \subseteq SyncColumns
                  THEN rows \cup {o} ELSE rows
  /\ UNCHANGED <<wiring, step, open, expired, world, bucket, serving>>

SyncDone ==
  /\ Advance("sync", "listen") /\ todo = {}
  /\ UNCHANGED <<open, wiring, others>>

-----------------------------------------------------------------------------
(* serveUntilShutdown *)

\* ListenAndServe may fail at once: the port is taken.
Listen ==
  /\ \/ Advance("listen", "running") /\ UNCHANGED broken
     \/ Advance("listen", "close") /\ broken' = TRUE
  /\ UNCHANGED <<wiring, open, expired, canceled, down, outages, bucket, sync, serving>>

ServerFails ==
  /\ role = "serve" /\ ~broken /\ Advance("running", "close")
  /\ broken' = TRUE
  /\ UNCHANGED <<wiring, open, expired, canceled, down, outages,
                 bucket, sync, serving>>

Shutdown ==
  /\ canceled /\ Advance("running", "draining")
  /\ UNCHANGED <<open, wiring, others>>

\* Mutated form: Shutdown is given a context that is already canceled.
DrainedOrCanceled ==
  /\ Advance("draining", IF role = "serve" THEN "close" ELSE "healthServer")
  /\ InFlight = {} \/ role = "serve"
  /\ UNCHANGED <<open, wiring, others>>

\* Shutdown, or consumer.Run, returns: nothing is in flight any more.
Drained ==
  /\ InFlight = {}
  /\ Advance("draining", IF role = "serve" THEN "close" ELSE "healthServer")
  /\ UNCHANGED <<open, wiring, others>>

\* Mutated form: it waits for as long as it takes.
DrainNeverExpires ==
  /\ role = "serve" /\ InFlight = {} /\ Advance("draining", "close")
  /\ expired' = TRUE
  /\ UNCHANGED <<wiring, open, world, bucket, sync, serving>>

\* Only the web role's drain is bounded.
DrainExpires ==
  /\ role = "serve" /\ InFlight # {} /\ Advance("draining", "close")
  /\ expired' = TRUE
  /\ UNCHANGED <<wiring, open, world, bucket, sync, serving>>

-----------------------------------------------------------------------------
(* RunWorker: the group, then what is deferred in reverse order. *)

EnsureGroup ==
  /\ IF Reachable("valkey") /\ ~canceled
     THEN Advance("group", "gauges") ELSE Advance("group", "close")
  /\ UNCHANGED <<open, wiring, others>>

\* When they cannot be registered the client is closed, and then Deps.
RegisterGauges ==
  /\ \/ Advance("gauges", "running") /\ Opens({"gaugeClient", "gauges", "healthServer"})
     \/ Advance("gauges", "gaugeClient") /\ Opens({"gaugeClient"})
  /\ UNCHANGED <<wiring, others>>

\* Mutated form: the client goes before the gauges that poll it.
StopHealthServerAndClient ==
  /\ Advance("healthServer", "unregister") /\ Closes({"healthServer", "gaugeClient"})
  /\ UNCHANGED <<wiring, others>>

StopHealthServer ==
  /\ Advance("healthServer", "unregister") /\ Closes({"healthServer"})
  /\ UNCHANGED <<wiring, others>>

UnregisterGauges ==
  /\ Advance("unregister", "gaugeClient") /\ Closes({"gauges"})
  /\ UNCHANGED <<wiring, others>>

CloseGaugeClient ==
  /\ Advance("gaugeClient", "close") /\ Closes({"gaugeClient"})
  /\ UNCHANGED <<wiring, others>>

\* Deps.Close: Valkey, then Postgres, then the telemetry's flush and shutdown.
Close ==
  /\ \/ Advance("close", "closeDB") /\ Closes({"valkey"})
     \/ Advance("closeDB", "flush") /\ Closes({"db"})
     \/ Advance("flush", "exited") /\ Closes({"telemetry"})
  /\ UNCHANGED <<wiring, others>>

Main ==
  \/ LoadConfig \/ NewProvider \/ NewConnection \/ NewObjectStore \/ MakeBucket
  \/ ConnectValkey \/ WireServices \/ ListObjects \/ SyncObject \/ SyncDone
  \/ Listen \/ Shutdown \/ Drained \/ DrainExpires
  \/ EnsureGroup \/ RegisterGauges
  \/ StopHealthServer \/ UnregisterGauges \/ CloseGaugeClient \/ Close

-----------------------------------------------------------------------------
(* Requests and jobs.  A list request that missed the cache goes through   *)
(* the slow-query hook to its own query; a probe pings; a job is one step. *)

Sleeping == {h \in Handlers : work[h] = "sleeping"}
Busy == Sleeping \cup {h \in Handlers : work[h] = "query"}
FreeConnection == Cardinality(Busy) < Pool /\ "db" \in open

Does(h, from, to) == work[h] = from /\ work' = [work EXCEPT ![h] = to]
away == <<wiring, step, open, expired, world, bucket, sync>>

Arrive(h) ==
  /\ step = "running"
  /\ \E w \in IF role = "serve" THEN {"hook", "probe"} ELSE {"job"} : Does(h, "none", w)
  /\ UNCHANGED <<slots, away>>

\* Mutated form: the sleep is taken also when no slot is free.
TakeSlotAlways(h) ==
  /\ cfg.demoControls /\ Does(h, "hook", "slot") /\ slots' = slots + 1
  /\ UNCHANGED away

\* The slot is taken before the controls are asked whether to sleep.
TakeSlot(h) ==
  /\ cfg.demoControls /\ slots < MaxInjected
  /\ Does(h, "hook", "slot") /\ slots' = slots + 1
  /\ UNCHANGED away

SkipHook(h) ==
  /\ ~cfg.demoControls \/ slots >= MaxInjected
  /\ Does(h, "hook", "waiting")
  /\ UNCHANGED <<slots, away>>

Sleep(h) ==
  /\ FreeConnection /\ Does(h, "slot", "sleeping")
  /\ UNCHANGED <<slots, away>>

\* The sleep ends, fails, or never was: the slot is given back.
LeaveHook(h) ==
  /\ Does(h, "sleeping", "waiting") \/ Does(h, "slot", "waiting")
  /\ slots' = slots - 1
  /\ UNCHANGED away

Query(h) ==
  /\ FreeConnection /\ Does(h, "waiting", "query")
  /\ UNCHANGED <<slots, away>>

\* The request is answered, or its client or the pool gives up on it.
Finish(h) ==
  /\ Does(h, "query", "none") \/ Does(h, "waiting", "none") \/ Does(h, "job", "none")
  /\ UNCHANGED <<slots, away>>

\* readyzHandler: a connection, and an answer on it, within 2 s.
Probe(h) ==
  /\ Does(h, "probe", "none")
  /\ UNCHANGED <<slots, away>>

Serve(h) ==
  \/ Arrive(h) \/ TakeSlot(h) \/ SkipHook(h) \/ Sleep(h) \/ LeaveHook(h)
  \/ Query(h) \/ Finish(h) \/ Probe(h)

-----------------------------------------------------------------------------
(* The world. *)

Cancel ==
  /\ step # "exited" /\ ~canceled /\ canceled' = TRUE
  /\ UNCHANGED <<wiring, step, open, expired, broken, down, outages, bucket, sync, serving>>

Outage(service) ==
  /\ step # "exited" /\ Reachable(service) /\ outages < MaxOutages
  /\ down' = down \cup {service} /\ outages' = outages + 1
  /\ UNCHANGED <<wiring, step, open, expired, canceled, broken, bucket, sync, serving>>

Recovery(service) ==
  /\ step # "exited" /\ down' = down \ {service} /\ ~Reachable(service)
  /\ UNCHANGED <<wiring, step, open, expired, canceled, broken, outages, bucket, sync, serving>>

\* The other role starts on an empty store too.
OtherMakesBucket ==
  /\ step \in {"store", "makeBucket"} /\ ~bucket /\ bucket' = TRUE
  /\ UNCHANGED <<wiring, step, open, expired, world, sync, serving>>

World ==
  \/ Cancel \/ OtherMakesBucket
  \/ \E s \in {"db", "store", "valkey"} : Outage(s) \/ Recovery(s)

Exited == step = "exited" /\ UNCHANGED vars

Next == Main \/ ServerFails \/ World \/ Exited \/ \E h \in Handlers : step # "exited" /\ Serve(h)

\* The main goroutine is scheduled.  A job ends (every call of it is bounded);
\* nothing is assumed of a request.
Spec == Init /\ [][Next]_vars
FairSpec ==
  /\ Spec
  /\ WF_vars(Main)
  /\ \A h \in Handlers : WF_vars(role = "worker" /\ step # "exited" /\ Finish(h))

-----------------------------------------------------------------------------
\* What the main goroutine, the services and the requests can be.
TypeOK ==
  /\ role \in {"serve", "worker"}
  /\ step \in {"load", "telemetry", "db", "store", "makeBucket", "valkey", "services",
                "list", "sync", "listen", "group", "gauges", "running", "draining",
                "healthServer", "unregister", "gaugeClient", "close", "closeDB", "flush",
                "exited"}
  /\ open \subseteq Unclosed \cup
       {"telemetry", "db", "valkey", "gaugeClient", "gauges", "healthServer"}
  /\ {cacheOn, publisher, canceled, expired, broken, bucket} \subseteq BOOLEAN
  /\ down \subseteq {"db", "store", "valkey"} /\ outages \in 0..MaxOutages
  /\ todo \subseteq Objects /\ WithRow \subseteq rows /\ rows \subseteq Objects
  /\ work \in [Handlers -> {"none", "hook", "probe", "job", "slot", "sleeping", "waiting",
                            "query"}]
  /\ slots \in 0..MaxInjected

\* However far the start came and however the process ends: what Deps and RunWorker
\* hold is closed, and the telemetry, flushed last, is the last of it to go.  What
\* nothing closes stays open: the container's client, and what a telemetry or a
\* client that failed to start had made.
EveryExitCleansUp ==
  /\ step = "exited" => open \subseteq Unclosed
  /\ "telemetry" \notin open => open \subseteq Unclosed

\* The connections a request or a job of this process uses.
Used ==
  {"db"} \cup (IF publisher \/ role = "worker" THEN {"valkey"} ELSE {})
         \cup (IF cacheOn THEN {"containerClient"} ELSE {})

\* Neither Postgres nor a client of Valkey is closed under a request or a job in
\* flight, but when the drain of the web role expires or its listener broke; the
\* last collection of the metrics polls no closed client; and the worker's probes
\* ask no closed client.
ConnectionsOutliveWork ==
  /\ InFlight # {} => Used \subseteq open \/ (role = "serve" /\ (expired \/ broken))
  /\ "gauges" \in open => {"gaugeClient", "telemetry"} \subseteq open
  /\ "healthServer" \in open => "valkey" \in open

\* Injected sleeps leave connections of the pool to ordinary queries and to the
\* readiness probe, and every slot is given back by who took it.
InjectedQueriesLeaveRoom ==
  /\ Cardinality(Sleeping) <= MaxInjected
  /\ slots = Cardinality({h \in Handlers : work[h] \in {"slot", "sleeping"}})

\* A web role that came as far as Valkey serves, whatever state Valkey is in and
\* whatever the synchronisation meets, unless it is told to stop or its port is taken.
StartsWithoutValkey ==
  step = "valkey" /\ role = "serve" ~> step = "running" \/ canceled \/ broken

\* A process that is told to stop exits: a worker once its jobs are done, the
\* web role whether or not its requests ever end.
ShutdownEnds == canceled ~> step = "exited"

=============================================================================
