# A verification project for image-gallery

TLA+ models of the image gallery in `src/`, the TLC configurations that check
them on small instances, and proofs checked by TLAPS. Every definition is
translated from the Go and SQL source; `PROJECT.json` ("map") names the lines.

## 1. The system

One binary plays three roles: `serve` (web), `worker` and `loadgen`. They share
a Postgres database, an object store (S3 or GCS) and a Valkey server, which is
both a cache and the job queue. No transaction spans two of these stores, and
all correctness between them rests on the order of calls and on retries.

| Component | State | Operations | Hard behaviour |
|---|---|---|---|
| Job queue (`platform/queue`) | Valkey stream, consumer group, pending list, goroutines with a semaphore | Publish, EnsureGroup, Run/fetch, handle/attempts, deadLetter, ack | at-least-once delivery, crashes, lost replies, reclaiming, trimming, shutdown |
| Image processing (`worker/processor.go`) | `images.status`, `thumbnail_path`, thumbnail objects | Handle, OnDeadLetter | idempotence, retries, deletion while processing |
| Image service, upload and delete | rows, objects, the publish | CreateImage, enqueueProcessing, DeleteImage | partial failure between three stores, canceled requests |
| Image service, reads | cache entries `image:*`, `image_list:*` | GetImage, ListImages, the invalidations after writes | stale sets after invalidation, non-atomic KEYS + DEL, TTL, keys joined with commas |
| Settings | `user_settings` rows, `settings:*` entries | GetSettings, UpdateSettings, ResetSettings | read-modify-write through a cache, default row fallback |
| Demo controls | `demo_controls` row, `demo:controls` entry | Get, Update, Reset, partial PUT, middleware, worker fault, slow-DB slots | read-modify-write through a cache, reset racing a PUT |
| Load generator (`loadgen`) | breaker ring, semaphore, statistics, phases, the client's lists of ids | arrive, attempt, do, record, run, runIncident | open loop with shedding, tripping, always resetting, deleting only its own |
| Upload request (`web/handlers/upload.go`), tags, validation | `tags`, `image_tags`, rows and objects of the request | processUploadedFile, CreateImage, GetOrCreate, AddToImage | several files in one request, four layers of checks, check-then-insert race, lost clients |
| Thumbnail (`storage/processor.go`) | none | GenerateThumbnail, fetch, decode | floating point at the edge, empty images |
| Listing and the gallery page | filters and gallery in the browser | List, getImagesFromService, the page's script | two clamps of the page size, overlapping responses |
| Start-up and shutdown (`app`), configuration, slow-query slots | process state, connections, the pool | Load, Validate, Bootstrap, RunServe, RunWorker, syncExistingImages, SlowDBHook | degraded start, every early return, bounded drain, pool exhaustion |
| Telemetry, storage drivers, albums | none of their own | | |

What makes each correct, in one line: the queue loses no job and never runs two
handlers of one entry while its time limits hold; the pipeline never shows a row
whose object is missing and never leaves a row without a job to move it; a cache
is stale only for the reasons the design accepts and only until its TTL; a
settings or controls write changes what it names and nothing else; an upload's
answer is true of each of its files; a list is the newest images its filter asked
for when it was read; a process closes what it holds, after the work that uses it; the load
generator accounts for every arrival, trips exactly when its window says so and
deletes nothing but its own uploads.

`PROJECT.json` lists every component with its status and, under "hazards", what
is hard to test, each at its line, with the properties that watch it.

### How the parts interact

- `serve` handles requests concurrently. An upload stores the object, resolves
  the tags, inserts the row, links the tags, and publishes a job; each is a call
  to another server and any of them may fail or be cut by the client's
  disconnection. Reads go through the cache and fall back to the database.
- `worker` processes read the stream as one consumer group, with a semaphore of
  goroutines each. A handler's result decides between ack, retry with backoff
  on the same goroutine, and dead letter followed by the hook; an entry nobody
  acknowledges is reclaimed after `claimIdle`.
- `serve` and `worker` share the cache: the worker's status writes invalidate
  what `serve` has cached, and the demo controls that `serve` writes reach the
  worker through the cached document.
- `loadgen` is a client only. Its incident scenario drives the demo controls of
  a running application and must leave them off.

## 2. Modules

| Module | Models | State and actions |
|---|---|---|
| `JobQueue` | `platform/queue` | `log`, `trimmed`, `group`, `delivered`, `pel`, `idle` are the stream and its group; `loop` is where `Run`'s read loop is, `slot[w][s]` the handle call on semaphore slot `s` of worker `w`. `Publish`; `Start` (EnsureGroup); `Claim` and `ReadNew` (the two commands of `fetch`, each with the dispatch that follows) and their lost replies; `AttemptEnds`, `BackoffEnds`, `DeadLetter`, `HookEnds`, `Ack`, `AckFails` (the stages of `handle`); `Stop`, `Drained`, `Crash`; `GoIdle` (time) |
| `JobDelivery` | the queue's promise | jobs owed, finished, settled: at-least-once delivery with bounded retention; `JobQueue!ImplementsDelivery` is the refinement |
| `JobQueueProofs` | | theorems about `JobQueue` |
| `Thumbnail` | `ImageProcessor.GenerateThumbnail`, the checks of `fetch` and `decode` | operators only: `Sizes` is the set of sizes a thumbnail may have, `MayRender` and `MayReject` whether `process` may succeed or fail for good on given bytes |
| `ImagePipeline` | upload, delete, worker | composes `JobQueue` (`Q == INSTANCE JobQueue`) and `Thumbnail` with rows, objects and thumbnails; `upload[i]`, `deletion[i]` and `stage[w][s]` are program counters of `CreateImage`, `DeleteImage` and `Processor.Handle`, one action per call to another store |
| `PipelineProofs` | | theorems about `Thumbnail` and `ImagePipeline` |
| `UploadRules` | `parseTags`, `processUploadedFile`, `detectContentType`, `ValidateImageUpload`, `CreateImageRequest.Validate`, `Image.Validate`, `Service.Store`, `ValidateTag` | operators only: the four layers of checks a file passes, each as its layer has it, in the order they are met |
| `Upload` | `uploadImagesHandler` down to the stores | `req[r]` is where the handler of request `r` is and what it has collected; `Arrive`, `Validate`, `Store`, the tags (`GetByName`, `CreateTag`), `BuildRow`, `InsertRow`, `AddToImage`, `CleanUp`, `Enqueue`, `MarkFailed`, `Respond`, `Disconnect`; the tags table is shared by the requests |
| `Selection` | a part of a sequence, in its order | operators only: `parseTags`' result, the filters that `removeTagFilter` leaves |
| `Listing` | `ListImagesRequest`, its key in the list cache, the list queries, the adapter's counts, `getImagesFromService` | operators only, over a set of images; an order with ties is a set of orders; a key is what remains of the filters once they are joined (`Joined`) |
| `GalleryPage` | the script of the gallery page, and the routes it calls | `filters`, `matchAll`, `gallery`, `panel`, `url` are the page; `requests` are those in flight, `cached` the list cache; user actions (`filterByTag`, `removeTagFilter`, `clearFilters`, `toggleMatchMode`, `Upload`, `deleteImage`), the server's (`listImagesHandler` is `CacheHit`, or `QueryList` and then `CacheList`), and the arrival of answers in any order |
| `WebProofs` | | theorems about `UploadRules`, `Upload`, `Listing` and `GalleryPage` |
| `Config` | `config.Load`, its validation, `observability/config.go` | operators only: what `Load` makes of an environment, `Validate`, `validateSampler` |
| `Process` | `RunServe`, `RunWorker`, `Bootstrap`, the container, `syncExistingImages`, `SlowDBHook` | `step` is where the main goroutine is, `open` what is open (`Unclosed` of it is closed by nothing), `work[h]` a request or job and `slots` those of the slow-query hook; the services come and go (`Outage`, `Recovery`) |
| `ProcessProofs` | | theorems about `Process` |
| `ImageCache` | `GetImage`, `ListImages`, invalidation | `db`, `cache`, calls in progress of readers (`Miss`, `Query`, `Fill`) and writers (`Create`, `StatusWrite`, `Delete`, then `FindLists`, `DropLists`, `DropImage` in the order of the code), failed commands, dying writers, `Expire` |
| `CacheProofs` | | theorems about `ImageCache` |
| `DemoControls` | `faults.Service`, the demo handlers | the row, the cache entry with its age, calls in progress; `Read`, `Put`, `Reset`, `Query`, `Fill`, `Save`, `Invalidate`, `Abandon`, `Tick` |
| `Incident` | `runIncident` | extends `DemoControls` with the client: `SetControls`, `PhaseStarts`, `PutFails`, `PhaseEnds`, `Interrupted`, `ResetControls`, `ResetEnds` |
| `IncidentProofs` | | theorems about `DemoControls` and `Incident` |
| `Settings` | the settings service and repository | `rows`, `nullRow` (rows with a NULL user id), cache entries, calls in progress; `Get`, `UpdateSettings`, `ResetSettings`, `FetchRow`, `FetchDefault`, `Fill`, `Save` (Upsert), `Invalidate`, `Abandon`, `Expire` |
| `SettingsProofs` | | theorems about `Settings` |
| `Breaker`, `ErrorWindow` | `loadgen/breaker.go` and what it promises | the ring and its counters; the window of the last results |
| `LoadEngine` | `loadgen/engine.go` | extends `Breaker`; `loop`, the semaphore's slots (`attempt`), statistics; `Tick`, `Deadline`, `Done`, `Admit`, `Shed`, `Drained`, `Interrupt`, `Answer`, `Cut`, `Feed`, `Trip` |
| `LoadClient` | `loadgen/ops.go` against a gallery | extends `LoadEngine`: what an attempt does. `ids`, `mine` and a `request` per slot; `Begin` (`do`, `pick`), `Serve` (external: an effect and an answer, or a failure before or after it), `Returns` (`trackIDs`, `statusErr`), `IsCut` |
| `LoadProofs` | | theorems about `Breaker`, `LoadEngine` and `LoadClient` |
| `MC*` | | the modules the configurations instantiate |

Conventions. A definition keeps the source's name where there is one. A program
counter is a field of the call it belongs to. Between two actions of one call
anything else may happen: an action is at most one command to one server, the
computation before it included. History variables (`finished`, `settled`,
`stranded`, `excused`, `last`, `mixed`, `givenUp`, `late`) are marked "history"
and appear in no guard. A definition headed "Mutated form" is a plausible bug in
the definition below it; it is used by nothing, and `PROJECT.json` ("mutants")
says which property it breaks when it takes that definition's place.

### Abstractions that matter

- Time is abstract, except in `DemoControls`, where a tick is a fraction of the
  cache's TTL and a call may take `MaxStall` ticks. `JobQueue` has the clock of
  `claimIdle` as a nondeterministic `GoIdle`; with `MayOverrun = FALSE` an entry
  does not become idle while a handle call holds it. The code's own limits are
  meant to ensure that: `claimIdle` is 60 s, the attempts' pauses add up to
  seconds and `MaxWorkerDelay` bounds the injected delay. But no attempt has a
  deadline, so the theorems do not assume it, except where they say so (`SoleHandler`,
  `NoStrandedRow`, `ReadyIsSkipped`).
- XADD's MAXLEN is approximate: `Publish` may trim any prefix that leaves
  `MaxLen` entries. Trimming takes entries that are pending.
- XAUTOCLAIM, XREADGROUP and XACK are modelled by their effect on the group, as
  the code relies on it, and split from the receipt of their reply.
- `Images` are uploads, so an id is never reused (a serial column and a fresh
  object key). A job that does not parse is a constant (`Malformed`), and so is
  what the bytes of an image are like (`Content`): their size, whether header and
  body decode, format, width and height.
- `Thumbnail` scales by a fraction where the code multiplies in float64, and lets
  the product fall below an integer where the exact one is that integer. For
  image sizes no other product comes close enough to be truncated differently.
- `UploadRules` has a file as its name (length, extension, flaws), its declared
  and its sniffed type, and its size; a tag as its name, its case, whether its
  characters are legal, and its length. `Config` has the variables that decide
  something, each as the kinds of value that its parser tells apart.
- XAUTOCLAIM looks at no more than ten pending entries for each it is asked for
  (COUNT, consumer.go:113); in `JobQueue` it finds an idle entry wherever it is. A
  later call goes on where this one stopped, so no entry is passed over for good.
- `GalleryPage` has one browser. The rows change only by its requests, which is
  enough for every order of answers to occur, and other clients and the worker show
  in the list cache alone: they may drop an entry (`Expire`). A row and its tags come
  in one step, `uploaded_at` is the id, and the key of a list is compared by the
  parts between its commas (`Parts`). A text with a space, which url.QueryEscape
  (api.go:398) turns into a `+` that decodeURIComponent (handlers.go:916) leaves, is
  not among `Texts`; names of tags have none. The browser's Back after
  `history.pushState` (handlers.go:977), for which the page has no listener, changes
  the address and not the filters; it is left out. `ChangeArrives` triggers a load
  after every upload, which is more than htmx's `load` may do.
- `Process` is one process; Postgres, the store and Valkey are reachable or not, and
  a telemetry or a store may also fail to start for reasons of its own. What is
  opened is in `open`, the container's second connection to Valkey (container.go:141),
  clients whose ping failed and the exporters of a telemetry that failed half-way
  included. The constructor of the container has errors of its own (no store, a meter
  that refuses a name) that cannot occur with the arguments it is given.
- A call that fails may have had its effect: an error is also what a lost reply or a
  canceled context gives. In `ImagePipeline` a failed INSERT, UPDATE, DELETE, PUT of a
  thumbnail or XADD leaves both outcomes open. Its failed Store of an original, which
  leaves at most an object that nothing refers to, and the effect of a link that was
  reported as failed are left out: no property or later step looks at them. `Upload`
  has both outcomes of a failed Store, tag and INSERT; of a failed link, DELETE, XADD
  or UPDATE it has the one without the effect, since its properties say the same of
  both. The calls of a request whose context was cut are not made.
- `ImageCache` shows a value as the set of (image, status) pairs it contains: a
  page of a list is the set of all images, so paging can hide no staleness.
- A settings document carries the user id of the row it came from (`owner`),
  because `applyUpdates` copies it and the Upsert writes there.
- The rounding of a probability (NUMERIC(4,3)) and the check of single values
  are left out: `Settings` of a control and `Values` of a setting are the values
  that validation accepts.
- The cache modules have Valkey: without it they reduce to the database. A process
  that started without is in `Process` and, as one that cannot publish, in `Upload`.

## 3. Runs

A subsystem has one passing run, whose configuration checks its invariants,
action properties and liveness together (`MC<module>.cfg`); two runs end in a
violation (`MC<module>_<what>.cfg`). Bounds are named constants in the
configuration. A run takes between a second and three minutes.

| Run | What it shows | Bounds, and why they are enough |
|---|---|---|
| `queue` | no job is lost short of trimming; an ack follows an outcome; no two handle calls hold one entry; a graceful shutdown abandons nothing and completes; every job is acknowledged; `ImplementsDelivery` | two workers of one slot, so that an entry can be taken over while its handler lives; two jobs, one malformed; `MaxLen` 1, so that the second publish may trim a pending entry; two faults, so that one can hit the recovery from the other; a shutdown. More slots per worker, and handle calls that outlive `claimIdle`, are left to the proofs, which cover them for these safety properties |
| `pipeline` | rows point to objects and a row that waits has a job, but for uploads that were answered with an error while their row was in; a stored thumbnail has the size its image calls for, ready images are skipped, every image is resolved | every call fallible, with or without its effect, any worker may crash and any reply of the queue be lost: two of these in all (`MaxFailures`), so that the second can hit the handling of the first; two workers; one upload (`MaxUploads`): uploads share nothing but the queue. Its image is a PNG of 15680 by 49, whose thumbnail rounding may or may not leave empty, so that both outcomes of the rendering occur. `MaxJobs` 3 is what one upload and two lost replies publish; `MaxLen` 4 excludes trimming, whose effect on a job is `queue`'s subject; trimming and calls that outlive `claimIdle`, which `NoStrandedRow` and `ReadyIsSkipped` except, are left to the proofs |
| `cache` | an entry is stale only while its deletion is pending, or for a reason the design accepts; once writes end the cache agrees with the database for good | one reader, two writers, one image, one list, three writes: enough for a write between each two steps of another call; one failure |
| `demo` | how old a served document can be; once off, every later reader sees off | three calls, so that a slow reader, a PUT and a reset overlap; TTL of 2 ticks, stall of 1: the smallest values in which "younger than the TTL" and "as old as a call takes" differ; one failure |
| `incident` | the scenario resets on every way out, or warns, unless it gave up on a PUT; the application's cache is off in the end | three phases (off, fault, off) stand for the five: they have the same transitions; four calls of the client (three PUTs and the reset), two of other readers; one failure |
| `settings` | nobody changes another named user's row; a user who calls one at a time reads what it wrote; once rows are at rest, every cached entry comes to agree | a user and the anonymous one, who share the default row until the user has its own; two concurrent calls, every kind of request; one failure |
| `engine` | every arrival is counted once; the breaker implements the window; a trip is earned and stops the load; concurrent requests delete only what the run uploaded, and each once; the run ends, drained | two slots, a ring of three, four arrivals: the ring fills and wraps while slots are busy; interrupted at any time; any request may fail before or after its effect; lists of two ids, which two uploads fill. Rings of other sizes are left to the proofs |
| `upload` | the answer is true of every file; good files are stored whatever else is in the form; orphans come only of a tag that could not be had; an image that is stored has a job or says it failed; every request is answered | two requests, so that both can create one tag; six forms: two files of which one declares no type, a good file beside one that is not an image with a tag given twice, a name too long for the store, a tag that the table refuses, a photo whose tag is longer than any may be, no files at all; one failed call or lost client, at any step |
| `gallery` | a list, read or found in the list cache, is the newest matching images of when it was read; pages cover the table where they can; what a settled page shows are its filters | three images, two tags, so that ANY and ALL differ; a limit of two images behind a page size of four, as 50 behind 100 in the code; four requests: an older answer can overtake two newer ones, and be cached after a change; opened without filters, with two, with an empty one and with one that holds a comma, so that keys collide |
| `process` | what `Deps` and `RunWorker` hold is closed on every way out, the telemetry last; neither Postgres nor a client of Valkey is closed under work; injected queries take their slots' connections and no more; the web role starts without Valkey; a shutdown ends | both roles, seven environments (as deployed, without synchronisation, without cache on GCS, without a database, with half a credential, with a bad bucket name, with a bad sampler); three requests or jobs, pool 2, one slot (25 and 4 in the code): two sleepers would take the pool; one service down at start or later |
| `pipeline_link`, `settings_update` | violations, see below | at most one failure |

Each state machine also states its type invariant (`TypeOK`, `IncidentTypeOK`,
`ClientTypeOK`, `GalleryTypeOK`). Those of the queue, the uploads, the cache, the
settings and the gallery page are proved (`TypeCorrect`, `UploadTypeCorrect`,
`CacheTypeCorrect`, `SettingsTypeCorrect`, `GalleryTypeCorrect`), and the breaker's is
part of `BreakerInvariance`; the others hold on the instances above, and can be
added to their configurations as an `INVARIANT`.

### Exemptions, and what the violation runs show

Some properties except what the code does not do right. Each exception is a
named condition. Two violation runs show the property without it, against the
line of the repository quoted in `PROJECT.json` ("findings"):

- `RowsPointToObjects` excepts uploads that were answered with an error of `Create`
  while their row was in (`compensated`): linking a tag failed, or the INSERT was done
  and its reply lost. `pipeline_link` has the first: the object is deleted, the row
  stays. `NoStrandedRow` and `ImagesResolve` except the same uploads, whose row no job
  will ever move.
- `NamedRowsAreTheirOwn` excepts the default row. `settings_update`: the first update
  of a user without a row changes the default row, and the user still has none.

Five more formulas are stated beside the properties and do not hold; as an
`INVARIANT` or `PROPERTY` of the configuration of their module each gives a
counterexample:

- `ReadyIsFinal` (`ImagePipeline`). An XADD applied with its reply lost makes a
  processed image `failed` (image_service.go:109), because the status writes are
  unconditional; image_repository.go:189 promises "pending -> processing ->
  ready|failed". `ReadyIsSkipped` excepts images published twice, and says
  nothing of `failed`.
- `FreshAtRest` (`ImageCache`). With no failure at all, a reader that queried before a
  write and fills in afterwards leaves an old status in the cache for its whole
  TTL, although every invalidation worked; container.go:155-158 wires the
  worker's invalidation so that it "does not stay stale until its TTL expires".
  `StaleHasACause` excepts such readers.
- `LeavesControlsOff` (`Incident`). A PUT the client gave up on is saved after the
  reset; incident.go:67 says the scenario "ALWAYS resets the controls on the way
  out". `ResetsUnlessGivenUp` excepts it.
- `LegalTagsAreHad` (`Upload`). Two uploads that bring the same new tag both find it
  missing; the second INSERT fails on UNIQUE(name), and its file with it, after
  the object was stored. `OrphansNeedATag` and `GoodFilesAreStored` except it
  (`Troubled`).
- `ListsAreOfTheirFilters` (`GalleryPage`). image_service.go:348 has the key of a cached
  list "based on request parameters", and its filters are joined with commas (392):
  `/gallery?tags=` has the key of the list without filters, `/gallery?tags=a,b` that of
  the filters `a` and `b`, and for up to 30 minutes each is shown the other's list.
  `ListIsNewestMatching` and `SettledPageShowsItsFilters` say which filters are safe: the
  names of tags (`Ordinary`), which hold no comma and are not empty.

More disagreements are visible in the models, without a formula of their own:

- bootstrap.go:55-57 says that without Valkey "uploads simply stay pending until a
  worker can pick them up". They do not: with no publisher, `enqueueProcessing`
  (image_service.go:94-119) marks each image failed, as the comment of
  `wireJobPublisher` (serve.go:43-47) says, and no worker ever sees it. `Enqueue` and
  `MarkFailed` of `Upload` follow the code, and `NothingWaitsForever` is what the code
  does; the comment, taken at its word, would be its violation.
- bootstrap.go:88 says that `Close` "releases connections, whatever was opened". The
  container's own client of Valkey is closed by nothing (`Container.Close` closes the
  database alone, and is not called); `NewInstrumentedClient` drops a client whose ping failed without closing
  it; and when `NewProvider` fails, `Bootstrap` returns without `Close` while exporters
  that were made go on. `EveryExitCleansUp` names the three (`Unclosed`). An exit
  frees them; until then they are idle, and what the exporters hold is not flushed.
- `OnDeadLetter` (worker/processor.go:142-150) only records an error of its
  UPDATE, and the entry is acknowledged: the row stays `processing`, although the
  comment at processor.go:63 says OnDeadLetter resolves it. `ImagesResolve` excepts
  such rows (`stranded`).
- `DeleteImage` cleans up the original only: `CleanupStorage` leaves `thumbnails`.
- With handle calls that outlive `claimIdle` (`MayOverrun`), a second consumer can
  write `processing` over `ready`: `Load` and `Mark` are two statements.
- The thumbnail of a strip (320 times as long as wide, or more) may be empty
  (`Elongated`, `Empty`). A PNG then fails for good; a GIF or JPEG becomes ready
  with an empty file behind it (`Encodes`).
- A PUT of one demo control writes back what it read of the others, perhaps from
  the cache (`Merge`, `Save`); `StalenessIsBounded` says how old that can be.
- The anonymous reset of the settings inserts a row with a NULL user id, which
  ON CONFLICT never meets and nothing reads (`nullRow`).
- `syncExistingImages` adds no row, ever: its INSERT (serve.go:127) has no
  `filename`, which is NOT NULL without a default
  (migrations/001_initial_schema.sql:4). `SyncObject` has the two sets of columns;
  serve.go:85 says it "synchronizes existing S3 objects to the database".
- `refreshGalleryWithFilters` (handlers.go:932, "Refresh gallery with current filter
  state") shows whichever answer comes last, and the load after an upload and the
  reload after a delete carry no filters. `SettledPageShowsItsFilters` has the
  condition under which the page is right.
- The list route asks for page 1 of 100 images whatever its parameters, the
  repository gives 50, and `total_count` is the length of the page;
  OBSERVABILITY.md:96 and docs/DEVELOPMENT.md:405 have pagination. `PagesCover` says
  for which sizes the repository's pages would cover the table.
- The cards of a filtered list have no tags (`GetByTags`), and a filter that is in
  the address twice matches nothing under ALL (`Matches` counts the names).

### Fairness

Liveness assumes, and the code or its deployment provides:

- *Weak fairness of each step of a call in progress* (requests, handle calls,
  commands to a server): goroutines are scheduled, and every call either returns
  or fails. `DeadLetter`'s hook has a timeout of its own; HTTP and Redis clients
  have timeouts.
- *Restart of a worker* (`Start`): the deployment restarts a process that died.
- *Time*: an unacknowledged entry becomes idle (`GoIdle`), a TTL runs out
  (`Expire`, `Expiry`, `Tick`).
- *Strong fairness of `Tick` and `Deadline` in `LoadEngine`*: they are cases of one
  `select`, which picks at random among the ready ones, and the loop makes each
  ready infinitely often.
- *In `Process`*, weak fairness of the main goroutine, and of the end of a worker's
  jobs (every call of a job is bounded). Nothing is assumed of a web request:
  the drain's time limit is what ends the shutdown.

Nothing is assumed of producers, users, faults, shutdowns or interrupts, and
faults are bounded: a system that fails without end promises nothing. In
`ImagePipeline` an upload's steps are fair once it has begun, a deletion's once
the row is loaded; of the idle clocks of several entries, only that some advance
is assumed. `GalleryPage` has no liveness: a user need not do anything.

## 4. Proofs

`tlapm` checks every proof to the last leaf; no proof trusts a fact that is not
proved here or in the standard library.

**`JobQueueProofs`**, for any set of jobs, any number of workers, any finite set of slots,
any attempts, faults, shutdowns and `MaxLen`, from the assumptions named in
`JobQueue`:

- `Invariance`: `Spec => []IInv`. `IInv` is `TypeOK` with
  - `Retention` (what is trimmed is at least `MaxLen` old) and `Accounted`
    (an entry is unread, pending, settled or trimmed): `NoSilentLoss` is not
    inductive on its own, because a claim drops trimmed entries from the pending
    list and the invariant must know how old these are;
  - `GroupExists` (before the group exists nothing is delivered and no worker
    reads), needed for `Start`, which sets the group's position to 0;
  - `Delivered` (pending, settled and handled entries are at or before the
    group's position), so that `ReadNew` delivers entries nobody holds;
  - `FinishedFirst` (a handle call at its ack has finished its entry);
  - `Exclusive` and `SoleHandler` (while calls do not overrun, an idle entry is
    in nobody's hands and a settled one is not pending), which is what lets
    `Claim` hand an entry out again.
- `TypeCorrect`, `JobsAreNotLost`, `AcksFollowOutcomes`, `HandlersAreAlone`: the
  run's invariants, from `IInv`.
- `WorkIsNotAbandoned`: `NothingAbandoned` is inductive together with `IInv`. What a
  fetch takes over it hands to a slot (`DispatchHandles`), and only an ack that
  worked, or a fault, ends the handle call of an entry.
- `Refinement`: `Spec => ImplementsDelivery`. A job is owed while it is unread and
  not trimmed, or pending. `Publish` maps to `Append1`, claims and reads that drop
  trimmed entries to `Expire`, an outcome to `Finish`, `Ack` to `Settle`, everything
  else to a stutter; `IInv` gives the age of what expires and that what is settled
  was finished.

The proof goes action by action. `DispatchEffect` and `DispatchKeeps` say what the
choice of slots in `Dispatch` does, `HandleCallKeeps` what all steps of a handle
call have in common.

**`PipelineProofs`**, for any images and contents, workers, slots, failures and deletions:

- `ThumbnailFits`, for images and boxes of every size. Of a truncated product `k` of
  `n` and `p/q` only `k*q <= n*p <= k*q + q` is used, which holds whichever way the
  product was rounded.
- `QueueRefinement`: `Spec => QP!Spec`, where `QP == INSTANCE JobQueueProofs` has the
  pipeline's variables. Publishing from within an upload, and a handler that
  makes calls to other stores, add nothing to the queue; so its theorems hold in
  the pipeline (`PipelineLosesNoJob` is `NoSilentLoss` there).
- `PipelineInvariance`: `Spec => []PInv`. `RowsPointToObjects` says nothing of calls
  in progress, and is not inductive; every failed call enters it with both
  outcomes. `PInv` adds to the queue's `IInv`: an upload that has no row yet has its object, and nobody deletes it (`Early`); a deletion has
  removed its row before the object (`Gone`); a handle call between its PUT of
  the thumbnail and its UPDATE has the thumbnail it will name in the store, and
  what is there is a rendering that `Thumbnail` allows (`Staged`, `Rendered`).
- `RowsAreBacked` and `ThumbnailsAreFaithful` are the run's invariants.
- `NoRowIsStranded`: that some job of a waiting row is owed is not inductive, because
  the call that holds the job may be about to acknowledge it. `Awaited` asks for a
  job that is owed and that no call is acknowledging, or that is as old as
  trimming needs; a handler's outcome moves the row before it gets to the ack.
- `ReadyImagesAreSkipped`: a call that is past its look at the status, while the row
  is ready, was overtaken by one for another entry of the image (`Overtaken`), so
  the image was published twice.

**`WebProofs`**, for every file, list of tags, table of images and number of requests:

- `LastCheckPasses` (the check that runs when the object is already stored has nothing
  left to reject, so it orphans no object), `HandlerLimitDecides`,
  `HandlerTypesAreAccepted` (the layers below the handler allow what it allows),
  `ParsedTagsAreClean` (no tag is blank and none comes twice).
- `UploadInvariance`: `UploadInv` is `TypeOK` with `Sound(r)` for each request: its place in
  its form and what it has answered so far (`Placed`), what the checks it passed
  have made sure of (`Cleared`), what is stored of the file at hand and that nothing
  is of those to come (`AtHand`), which of its tags are in the table and who else
  can have put them there (`HadTags`), and what became of the files behind it
  (`Outcomes`). A step of one request disturbs another only through the tags
  table, which only grows (`OthersStaySound`).
- `AnswersAreTrue`, `OrphansHaveATag`, `GoodFilesGetIn`, `NoImageWaitsForever` and
  `UploadTypeCorrect` follow. What is assumed of a form is that its parts are files
  and tags: no content is sniffed as `image/jpg`, and only an empty text has no length.
- `ListsAreNewestMatching`: an order of the rows is a bijection onto places, newest
  first (`NewestAreLargest`); the window keeps the first of them (`WindowCuts`); and
  what the queries count is what the filters ask for, when no filter comes twice
  (`CountingIsMatching`). It needs that the handler asks for no less than the limit.
- `TablesAreCovered`: a row's place in the order is the number of rows that are no
  older (`PlaceIsRank`), so a page is an interval of these ranks (`PageShows`); the rest
  is arithmetic of intervals of the page's size and of the limit's.
- `PagesShowTheirFilters`, `ListsAreNewestMatching` and `GalleryTypeCorrect`, from
  `GalleryInvariance`: requests in flight have numbers that nothing on the page has
  (`Numbered`), the one that is the last refresh carries the filters of the page
  (`Latest`), and what is cached or in a request's hands is the newest matching images
  of the rows it was read from (`Right`) and fits the request (`Serves`), whatever
  happens to the rows meanwhile (`Answered`). A list found in the cache fits because
  its key does: names of tags have no comma, so what is joined is the filters
  themselves (`OrdinaryIsJoined`, `KeysTellListsApart`).

**`CacheProofs`**, for any images, lists, readers, writers, writes and failures:
`StaleEntriesAreExplained` and `CacheTypeCorrect`, from `CInv`. `StaleHasACause` is inductive
with one addition: of an image that has no row yet nothing is cached or about to
be (`Unborn`), because `CreateImage` deletes lists and not the image's entry. The step
of a writer deletes what it has promised (`Promised`) or puts it on the list of excuses.

**`SettingsProofs`**, for any users, calls, values and failures:

- `OwnRowsAreFresh`: `OwnRowIsFresh` speaks of what a call is served with. `SInv` says
  where that comes from: a document that is cached or in a call's hands is the row
  of its user or the default one (`Owned`), a user with two calls at once is `mixed`
  (`Alone`), and of any other the entry is fresh or its one call will drop it, and
  what that call is about to cache is fresh (`OnItsWay`).
- `OnlyOwnRowsAreWritten` is the action property, from `Owned`; `SettingsTypeCorrect`.

**`ProcessProofs`**, for every set of environments, number of requests or jobs, and pool:

- `SlotsSuffice`, from `SlotsInv`: the counter of the hook is the number of requests
  that hold a slot.
- `OpenInvariance`, `ExitsAreClean`, `WorkKeepsItsConnections`, from `OpenInv`: where the
  main goroutine is says which of what must be closed is open (`Held`) and which
  clients of Valkey the wiring counts on are (`Dialled`), and work in flight keeps it
  from passing the drain, but for the two exceptions (`Attended`).

**`IncidentProofs`**, for any controls, calls, readers, TTL, stall and failures:

- `StalenessBound`, from `DemoInvariance`: a call fills the entry with what it read no
  longer ago than it has taken, so the age of an entry and the age of what is in
  it differ by one call; a save only makes documents younger (`YoungerStaysInTime`).
- `ScenarioResets`, from `IncidentInvariance`: until the client gives up on a PUT,
  every write in progress is the one it waits for (`WaitsForWrites`); so when its
  reset has been saved nothing else is (`ResetIsLast`).

**`LoadProofs`**, for any number of slots, ring, arrivals, mix of operations, and
limit on the lists:

- `BreakerInvariance` and `BreakerCounts`: the running count is the number of
  failures in the ring, of whatever size. The one step, `CountFollows`, compares the
  sets of failed slots before and after a result.
- `BreakerRefinement`: `BreakerSpec => ImplementsWindow`. The k-th newest result is
  k slots behind `next` (`Back`), which is a bijection onto the used slots; so the
  number of failures in the window is the running count.
- `EngineRefinement`: the load with its client is a behaviour of the engine.
- `EngineInvariance`: `Balance` (every arrival is a request, shed, cut or waiting),
  `FedIsCounted` (the breaker has been fed no more than the summary counts),
  `AlarmsAreEarned`, `LateIsOne`, on top of the breaker's invariant. From it
  `ArrivalsAreCounted`, `LoadStops` and `TripsAreEarned`.
- `OwnImagesAreDeletedOnce`, from `ClientInvariance`: an uploaded image is on the
  list, in the answer that will put it there or in the DELETE that took it from
  there (`ClaimsOf`), and in one of these only.

**Model-checked only.** Every safety property of the runs, invariant or action
property, is proved. What is not is everything under fairness (`EveryJobSettles`,
`ShutdownCompletes`, `ImagesResolve`, the `CacheConverges` of two modules, `OffIsSeen`,
`AppRecovers`, `RunEnds`, `EveryRequestIsAnswered`, `StartsWithoutValkey`,
`ShutdownEnds`): liveness under fairness is out of the prover's reach. The type
invariants of `ImagePipeline`, `Process`, `Incident` and `LoadClient` are not theorems of
their own; the proofs above contain what they need of them.

## 5. What is not modelled

"components" in `PROJECT.json` has the status of every part. Left out are:

- *code without an effect in the running system*: the events of
  `domain/image/events.go` (no publisher is wired), albums and their repository (no
  caller), `UpdateImage` (no route), `image_processor.go` (a stub that returns errors),
  `ImageProcessor.Resize` (no caller), interfaces, `testutils`;
- *telemetry*: spans, metrics, logs and the numbers in the gauges. That the
  provider starts, can fail to start, and goes last is in `Process`;
- *pixels*: whether bytes decode is a constant of the model, what an encoder does
  with an empty picture a definition (`Encodes`);
- *the SDKs* of S3, GCS, Postgres and Valkey: their calls succeed, fail, or lose
  their reply;
- *reading an object out* (`view`, `download`, `thumbnail`), the test-database endpoint,
  templates, styling, upload progress: they change no state;
- *the background image of the settings*: a foreign key that a delete sets to NULL
  behind a cached document. It is a value like others in `Settings`;
- *the load generator's* options, drawing of images, random choice of operations,
  latencies and percentiles.

## 6. Plan

Done: the queue, its abstract specification and proofs; the pipeline on top of it;
the two caches and the settings; the demo controls and the incident; the load
engine, its breaker and its client; uploads with their rules and tags; listing and
the gallery page; configuration, start-up, shutdown and the slow-query slots.

Left, most useful first:

1. *Theorems*: the steps that liveness rests on, without fairness: that a handle call's
   attempts only grow, that a drain only advances, that the age of a cache entry
   falls only when it is filled; and the type invariants that have no theorem.
2. *Composition*: the pipeline with `ImageCache` (its status writes are the cache's
   writers there, by their effect), and `Process` with `JobQueue`, whose `Stop`, `Drained`
   and `Crash` are the worker's life seen from the queue.
3. `Settings` with the background image and ON DELETE SET NULL.
4. `GalleryPage` with two browsers, and the settings dialog and demo panel.
