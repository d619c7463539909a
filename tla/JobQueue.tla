------------------------------ MODULE JobQueue ------------------------------
(***************************************************************************)
(* The job queue of internal/platform/queue: a Valkey stream with one      *)
(* consumer group, read by worker processes that handle up to `Slots'      *)
(* entries at a time.  An entry is named by its position in the stream.    *)
(*                                                                         *)
(* What a handler does with a job is left open here (any result may come   *)
(* back from an attempt); ImagePipeline composes this module with the      *)
(* handler the worker installs.  Time is abstract: `idle' holds the        *)
(* pending entries whose idle time has passed claimIdle.                   *)
(***************************************************************************)
EXTENDS Naturals, Sequences, FiniteSets

CONSTANTS
  Jobs,         \* the payloads a producer may publish
  Malformed,    \* those whose image_id field does not parse
  Workers,      \* the worker processes, one consumer name each
  Slots,        \* the semaphore of Run: one element per concurrent handle call
  MaxAttempts,  \* options.maxAttempts
  MaxLen,       \* options.maxLen, the MAXLEN of every XADD
  MayOverrun,   \* may a handle call outlive claimIdle?
  MaxJobs,      \* bound: entries published
  MaxFaults,    \* bound: crashes, lost replies and failed commands
  MaxStops      \* bound: graceful shutdowns

ASSUME JobsAssumption == Malformed \subseteq Jobs
ASSUME AttemptsAssumption == MaxAttempts \in Nat \ {0}
ASSUME MaxLenAssumption == MaxLen \in Nat \ {0}
ASSUME SlotsAssumption == IsFiniteSet(Slots)
ASSUME OverrunAssumption == MayOverrun \in BOOLEAN
ASSUME BoundsAssumption == MaxJobs \in Nat /\ MaxFaults \in Nat /\ MaxStops \in Nat

VARIABLES
  log,        \* every job ever appended, oldest first
  trimmed,    \* MAXLEN trimming has removed the entries 1..trimmed
  group,      \* does the consumer group exist?
  delivered,  \* the group's last-delivered-id
  pel,        \* the group's pending entries list
  idle,       \* the pending entries idle for at least claimIdle
  loop,       \* per worker: where Run's read loop is
  slot,       \* per worker and slot: the handle call that holds it
  finished,   \* history: entries some handle call brought to an outcome
  settled,    \* history: entries acknowledged
  dead,       \* entries copied to the dead-letter stream
  faults,     \* faults so far
  stops       \* shutdowns so far

queueVars == <<log, trimmed, group, delivered, pel, idle>>
workVars == <<loop, slot>>
historyVars == <<finished, settled, dead>>
budgetVars == <<faults, stops>>
vars == <<queueVars, workVars, historyVars, budgetVars>>

-----------------------------------------------------------------------------
Entries == 1..Len(log)

Steps == {"attempt", "backoff", "deadletter", "hook", "ack"}
Free == [step |-> "free", entry |-> 0, n |-> 0]
HandleCalls ==
  {Free} \cup {c \in [step : Steps, entry : Nat \ {0}, n : 1..MaxAttempts] :
                c.step = "backoff" => c.n < MaxAttempts}

Busy(w, s) == slot[w][s].step # "free"
FreeSlots(w) == {s \in Slots : ~Busy(w, s)}
Handling(e) == \E w \in Workers, s \in Slots : Busy(w, s) /\ slot[w][s].entry = e

Oldest(k, S) == {e \in S : Cardinality({x \in S : x < e}) < k}

\* Where handle starts: a job that does not parse is dead-lettered unattempted.
Opened(e) ==
  [step |-> IF log[e] \in Malformed THEN "deadletter" ELSE "attempt",
   entry |-> e, n |-> 1]

Fault == faults < MaxFaults /\ faults' = faults + 1 /\ UNCHANGED stops

Init ==
  /\ log = <<>> /\ trimmed = 0
  /\ group = FALSE /\ delivered = 0 /\ pel = {} /\ idle = {}
  /\ loop = [w \in Workers |-> "down"]
  /\ slot = [w \in Workers |-> [s \in Slots |-> Free]]
  /\ finished = {} /\ settled = {} /\ dead = {}
  /\ faults = 0 /\ stops = 0

-----------------------------------------------------------------------------
\* Publish: XADD with an approximate MAXLEN, which trims whole macro nodes:
\* some of the entries older than the MaxLen newest, acknowledged or not.
Publish(j) ==
  /\ Len(log) < MaxJobs
  /\ log' = Append(log, j)
  /\ \E t \in trimmed..Len(log') :
       /\ t = trimmed \/ Len(log') - t >= MaxLen
       /\ trimmed' = t
  /\ UNCHANGED <<group, delivered, pel, idle, workVars, historyVars, budgetVars>>

\* Mutated form: a missing group is created at the end of the stream.
StartAtEnd(w) ==
  /\ loop[w] = "down"
  /\ loop' = [loop EXCEPT ![w] = "claim"]
  /\ group' = TRUE
  /\ delivered' = IF group THEN delivered ELSE Len(log)
  /\ UNCHANGED <<log, trimmed, pel, idle, slot, historyVars, budgetVars>>

\* EnsureGroup: a missing group is created at ID 0, before every entry.
Start(w) ==
  /\ loop[w] = "down"
  /\ loop' = [loop EXCEPT ![w] = "claim"]
  /\ group' = TRUE
  /\ delivered' = IF group THEN delivered ELSE 0
  /\ UNCHANGED <<log, trimmed, pel, idle, slot, historyVars, budgetVars>>

\* Run hands the fetched entries S to goroutines, one free slot each.
Dispatch(w, S) ==
  \E f \in [S -> FreeSlots(w)] :
    /\ \A a, b \in S : f[a] = f[b] => a = b
    /\ slot' = [slot EXCEPT ![w] =
                  [s \in Slots |-> IF \E e \in S : f[e] = s
                                   THEN Opened(CHOOSE e \in S : f[e] = s)
                                   ELSE slot[w][s]]]

\* Mutated form: a claim does not restart the idle clock.
AutoClaimKeepsIdle(gone, claimed) ==
  /\ pel' = pel \ gone
  /\ idle' = idle \ gone
  /\ UNCHANGED <<log, trimmed, group, delivered>>

\* The effect of XAUTOCLAIM COUNT k: pending entries the stream has trimmed
\* leave the pending list, the oldest idle ones are given a fresh idle clock.
\* The entries `gone' and `claimed' count against k together.
AutoClaim(gone, claimed) ==
  /\ pel' = pel \ gone
  /\ idle' = idle \ (gone \cup claimed)
  /\ UNCHANGED <<log, trimmed, group, delivered>>

\* Mutated form: fetch never reclaims.
NoClaimReply(k) == [gone |-> {}, claimed |-> {}]

\* XAUTOCLAIM looks at ten pending entries for each one it may claim; the instances
\* have fewer, so that limit of its scan is left out.
ClaimReply(k) ==
  LET gone == Oldest(k, pel \cap 1..trimmed)
      claimed == Oldest(k - Cardinality(gone), idle \ 1..trimmed)
  IN  [gone |-> gone, claimed |-> claimed]

\* Run's count is the number of free slots when the loop turned; handle calls
\* that end while the command blocks make it smaller than the current number.
Counts(w) == 1..Cardinality(FreeSlots(w))

\* First half of fetch: only a claim that found nothing goes on to the read.
Claim(w) ==
  /\ loop[w] = "claim"
  /\ \E k \in Counts(w) :
       LET r == ClaimReply(k) IN
       /\ AutoClaim(r.gone, r.claimed)
       /\ Dispatch(w, r.claimed)
       /\ loop' = [loop EXCEPT ![w] = IF r.claimed = {} THEN "read" ELSE "claim"]
  /\ UNCHANGED <<historyVars, budgetVars>>

\* The command ran but its reply never arrived: fetch returns the error and
\* the loop starts over.
ClaimReplyLost(w) ==
  /\ loop[w] = "claim"
  /\ Fault
  /\ \E k \in Counts(w) : AutoClaim(ClaimReply(k).gone, ClaimReply(k).claimed)
  /\ UNCHANGED <<workVars, historyVars>>

\* The effect of XREADGROUP ">" COUNT k: the next k entries still in the stream
\* become pending, unless Block passes with none to read.
LastUnreadable == IF trimmed > delivered THEN trimmed ELSE delivered
LastRead(k) ==
  IF LastUnreadable + k <= Len(log) THEN LastUnreadable + k ELSE Len(log)
NewEntries(k) == (LastUnreadable + 1)..LastRead(k)

\* Mutated form: XREADGROUP with NOACK.
ReadGroupNoAck(k) ==
  /\ delivered' = LastRead(k)
  /\ UNCHANGED <<log, trimmed, group, pel, idle>>

ReadGroup(k) ==
  /\ delivered' = LastRead(k)
  /\ pel' = pel \cup NewEntries(k)
  /\ UNCHANGED <<log, trimmed, group, idle>>

\* Second half of fetch.
ReadNew(w) ==
  /\ loop[w] = "read"
  /\ \E k \in Counts(w) :
       /\ ReadGroup(k)
       /\ Dispatch(w, NewEntries(k))
  /\ loop' = [loop EXCEPT ![w] = "claim"]
  /\ UNCHANGED <<historyVars, budgetVars>>

ReadReplyLost(w) ==
  /\ loop[w] = "read"
  /\ Fault
  /\ \E k \in Counts(w) : ReadGroup(k)
  /\ loop' = [loop EXCEPT ![w] = "claim"]
  /\ UNCHANGED <<slot, historyVars>>

\* claimIdle has passed since the entry was last delivered.
GoIdle(e) ==
  /\ e \in pel \ idle
  /\ MayOverrun \/ ~Handling(e)
  /\ idle' = idle \cup {e}
  /\ UNCHANGED <<log, trimmed, group, delivered, pel, workVars, historyVars, budgetVars>>

-----------------------------------------------------------------------------
At(w, s, step) == slot[w][s].step = step

Goto(w, s, step) == slot' = [slot EXCEPT ![w][s].step = step]

\* Mutated form: a permanent failure is dropped.
AfterAttemptDropsPermanent(n, result) ==
  CASE result \in {"ok", "skip", "permanent"} -> "ack"
    [] result = "transient" -> IF n = MaxAttempts THEN "deadletter" ELSE "backoff"

\* The switch in attempts: what follows the n-th attempt.  "ok" is a nil error,
\* "skip" is ErrSkip; a panic in the handler has become a transient error.
AfterAttempt(n, result) ==
  CASE result \in {"ok", "skip"} -> "ack"
    [] result = "permanent" -> "deadletter"
    [] result = "transient" -> IF n = MaxAttempts THEN "deadletter" ELSE "backoff"

AttemptEnds(w, s, result) ==
  /\ At(w, s, "attempt")
  /\ Goto(w, s, AfterAttempt(slot[w][s].n, result))
  /\ finished' = IF result \in {"ok", "skip"}
                 THEN finished \cup {slot[w][s].entry} ELSE finished
  /\ UNCHANGED <<queueVars, loop, settled, dead, budgetVars>>

\* Mutated form: the attempt counter is not advanced.
BackoffForgetsCount(w, s) ==
  /\ At(w, s, "backoff")
  /\ Goto(w, s, "attempt")
  /\ UNCHANGED <<queueVars, loop, historyVars, budgetVars>>

BackoffEnds(w, s) ==
  /\ At(w, s, "backoff")
  /\ slot' = [slot EXCEPT ![w][s].step = "attempt", ![w][s].n = @ + 1]
  /\ UNCHANGED <<queueVars, loop, historyVars, budgetVars>>

\* deadLetter copies the entry; a failed XADD is recorded on the span only.
DeadLetter(w, s) ==
  /\ At(w, s, "deadletter")
  /\ Goto(w, s, "hook")
  /\ \/ dead' = dead \cup {slot[w][s].entry} /\ UNCHANGED budgetVars
     \/ Fault /\ UNCHANGED dead
  /\ UNCHANGED <<queueVars, loop, finished, settled>>

\* The hook returned, or ran into deadLetterHookTimeout and was abandoned.
HookEnds(w, s) ==
  /\ At(w, s, "hook")
  /\ Goto(w, s, "ack")
  /\ finished' = finished \cup {slot[w][s].entry}
  /\ UNCHANGED <<queueVars, loop, settled, dead, budgetVars>>

\* XACK ends the handle call; its error is recorded on the span only.
Ack(w, s) ==
  /\ At(w, s, "ack")
  /\ pel' = pel \ {slot[w][s].entry}
  /\ idle' = idle \ {slot[w][s].entry}
  /\ settled' = settled \cup {slot[w][s].entry}
  /\ slot' = [slot EXCEPT ![w][s] = Free]
  /\ UNCHANGED <<log, trimmed, group, delivered, loop, finished, dead, budgetVars>>

AckFails(w, s) ==
  /\ At(w, s, "ack")
  /\ Fault
  /\ slot' = [slot EXCEPT ![w][s] = Free]
  /\ UNCHANGED <<queueVars, loop, historyVars>>

-----------------------------------------------------------------------------
\* The context of Run is canceled: it stops reading and waits for its slots.
Stop(w) ==
  /\ loop[w] \in {"claim", "read"}
  /\ stops < MaxStops
  /\ stops' = stops + 1
  /\ loop' = [loop EXCEPT ![w] = "draining"]
  /\ UNCHANGED <<queueVars, slot, historyVars, faults>>

\* Mutated form: Run returns without waiting, and the process exits.
DrainedAtOnce(w) ==
  /\ loop[w] = "draining"
  /\ loop' = [loop EXCEPT ![w] = "down"]
  /\ slot' = [slot EXCEPT ![w] = [s \in Slots |-> Free]]
  /\ UNCHANGED <<queueVars, historyVars, budgetVars>>

Drained(w) ==
  /\ loop[w] = "draining"
  /\ FreeSlots(w) = Slots
  /\ loop' = [loop EXCEPT ![w] = "down"]
  /\ UNCHANGED <<queueVars, slot, historyVars, budgetVars>>

\* The process dies with everything on its stacks, attempt counters included.
Crash(w) ==
  /\ loop[w] # "down"
  /\ Fault
  /\ loop' = [loop EXCEPT ![w] = "down"]
  /\ slot' = [slot EXCEPT ![w] = [s \in Slots |-> Free]]
  /\ UNCHANGED <<queueVars, historyVars>>

-----------------------------------------------------------------------------
Results == {"ok", "skip", "transient", "permanent"}

HandleStep(w, s) ==
  \/ \E result \in Results : AttemptEnds(w, s, result)
  \/ BackoffEnds(w, s)
  \/ DeadLetter(w, s)
  \/ HookEnds(w, s)
  \/ Ack(w, s)
  \/ AckFails(w, s)

Fetch(w) == Claim(w) \/ ReadNew(w)

WorkerStep(w) ==
  \/ Start(w) \/ Stop(w) \/ Drained(w) \/ Crash(w)
  \/ Fetch(w) \/ ClaimReplyLost(w) \/ ReadReplyLost(w)
  \/ \E s \in Slots : HandleStep(w, s)

Next ==
  \/ \E j \in Jobs : Publish(j)
  \/ \E w \in Workers : WorkerStep(w)
  \/ \E e \in Entries : GoIdle(e)

Spec == Init /\ [][Next]_vars

(***************************************************************************)
(* Fairness: a worker process that is down is restarted, a running one     *)
(* keeps turning its read loop and its handle calls return, clocks         *)
(* advance.  No fairness on faults, on shutdowns or on producers.          *)
(***************************************************************************)
Fairness ==
  /\ \A w \in Workers :
       /\ WF_vars(Start(w)) /\ WF_vars(Drained(w)) /\ WF_vars(Fetch(w))
       /\ \A s \in Slots : WF_vars(HandleStep(w, s))
  /\ \A e \in 1..MaxJobs : WF_vars(GoIdle(e))

FairSpec == Spec /\ Fairness

-----------------------------------------------------------------------------
TypeOK ==
  /\ log \in Seq(Jobs)
  /\ trimmed \in 0..Len(log) /\ group \in BOOLEAN /\ delivered \in 0..Len(log)
  /\ pel \subseteq Entries /\ idle \subseteq pel
  /\ loop \in [Workers -> {"down", "claim", "read", "draining"}]
  /\ slot \in [Workers -> [Slots -> HandleCalls]]
  /\ finished \subseteq Entries /\ settled \subseteq Entries /\ dead \subseteq Entries
  /\ faults \in 0..MaxFaults /\ stops \in 0..MaxStops

(***************************************************************************)
(* No job disappears: an entry is still to be read, pending, acknowledged, *)
(* or so old that at least MaxLen younger ones were published.  The XADD   *)
(* of Publish, the two halves of fetch, crashes, lost replies and the ack  *)
(* all take part.                                                          *)
(***************************************************************************)
NoSilentLoss ==
  \A e \in Entries :
    e > delivered \/ e \in pel \/ e \in settled \/ Len(log) - e >= MaxLen

(***************************************************************************)
(* handle acknowledges last: an acknowledged entry was brought to an       *)
(* outcome (success, skip, or dead letter with its hook run) by some       *)
(* handle call, whatever crashed and was redelivered in between.           *)
(***************************************************************************)
AckedIsFinished == settled \subseteq finished

(***************************************************************************)
(* As long as handle calls stay below claimIdle, no two of them, on the    *)
(* same worker or on two, hold the same entry, and none holds an entry     *)
(* already acknowledged.                                                   *)
(***************************************************************************)
SoleHandler ==
  ~MayOverrun =>
    \A v, w \in Workers, s, t \in Slots :
      Busy(v, s) =>
        /\ slot[v][s].entry \notin settled
        /\ (Busy(w, t) /\ slot[v][s].entry = slot[w][t].entry) => (v = w /\ s = t)

(***************************************************************************)
(* Shutdown "stops reading, it does not abandon work" (Run): as long as    *)
(* nothing crashed and no command failed, every pending entry is in the    *)
(* hands of a live handle call.                                            *)
(***************************************************************************)
NothingAbandoned == faults = 0 => \A e \in pel : Handling(e)

\* Every published job is eventually acknowledged, unless trimming took it.
EveryJobSettles ==
  \A e \in 1..MaxJobs : (e <= Len(log)) ~> (e \in settled \/ Len(log) - e >= MaxLen)

\* Run returns after its context is canceled, dead-letter hooks or not.
ShutdownCompletes == \A w \in Workers : loop[w] = "draining" ~> loop[w] = "down"

\* The queue implements at-least-once delivery with bounded retention.
Owed == {e \in Entries : (e > delivered /\ e > trimmed) \/ e \in pel}
Delivery == INSTANCE JobDelivery WITH owed <- Owed
ImplementsDelivery == Delivery!Spec

=============================================================================
