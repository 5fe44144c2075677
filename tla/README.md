# AIRush: a verification development

TLA+ models of the concurrent and failure-prone parts of AIRush, TLC
configurations that check them on small instances, and TLAPS proofs that hold
for every value of the constants. Paths below are relative to the repository.

## 1. Inventory

AIRush is a multi-tenant platform for operating databases with LLM agents. Five
Go services share a PostgreSQL database and a set of libraries.

| Part | State | Operations | Talks to |
|---|---|---|---|
| **agent-runtime: turn engine** (`agent-runtime/internal/runtime`) | `Engine.live` (one `liveThread` per thread run here), draining flag, one pump and one heartbeat goroutine per live thread | SubmitTurn, Interrupt, ResumeThread, Dispatch, Drain, Recover, Maintain | PostgreSQL, codexgo core, scheduler |
| **agent-runtime: store** (`internal/pgstore`) | `agent_threads` (status, running_pod, heartbeat_at, last_seq), `agent_thread_queue`, `agent_rollout_events` | ClaimTurn, Heartbeat, ReleaseTurn, MarkIdle, MarkStale…, EnqueueInput, PendingInputs, AdmitInput, appendEvents, loadEvents, listings, forks | PostgreSQL with row-level security |
| **agent-runtime: scheduler** (`internal/scheduler`) | per-tenant counters of one pod | TryAcquire, Release, Sweep | engine, store |
| **agent-runtime: event stream** (`runtime/events.go`, `api/sse.go`) | subscriptions, one channel and one tail per connection | Subscribe, Notify, Events, tail, forward, SSE handler | store, HTTP clients |
| **agent-runtime: approvals** (`internal/approvals`, `runtime/mcp.go`) | tool catalogue | Review, recordApproval | MCP servers, store |
| **gateway** (`gateway/internal/accept`) | registry of connector sessions, pending commands and their waiters, two timers per session | Session, Dispatch, DrainAll, Enroll, DataUpload forwarding | connectors (gRPC), console (HTTP) |
| **connector** | four identity files, reconnect backoff | enroll, session client, probes | gateway, customer databases |
| **libs/metrics** | none; a chain of sources per kind of snapshot | Probe.Collect, SnapshotProbe.Collect | customer databases |
| **console: collector** | collection loops by datasource and kind, backoff per loop | reconcile, loop | gateway, direct connections, store |
| **console: direct connections** | pools by datasource | poolFor, Destroy, ReapIdle | customer databases |
| **console: collected data** (`tsstore`) | snapshot versions, entities, series | PublishSnapshot, Publish, queries | PostgreSQL |
| **console: connectors, enrollment** | connector status, token, certificate fingerprint | CompleteEnrollment, Handshake, UpdateStatus, Revoke | gateway |
| **console: resources** | datasources, credentials, groups, agents, aliases, idempotency keys | CRUD, idempotent create, keyset listing | REST clients |
| **console: LLM quota** + **libs/llm** | budget, usage records by idempotency key | quota-check, usage, Meter.RoundTrip, Record | LiteLLM |
| **other libs** | none worth modelling | config, observability, error codes | all |

External: the codexgo core (sessions, turns, event queue), PostgreSQL, gRPC,
LiteLLM. They are modelled from how the code uses them and marked external.

How the parts interact: a client's request enters any pod of agent-runtime over
HTTP; everything durable is in PostgreSQL, so that two pods only ever meet in
rows of `agent_threads` and `agent_thread_queue`. Within a pod the engine's
goroutines share `Engine.live`, the limiter and the notifier. The console drives
collection through the gateway, which forwards commands to the connector's
stream and uploads back to the console.

### What is hard, and what correctness means

*Turn engine and store.* HTTP handlers, the sweeper and the pump of the live
session all run `feed` on one queue without a lock. Holding a thread is a row in
`agent_threads` plus goroutines that believe they hold it; a pod may crash, be
slow, drain, or meet an error between any two statements. Correct means: one
holder per thread, claims are taken from nobody who is alive, slots are counted,
no input is lost, inputs arrive in order, every input is eventually delivered,
draining ends and leaves nothing behind.

*Event stream.* Appends of several pods, paging readers, wake-ups and polls,
reconnects. Correct means: a dense log, a seamless stream, no lost wake-up, and
eventual delivery.

*Gateway and connector.* Superseding sessions, deferred status reports, timers,
buffered commands, files written one by one. Correct means: the registry names a
session that is served, the reported status is that of the current session, a
command reported as done is done, one machine speaks for a connector.

*Console.* Concurrent uploads of one snapshot kind, reconciliation after errors,
pools and their builders, single-use tokens, retried creations, quota accounting:
mostly READ COMMITTED transactions that read first and write later. Correct
means: what was decided on a stale read is caught by a constraint, a lock or a
second test, and what a client was told holds.

*Probes.* Several queries against a database that others change or stop. Correct
means: a failure is not reported as an absence, and rows go to their own table.

Every hazard found is listed with its line and the properties that would catch
it in `PROJECT.json` under `hazards`.

## 2. Modules

| Module | Models |
|---|---|
| `ThreadLifecycle` | the life of agent threads over several pods: claim, feed, pump, release, interrupt, resume, delete, limiter, sweeper, heartbeat, recovery, drain, crash, restart |
| `MCThreadLifecycle` | small instances of it |
| `ThreadLifecycleProofs` | type correctness, exclusive claims, slots, open sessions, inputs and their order, for every instance |
| `EventLog` | abstract specification: one log, contiguous views |
| `RolloutEvents` | the event stream of one thread: append transactions, notifier, tails, SSE connections; implements `EventLog` |
| `MCRolloutEvents` | small instances of it |
| `RolloutEventsProofs` | the dense log, the seamless stream, wake-ups and the refinement of `EventLog` for every instance |
| `GatewaySession` | the sessions of one connector: client loop, gateway handler, registry, collect endpoint, status row |
| `MCGatewaySession` | small instances of it |
| `GatewaySessionProofs` | the registry, pending commands and answers for every instance |
| `ConnectorIdentity` | how a connector gets and loses its identity: token, certificate, files, handshake, revocation |
| `ConnectorIdentityProofs` | one machine per connector, a usable identity, final revocation, and sound collections of `Probe`, for every instance |
| `ConsoleResources` | REST resources: idempotent creation, references between rows, deletion, keyset listing |
| `ConsoleResourcesProofs` | idempotency keys, secrets and references for every instance |
| `CollectedData` | snapshot versions, slow queries and readings, choice of the layer for a query |
| `CollectedDataProofs` | the chain of versions, the dictionary of queries, layers for every instance |
| `LlmMeter` | quota check, call, usage record, retries, crash |
| `Collector` | reconciliation, collection loops, direct pools, connection test |
| `ThreadStore` | thread metadata, archiving, deletion, pages of threads, items and turns |
| `MeterCollectorStoreProofs` | single charges, bounded overshoot, accounted loops and pools, final deletion, seamless walks: the three modules above for every instance |
| `Probe` | snapshots and metric batches of a database that changes between two queries |
| `MCComponents` | small instances of the last seven components |
| `ComponentsProofs` | the theorems about them, carried over to `MCComponents` |

### ThreadLifecycle

State: `thr` is the row (`status`, `running_pod`, the heartbeat's age as none /
fresh / stale, and whether `last_seq` is 0); `queue` the unadmitted rows in
insertion order; `pod` the process with its drain; `live` is `Engine.live`;
`slots` the limiter; `sess` the `liveThread` objects with what the core keeps
for them (`turn`, pending interrupt, event queue, death); `call` where each
goroutine that entered from outside is in SubmitTurn / dispatch; `feed` where
each feeder is in `feed`. `sent`, `delivered` are history; `admitted` is the
`admitted_turn_id` column.

Actions follow the code's statements: one per database call or critical section.
`BeginSubmit`, `Enqueue`, `Dispatch`, `Claim`, `StartLive`, `FeedRead`,
`FeedSubmit`, `FeedAdmit`, `FeedDone` are one SubmitTurn; `PumpEvent`,
`FeedRead` … `EndFeed`, `ReleaseRow`, `ReleaseSlot`, `ShutdownSession` are one
turn of the pump; `DrainStart`, `DrainInterrupt`, `DrainForce`, `DrainNext`,
`Exit` are one Drain. The core is external: a session accepts or refuses an
input, ends a turn, aborts it on an interrupt, or dies.

Abstractions, each with its reason:

- A read and the write that follows it in the same handler are one step where
  the write's WHERE clause repeats the test: `GetThreadInfo` and `MarkIdle` in
  `BeginResume`; listing and `GetThreadInfo` in `BeginSweep`; `ClaimTurn` and
  the pod-local `TryAcquire` in `Claim` (the losing order is the same two
  outcomes). `Interrupt`'s read and enqueue are one step.
- Queue order is commit order; in the code it is `created_at, id`, the same up
  to transactions that overlap.
- A recovery scan visits all tenants in one step; each tenant is one transaction.
- Archiving is reached by no route of the service and is left out.
- `Exit` waits for HTTP handlers without `Shutdown`'s ten-second limit; a
  process that ends earlier is a `Crash`. Drain's context ends after its
  deadline, so the `ctx.Done` branch is unreachable.
- A pod restarts under its old name (a StatefulSet-like `POD_NAME`), the harder case.
- A claim whose commit succeeds although an error is returned is not modelled;
  its row looks like the one a failed `Unclaim` leaves.
- An input may be delivered again after a failed `AdmitInput`: at least once.

### RolloutEvents

State: `rows` is a *set* of rows, because the table's key also holds
`created_at` and does not keep a sequence number unique; `last` is `last_seq`;
`lock` the row lock `SELECT … FOR UPDATE` takes; `tx` where each writer is;
`conn` a connection's tail, page, channel and wake-up flag; `got` what each
client received over all its connections. Readers run at READ COMMITTED: a page
is one statement's snapshot. What lies in the channel when a connection breaks
is lost; the client comes back with the last id it saw, on any pod.

`EventLog` states what this must amount to: blocks appended to a log, and
readers that see the next event and nothing else. `ImplementsEventLog` maps the
log to the writers of the rows by number and the view to `got`.

### GatewaySession

One connector and its reconnections; sessions of different connectors share
nothing. State: `client` is the connector's `runOnce`; `link`, `up`, `down` are
a bidi stream and its frames in flight; `sess` is the gateway's handler with its
session object (`cmds` buffer, `pending` waiters, drain signal, degrade timer);
`registry` the entry of the connector; `row` the console's status and `late`
reports whose sender gave up waiting; `caller` the requests in `Dispatch`;
`stored` what the console has.

`Handshake`, `Register`, `Announce`, the `Loop…` actions, `DeferredOffline` and
`DeferredRemove` are `SessionServer.Session` from top to bottom, one action per
case of its `select`. `DispatchGet/Send/Answered/Timeout` are `Dispatch`.
`OpenStream` … `ConnectorStops` are the connector. A stream that ends silently
leaves the gateway believing in it until its timers end it.

Abstractions: `stream.Send` and the console call of a report are one step with
the case of the `select` they belong to (the handler does nothing in between). A
handler that has returned and its receive goroutine end together. In the code the
goroutine that has just received a frame then stays blocked for ever on the
unbuffered channel (`session.go:155`): the end of the stream wakes `Recv` only.
`SupersededEnds` is about the handler and does not see it. One unread
heartbeat stands for all. Durations are left out: a timer may fire when it is
armed (`Timed`). Of an upload only the outcome counts: stored or not, told or not.

### ConnectorIdentity

State: `conn` is the row (status, whether the token is live and expired, the
fingerprint), `run` each execution of `connector --enroll`, `disk` the four files
of each machine, `admitted` the machines with a session. A run's key, CSR and
certificate are one value. `Truncate` and `Fill` are `os.WriteFile`; a run that
stops between them leaves a torn file, and nothing cleans up. Two runs with one
token may pass `GetEnrollmentRecord` together and share a disk.

### ConsoleResources

Every request is one READ COMMITTED transaction: it starts, reads (the
idempotency record, the bindings, the count of members) and later writes and
commits in one step, where the unique and foreign keys of migration 0002 decide.
A row is named by the request that made it. A datasource may be bound to a group and
an agent when it is created and by a patch later (`Bindings`); in both cases the
owner existed when the client asked, and the foreign key (`Owner`) tests it again
at the commit. `walk` is a client that follows the
cursors of `ListDatasources`. The hash of an idempotent request covers its body
(`Body`: name, mode and bindings)
and not its path: a key used again for an alias of another datasource is
answered with the first alias, which is how the code behaves. Left out:
renaming a group, patching an agent, the listings of groups and agents.

### CollectedData

`home` says who may upload for the datasource: the connector it was created for,
or somebody else; no patch changes that, only the deletion ends it.
`versions` is the chain of snapshots of one kind of one datasource, `entity` and
`readings` the slow queries and their samples, `lock` the row locks of the
upserts. `ReadCurrent` finds the current version; `Touch`, `Supersede` and
`InsertFirst` are what PostgreSQL does once the lock of `FOR UPDATE` is granted:
the row is tested again, and a version superseded meanwhile is no row at all.
The insert then meets the unique index on the current version: the second of two
overlapping uploads fails and the next collection repeats it. Transactions of
slow queries that lock in different orders may wait for each other; PostgreSQL
then fails one (`Fail`). `SeriesRange` chooses the layer by the window's start.

### LlmMeter

`call` is one `RoundTrip` with its record, `msgs` the usage records on their way,
`answered` their answers, `rows` the usage table. A request that timed out may
still arrive; its answer may be lost; a process may crash with its calls.
`open` and `peak` are history: whether a call went out unchecked (fail-open, no
row, soft limit), and how many were under way at once.

### Collector

`pass` is one reconciliation (pages read one after another, a failing page cuts
the list and the loops of the rest are stopped), `loops` the table, `loop` the
goroutines, `pools` and `pool` the direct connections, `use` each call of
`poolFor`. `Reconcile` and `RegisterPool` are the two critical sections. The
loops of one datasource's kinds start and stop together and never meet, so one
is modelled. A datasource keeps the channel it was created with (`home`): a patch
names neither mode nor connector. `ReapIdle` has no caller in the services and is
left out. `Accounted` says that every open pool can still be found and closed, not
that it is: `DeletedPoolsAreClosed`, which the documents promise, does not hold.

### ThreadStore

`row` is the metadata side of `agent_threads`, `tx` transactions between their
read and their write, `walk` a client that pages. A page is one statement;
between two pages events are appended and threads move. Merging a metadata patch
reads without a lock, so that of two patches one is lost; the update is undone
when the thread was deleted meanwhile, because the same transaction reads the
row again. Left out: the spawn graph, forks, `LoadHistory`.

### Probe

`db` is the customer's database, `job` the collection under way, `out` what it
came to. Each test of a source and each query is a step, and `Change` may alter
one property of the database between any two. The chain of sources, the fill of
a schema from three queries, the truncation to `TopN` rows and `MaxBytes`, and
the metric batch with its missing entries follow `libs/metrics`; a statement is
represented by the length of its text, a table by schema, name and width, a setting
by its size. Settings are cut by their query alone (`ConfigRows`, 5000 in the code),
not at `TopN`. A batch that cannot be serialised fails on the connector
(`UploadFails`). What a
query answers is a set of sequences, those of its rows in the order of its
`ORDER BY`; rows differ in what they are sorted by, so that it has one member.

### MCComponents

The seven components share no table. `MCComponents` holds one instance of each
(or more, where the questions differ) and follows one of them per behaviour,
`focus`: the state space is the sum of theirs, and one run checks them all. Since
only one is followed, the instances share the variables `v1` to `v9`, under the
names that each gives them in its `WITH`.

## 3. Runs

Bounds are chosen as the smallest ones under which two actors can meet in
every hazard listed: two pods for claims, two callers and one pump for feeding,
two sessions so that a newer one can overlap an older one, one slot so that the
limiter refuses, one or two inputs. Deletion is exercised in `drain`; that claims
survive it is proved for every instance. `drain` has no resumes because `Exit` waits
for the handlers, and clients that never stop calling would keep it waiting; in the
code `http.Server.Shutdown` refuses new requests and gives up after ten seconds.

| Run | Question | Bounds | Result |
|---|---|---|---|
| `claims` | claims, row ownership, reachability, durability over two pods | 2 pods, 1 thread, 1 input, 2 callers, 2 sessions, 1 stop, resumes, no limit on turns; timely heartbeats | holds |
| `contention` | slot accounting and first deliveries in order | 1 pod, 2 threads of 1 tenant, limit 1, 2 inputs and 1 interrupt for one thread, resumes of both, 2 callers | holds |
| `faults` | slots and inputs under failing calls (claims: section 4) | 1 pod, 2 inputs (one refused by the core), failing store, failing core, 1 stop | holds |
| `progress` | every input is delivered | 2 inputs for 1 thread, 2 callers, room for 1 event, no stops, fair | holds |
| `drain` | draining ends | the core never ends a turn by itself, the thread may be deleted, 1 stop, no resumes | holds |
| `stream` | log, stream, wake-ups, refinement; a connected reader receives everything | 2 writers on 2 pods, 4 events in blocks of 1 or 2, pages of 2, channel of 1, 2 connections, failures and crashes, fair | holds |
| `dispatch` | the registry, the answers and the waiters of commands | 2 streams (used again), 2 commands, buffer of 1, 1 gateway crash, revocation | holds |
| `sessions` | superseded sessions end; the status row follows the connector | 2 streams, heartbeats and both timers, 1 report that fails or lands late, fair | holds |
| `components` | the seven components, see below | per component | holds |
| `revoked` | revoking drains an open session | 2 streams, fair | **violated** |
| `leak` | live sessions end | 1 pod, 1 input, 2 callers, no stops, fair | **violated** |
| `turn_pages` | following the cursors of `ListTurns` lists a turn once | 1 thread, 2 turns, 3 events, pages of 1 | **violated** |

Deadlock is not checked: when clients have nothing more to ask, the system rests.
Symmetry is used for pods, callers, sessions and commands in runs without
liveness. `MaxStops`, `MaxSeq`, `MaxBlock`, `MaxConnects`, `MaxConsoleFaults` and
`MaxCrashes` are the only bounds on behaviour; one crash or drain is enough to
meet every state of the others, two connections are one reconnect, four events
are two full pages. Two streams are enough for a session and the one that
replaces it, and since an ended one is used again the connector reconnects
without limit.

What `components` checks, by focus:

| Focus | Instance | Properties |
|---|---|---|
| `id` | 2 enrollments with one token, 2 machines, crashes between any two writes | `OneMachinePerConnector`, `EnrollOkIsUsable`, `EndedIsFinal` |
| `res` | 3 old rows, 3 requests of 8 kinds under one key, creations bound to any owners that exist | `OneCreationPerKey`, `CredentialsOwned`, `NoDanglingRefs` |
| `list` | a client pages by 1 while datasources come and go | `PagesAreSeamless`, `CredentialsOwned` |
| `data` | 3 collections, 2 contents, 2 slow queries in either order | `HistoryAlternates`, `OkMeansCurrent`, `EntitiesCoverReadings` |
| `range` | every start, width and number of points next to a boundary | `LayerStillHolds` |
| `meter` | 2 calls of 1 token race for a budget of 1, 2 processes | `OvershootBounded`, `ChargedOnce` |
| `retry` | 1 call, 2 repetitions of its record | `ChargedOnce` |
| `coll` | 1 datasource, 2 loops, 1 tester, 2 pools, pages of 1, 1 rotation | `Accounted` |
| `races` | 2 threads, 2 transactions, a metadata patch | `EndedIsFinal` |
| `lists`, `items` | pages of 1 over 2 threads that move; over the items of 3 growing events | `PagesAreSeamless` |
| `probe` | 3 tables (2 of one name), 2 schemas, `TopN` of 2, 5 settings cut to 4, snapshots of at most 4 (the two schemas that list tables have 6, the settings 5: both are cut), 2 changes of the database | `CollectionIsSound` |

A collector with one datasource still pages (a full page is followed by another),
and two loops let the new one overlap the cancelled one.

### Where code and documents disagree

The three violated properties are claims of the repository's own documents,
comments and tests, quoted in `PROJECT.json` under `findings`. They need no
failure: a revoked connector keeps an open session, a dispatch that finds the
queue empty leaks its session, and `ListTurns` repeats the last turn of a page.

`ThreadLifecycle` states four more that its code does not keep. They are not
among the runs; each is shown by a configuration like that of `leak` with the
changes named here:

- `ClaimIsExclusive` ("一个线程同一时刻只被一个 pod 持有") fails once a slow holder misses
  its heartbeats: 2 pods, `HeartbeatsTimely = FALSE`, `Spec`.
- `NoTurnCutShort`: a session released as idle has a turn left when an input is
  fed between the end of the last turn and the release: 2 inputs, 2 callers, `Spec`.
- `HistoryIsResumed`: `last_seq` read before the claim decides between a new and a
  resumed session: 2 inputs, 2 callers, `Spec`.
- `DrainLeavesNoClaim`: `Draining()` is tested before the claim, so a session can
  start behind Drain's snapshot: 1 stop, `Spec`. Recovery repairs it later.

`Collector` states one: `DeletedPoolsAreClosed`. Nothing calls `Destroy` on a deletion,
and nothing calls `ReapIdle`, although `directconn.go:126` and
`spec-1.17-direct-connect.md:76` and `:123` say that the pool is destroyed. `Collector`
alone shows it: `FairSpec`, 1 direct datasource, no connector, 2 loops, 1 tester,
2 pools, pages of 1, no rotation, backoffs as in `components`. The datasource is
tested and deleted, then reconciliation goes round and the pool stays open. A rotated
credential leaves the open pool in the same way (`RotateCredential`).

`PendingEventuallyDelivered` also fails with one crash (`MaxStops = 1`,
`FairSpec`): a pod that restarts within the staleness window recovers once, too
early; its own orphaned row stays running and the queued input is never fed.

Smaller divergences met while modelling, modelled as the code behaves:

- The limit in a snapshot's SQL equals the limit of the probe, so that more than
  500 tables or 50 statements are cut without `Truncated`, which
  `libs/metrics/snapshot.go:54` documents for any limit (`Probe!Truncated`).
- A database that cannot be reached before the first test reads as a missing
  capability, because an error of the test counts as an absence
  (`snapshot_probe.go:89`, `ProbeSource`); `spec-1.4-slowlog-metadata.md:143` files a
  failing connection under `AR_SNAPSHOT_COLLECT_FAILED`.
- The second of two overlapping uploads of a snapshot finds no row and fails on
  the unique index, where the comment at `tsstore/snapshot.go:73` expects it to
  wait and go on (`Locked`, `InsertFirst`).
- A crash between the console's enrollment and the last file leaves a machine
  without a usable identity and the token spent (`EnrollFails`).

### Fairness

`ThreadLifecycle!FairSpec` assumes that goroutines run, the core ends its turns and
reads its interrupts, the database's clock passes, pods restart and the sweeper
gets its turn (strong fairness, as it is a goroutine of its own that the model
lets compete for the same caller names). Clients, stops and faults are never
forced. `StubbornCoreSpec` drops every promise about the core: Drain must end
without it. In `RolloutEvents`, transactions end, tails run, the ticker ticks and
handlers write; nobody has to append or connect. In `GatewaySession`, the handler
of each session runs, its `select` takes a drain signal that stays ready, the
timers end a session whose connector fell silent, and a connector that is alive
reconnects and sends its heartbeats; the network, operators, stops and crashes
owe nothing, and `GoneIsReported` and `LiveIsReported` say under which
circumstances they hold. In `Collector`, the reconciliation ticks, loops go on and
every query ends; administrators, testers and a stop owe nothing. `MCComponents`
checks safety only.

## 4. Proofs

A theorem holds for every value of the constants that its module's assumption
admits: the assumptions say that the constants have their types and that `None`
(NULL, nil) is none of the values, and TLC evaluates them in every run. What they
say beyond that: budgets have a greatest (`LlmMeter`), tables and statements of a
database are finitely many and no schema has two relations of one name (`Probe`, a
unique index of `pg_class`), datasources are finitely many and the first backoff is
below twice the limit (`Collector`; 5 s and 5 min in the code), pages have a
row. Few of the properties are inductive as they stand; what is, and why, follows.

Sums over rows, sizes of snapshots, sorted pages and the shortening of a snapshot
are functions on an initial segment of the naturals. The library's induction
theorems cannot be used, but that a nonempty set of naturals has a least member can
(`WFMin` with `NatLessThanWellFounded`): the least number for which the function is not
defined, or the claim fails, is led to a contradiction by the one below it.

### ThreadLifecycleProofs

From `ConstantsAssumption`:

- `TypeCorrect`: `Spec => []TypeOK`. `TypeOK` is inductive as it stands: it says
  not only the type of every variable but that a goroutine at work has its
  pod, thread and session, which the code dereferences without a test. It is cut in
  four parts (calls, sessions, store, pods) with one lemma per group of actions.
- `ClaimExclusion`: `Spec => []OneHolderPerThread`, and `HolderKeepsRow`:
  `Spec => []HolderOwnsRow`, both assuming `HeartbeatsTimely`. Neither is inductive
  alone: two holders are excluded because a held row is running, hence not
  claimable; a held row stays running because its only holder releases it. Their
  conjunction `ClaimInv` is. Every action is either quiet (makes no new holder
  and leaves the held rows alone) or one of the four that matter: claim, start,
  release, recovery scan. The assumption on heartbeats is needed: see
  `ClaimIsExclusive` in section 3.
- `SlotsAreCounted`: `Spec => []SlotAccounting`. `SlotInv` adds that the goroutines
  counted are finitely many, without which a cardinality says nothing. Most steps
  are `Steady` (no goroutine gains or loses a slot); claim, refusal, failed start,
  `ReleaseSlot`, crash and restart each move the counter with the set.
- `OpenSessionsAreReachable`: `Spec => []OpenSessionIsLive`, assuming
  `HeartbeatsTimely`. An entry of `Engine.live` could only be overwritten by a
  second start for the same thread on the same pod, and `ClaimInv` excludes that.
- `InputsAreKept`: `Spec => []NoInputLost`. `InputInv` follows an input on its way:
  a caller that is about to enqueue has a new one (`Aimed`), the queue holds each
  once and in its thread (`Queued`), the snapshot of a feeder keeps the order of
  what is still queued (`Snapshots`), and what is about to be admitted has been
  delivered (`Owed`).
- `FirstDeliveries`: `Spec => FirstDeliveryInOrder`, an action property, from the
  same invariant: whatever a stale snapshot still lists, the rows queued before its
  head have been seen.

### RolloutEventsProofs

From `ConstantsAssumption`:

- `TypeCorrect`: `Spec => []TypeOK`.
- `LogIsDense`: `Spec => []LogDense`. What is inductive is `DenseInv`: the
  transaction that appends holds the row lock, so what it read is still
  `last_seq`, and its block continues the log.
- `SeamlessStream`: `Spec => []StreamIsSeamless`. `StreamInv` says of every
  connection that its channel continues what the client has (`Carried`), that a
  tail between two pages stands where the channel ends (`Placed`), and that what
  is left of a page continues the channel without a gap (`Paging`). Hence
  counting the rows pushed, as `forward` does, is the same as remembering the
  last one, on a dense log.
- `WakeupsAreKept`: `Spec => []NoLostWakeup`. `Notified` says where a row must be
  whose writer has told the reader's pod: behind a tail that waits, and for one
  that pushes without a signal behind it, on its page, or beyond a page that is
  full, after which the tail reads again. That a full page leaves no room for a
  shorter one needs the count of rows between two numbers, `BetweenCount`.
- `StreamImplementsLog`: `Spec => ImplementsEventLog`. A commit is `Extend`, a
  delivery is `See`, everything else is invisible.

### GatewaySessionProofs

From `SessionAssumption`:

- `TypeCorrect`: `Spec => []TypeOK`, in five parts (row, sessions, wire, connector,
  callers).
- `RegistryCorrect`: `Spec => []RegistryTracksSessions`, inductive on its own given
  the types: `Add` puts the session in and tells the one it replaces to drain in one
  critical section, and `Remove` only removes itself.
- `PendingCorrect`: `Spec => []PendingIsAwaited`, with the fact that a caller which
  has not asked has no answer yet (`PendingInv`).
- `AnswerCorrect`: `Spec => []OkMeansStored`. `StoredInv` covers the signal that
  has been given and not yet read.

### ConnectorIdentityProofs, ConsoleResourcesProofs, CollectedDataProofs

- `OneMachineCorrect` and `EnrollOkCorrect`: only the run that
  `CompleteEnrollment` recorded writes files (`WinnerFiles`), a certificate lies on
  the machine of its run (`CertsPlaced`), an admitted machine is that of the
  recorded run (`WinnerAdmitted`), and the files a run has behind it are its own
  (`FilesOwn`). `RevokedCorrect`: `Spec => RevokedIsFinal`.
- `KeysCorrect`: whoever was answered with a row under a key was answered with the
  row of its record, and records are never overwritten (`KeysRecorded`).
  `SecretsCorrect`: a secret is there exactly if the row that points to it is, and a
  request that is not over has made neither (`SecretsMatch`). `RefsCorrect`:
  `NoDanglingRefs` is inductive, since the foreign keys are tested in the step that
  commits: the binding of a patch, both bindings of a new row, the deletion of an
  owner.
- `PagesCorrect`: `Spec => []PageWalkExact`, for every page size. A row commits
  after it got its `created_at`, so that rows may appear behind the cursor: they were
  not due, and a row that was due or was seen is never made again (`Walked`). No two
  rows or requests have one `created_at` (`Dated`); then a page is a gapless run of
  rows and has less than `Limit` of them only when none are left (`FirstRows`, for any
  finite set; the least and the greatest of a set of numbers come from the library's
  well-founded order of the naturals, without induction).
- `HistoryCorrect` and `PublicationsCorrect`: the last version is the only current
  one and no version repeats its predecessor (`Chain`); hence what a publication has
  committed is what a reader gets. `EntitiesCorrect`: `EntitiesCoverReadings` with
  the types of the rounds. `LayersCorrect`: arithmetic on the retentions.
- Each has a `TypeCorrect`.
- `CollectionCorrect` (`Probe`, from `ProbeAssumption`): `Spec => [](TypeOK /\
  CollectionIsSound)`, for any limits: at most `TopN` entries, of settings at most
  `ConfigRows`, and at most `MaxBytes`. `JobInv` says where a collection stands: the answers it holds
  are those of the queries behind it and all from the source in hand, and a source
  that passed its test is either the one being asked or among the errors. So when the
  chain is exhausted without an error, none ever passed, whatever the database did
  meanwhile. That the tables have one position per key gives each column to its
  own table; that the shortening of a snapshot ends below the limit is an
  argument on the least length for which it does not, since `DropTail` always
  drops one entry.

### MeterCollectorStoreProofs

- `ChargedCorrect`: a meter gives each number out once while its process lives and a
  new process has a new nonce (`NumbersOwn`), so that a key names one call; a row has
  the key and the tokens of its call, and no key has two (`RowsOwn`); an answered
  record is in the table (`AnswersStored`).
- `AccountedCorrect`: `LoopInv` adds to the table of loops that a loop inside
  `poolFor` is a live one that collects directly, so that returning cannot revive
  one that has ended. `PoolInv` gives every open pool one owner, a table entry or
  the call that built it: no two entries and no two builders share one, and a
  builder's pool is in no entry. `RegisterPool` and `Destroy` keep that because both
  look at the table under the mutex.
- `OvershootCorrect`: `Spec => []OvershootBounded`. `BudgetInv` counts together what has
  been charged and what the calls under way without a row may still be charged
  (`Pending`): the sum stays below the greatest budget and what the largest number of
  calls ever under way at once may use (`WithinBound`). A row takes its tokens
  from the share of its pending call; a new call was let through because less than the
  budget had been charged (`CallsTell`, `PeakCounts`).
- `DeletedCorrect`: `Spec => DeletedIsFinal`, an action property. All that is needed
  beside it is that a row has its columns (`StoreShaped`): every writer repeats
  its condition in the step that writes.
- `WalksCorrect`: `Spec => [](ItemWalkExact /\ ThreadWalkExact)`, for any page size, log
  and list; the pages of turns repeat (`turn_pages`), nothing is claimed of them. A finite set of keys has exactly one ascending sequence, and a page is a
  stretch of it that begins behind the cursor (`Continued`); what the client has is
  ascending, goes no further than the cursor and contains every steady key up to
  it (`Paged`, `WalkInv`). Writers only add rows behind the end of a log, and a thread
  that moves is no longer steady.
- `CollectorTypesCorrect`, `StoreTypesCorrect`: `TypeOK` of the two modules; that of
  `LlmMeter` follows from `BudgetInv` (`MeterTypes`). The collector needs beside it
  that doubling stops at the limit and that a full page has a last row (`CollBounds`).

### ComponentsProofs

`MCComponents` runs small instances side by side. `FocusStays` says that a step of
the whole is a step of the component in focus, the lemmas `...Same` that the
instances proved about are those that run, and from there each invariant holds while
its component is in focus: `OneMachineHere`, `EnrollOkHere`, `KeysHere`,
`SecretsHere`, `RefsHere`, `HistoryHere`, `EntitiesHere`, `PublicationsHere`,
`LayersHere`, `ChargedHere`, `OvershootHere`, `AccountedHere`, `PagesHere`,
`CollectionHere`, `EndedHere`, and `TypesHere`, which also needs that exactly one
component is in focus (`FocusIsOne`). These state the very properties of the run
`components`, all of them; the theorems they rest on are those for every value of
the constants.

### Only model-checked

- Liveness (`PendingEventuallyDelivered`, `DrainTerminates`,
  `ConnectedReaderCatchesUp`, `SupersededEnds`, `GoneIsReported`, `LiveIsReported`):
  temporal reasoning under fairness needs `ENABLED`, which the prover does not reach.

Every invariant and every action property of the passing runs is stated by a
theorem. The three properties that runs show to be violated are false, and the
five of section 3 that the code does not keep, too.

## 5. Plan

1. Done: `ThreadLifecycle`, `RolloutEvents`, `EventLog`, `GatewaySession`,
   `ConnectorIdentity`, `ConsoleResources`, `CollectedData`, `LlmMeter`, `Collector`,
   `ThreadStore`, `Probe`. All are written without recursive operators, so that
   they can be proved about.
2. Done: proofs of all safety invariants and action properties that the runs check,
   and of the refinement of `EventLog`. Liveness stays with TLC.
3. Operations that are missing: child agent sessions and the spawn graph, forks,
   `LoadHistory`; renaming a group, patching an agent; the kinds of one
   datasource as loops of their own once one of them can fail alone.

## 6. Not modelled

The user interface, Helm charts, scripts and test kit; parsing, formatting and
logging; the text of the probes' SQL; cryptography (PKI, sealed credentials);
schema migrations; the approvals gate, which decides each call by itself from a
catalogue read at start; the adapters between the core and the store. They keep
no state whose interleavings matter. Generated protobuf code is represented by
the frames of `GatewaySession`. `ReapIdle` is called by no service. What the core
makes of a compacted log on a resume is outside the repository.
