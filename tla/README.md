# Transflux: a TLA+ verification project

Transflux is a media processing control plane. Users upload source files, submit
jobs made of a graph of tasks (probe, encode, package, validate ...), and workers
on machines the control plane cannot reach poll for tasks, run ffmpeg and report
back. All durable state is in PostgreSQL; media is in object storage. Any number
of control-plane processes may run against one database.

This directory models the parts of the code where correctness is decided by
interleaving, failure, retries and arithmetic at a boundary, from the boot of the
control plane to the player. TLC checks every property on a small instance; every
safety property is then proved for instances of every size. What must eventually
happen is only model-checked.

## 1. The system

| Part | Source | State it keeps | Operations | What makes it correct |
|---|---|---|---|---|
| Job store | `internal/job/{job,lease,schedule,expire}.go` | `jobs`, `tasks`, `task_attempts` | Create, Lease, Start, Progress, Complete, Cancel, ExpireLeases | one lease at a time; the retry budget is exact; outcomes are final; dependencies gate; lost work comes back |
| State machine | `internal/job/state.go` | none | legal moves, failure classes | every write of `tasks.state` is a legal move |
| Worker registry | `internal/worker` | `workers`, `worker_resources` | Register, Heartbeat, SetState, MarkStaleOffline | draining and offline workers get no work; a worker that returns is usable again |
| Worker agent | `internal/agent/{agent,client}.go` | the assignment it runs | poll, execute, keepAlive, report | stops when its lease is gone; delivers each result or lets the lease lapse |
| Uploads | `internal/upload` | `uploads`, multipart uploads in storage | Create, Status, Complete, Abort | a source is recorded only for a complete, verified object; completion is idempotent |
| Artifacts | `internal/artifact` | `artifact_sets`, `artifacts` | Register, MarkComplete, MarkFailed | artifacts are immutable; only the lease holder registers; a set closes with its job |
| Pipeline | `internal/pipeline`, `internal/encode` | `pipelines`, versions | Plan, Resolve, ladder selection | a closed acyclic graph; renditions never above the source |
| Validation | `internal/validate` | reports | checks over outputs | the verdict follows from the checks |
| Playback | `internal/playback` | none | tokens, manifest rewriting | a token is good for one set until it expires |
| Assets, probe results | `internal/asset`, `internal/probe` | rows | create, list, record | version numbers do not repeat |
| API | `internal/api` | none | handlers that chain the stores | a failed second step does not contradict a committed first one |
| Auth, tenants, audit, observability, config, storage client, migrations | the other directories of `internal` | keys, tenants, audit rows | - | - |
| Processes | `cmd/*` | none | start the server, the sweepers, the agent | - |
| Dashboard | `web/` | none | a browser client of the API | - |

How they interact. The API handlers call the stores directly; stores share
nothing but the database. The control plane never calls a worker: a worker polls
`Lease`, and cancellation reaches it as the answer to `Progress`. Two background
loops run in every control-plane process, `SweepLeases` and the registry's offline
sweep, on purpose independent of one another. After `Complete` has committed, the
handler records probe and validation output and closes the artifact set in
separate transactions.

What is hard here. Transactions run under READ COMMITTED, so every statement has
its own snapshot and only row locks, conditions repeated after a lock and unique
constraints order them. Worker reports can be lost, repeated or late. Workers and
control planes crash at any statement. `PROJECT.json` lists each such hazard at
its line, with the properties that would catch it.

## 2. Modules

| Module | Content |
|---|---|
| `JobStates` | `state.go` and the switch of `reconcileJob`, as operators; used by every module that has tasks |
| `JobStore` | the three tables and every transaction on them, one action per statement that matters |
| `LeaseProtocol` | what the store promises about leases, with no tables or transactions |
| `JobStoreLive` | fairness, the deadlock detector, and the liveness properties |
| `JobStoreInv`, `JobStoreProofs` | the inductive invariant, that it is one (a lemma per action), and the theorems, with the refinement of `LeaseProtocol` and the slots |
| `UploadParts` | the part arithmetic of `upload.go`: `PartSizeFor`, its doublings, and the size `verifyParts` wants |
| `Upload` | uploads: database rows, multipart uploads in storage, and the requests between them |
| `UploadInv`, `UploadProofs` | their inductive invariant, and the theorems, with those about the parts |
| `ArtifactSet` | outputs of a job from the presigned PUT through registration and validation to the closed set |
| `WorkerRegistry` | the table of workers, heartbeats, draining, the offline sweep, and the agents' loops |
| `WorkerAgent` | one assignment in the agent: `execute`, `keepAlive`, and the calls both make |
| `MediaRun` | `Run`: a media tool, its process group, and the goroutines that supervise it |
| `Executors` | the five executors with their classification of failures, over all attempts of a task |
| `MediaTask` | composes `Executors` with `MediaRun` |
| `SpriteSheet` | the arithmetic of the scrubbing strip |
| `EncodeConfig`, `Keyframes` | which configurations are valid, and where an encode puts keyframes |
| `GrowingFile` | composes `UploadParts`, `Keyframes` and `SpriteSheet`: one file that grows |
| `ProbeTrack` | from ffprobe's streams to the tracks the planner reads |
| `Planning` | presets, rungs, sizes, the task graph, the expectations and the checks, as operators |
| `MediaPipeline` | composes `EncodeConfig`, `ProbeTrack` and `Planning`: a source is probed, planned, encoded and validated |
| `Submission` | concurrent submissions, the unique constraints and the connection pool |
| `Migrate` | instances of two releases migrating one database at boot |
| `ControlPlane` | composes `Migrate` with `Submission`: one instance boots and serves |
| `Playback` | links, playlists that are rewritten, signed URLs, and the player that follows them |
| `ControlPlaneProofs` | theorems about `Migrate`, `Submission` and their composition |
| `ArtifactProofs`, `AgentProofs`, `RegistryProofs` | theorems about `ArtifactSet`, `WorkerAgent` and `WorkerRegistry` |
| `MediaProofs` | theorems about `Executors` and `MediaRun`, and that `MediaTask` implements `Executors` |
| `PlayerProofs` | theorems about what a player relies on: `Playback`, `Keyframes`, `SpriteSheet`, and all of `Planning` and `MediaPipeline` |
| `MC*` | instances for the runs |

A definition whose comment starts with "Faulty variant of" is a plausible mistake in
the operator after it. `PROJECT.json` pairs each with a property that it breaks.

### JobStore and the code

Rows. `task[t]` is a row of `tasks` (`state`, `attempt_count` as `count`),
`att[t][n]` the row of `task_attempts` with `attempt_number` n (`state`,
`worker_id`, and whether `lease_expires_at` has passed), `job[j]` is `jobs.state`.
`"absent"` is a row that has not been inserted. Next to each committed row is its
pending version (`taskNew` ...) and the transaction holding its lock (`taskLock`
...). A transaction reads committed rows and its own writes (`View`); `Commit`
publishes what it wrote, `Rollback` and `Abort` discard it.

Transactions. A member of `Procs` is a transaction in flight. `pc` names the
statement it is about to execute, and the other local variables are the Go
variables that live across statements: the ids, the worker of the advisory lock,
the rows a sweep has selected (`todo`), task states read earlier without a lock
(`seen`) and the job state `reconcileJob` has computed (`next`).

| Code | Actions |
|---|---|
| `Create` | `Create` |
| `withAttempt` + `Start` | `WithAttempt` in `Start`, then `TransitionTask`, `Commit` |
| `Progress` | `Progress`, `Commit` |
| `Complete`, success | `Complete`, `TransitionTask`, `ReleaseDependents`, `CountTasks`, `UpdateJob`, `Commit` |
| `Complete`, failure | `Complete`, `FailTask`, `CountTasks`, `UpdateJob`, `Commit` |
| `closeAttemptCancelled` | `CloseCancelled`, `Commit` |
| `Lease` | `LeaseSelect`, `LeaseTask` or `LeaseMiss`, `CountTasks`, `UpdateJob`, `Commit` |
| `ExpireLeases` | `ExpireSelect`, then per row `ExpireFinished` or `ExpireTask`, `CountTasks`, `UpdateJob`; then `Commit` |
| `Cancel` | `CancelSelect`, `CancelTasks`, `Commit` |
| `checkTask` failing | `Refuse` |
| crash, dropped connection, deadlock victim | `Abort` |
| time | `Lapse` |

Which worker calls arrive is unconstrained. Any attempt may be reported on at any
time and any number of times; the guard of `WithAttempt` is the code's refusal of
attempts that have ended. A refused call changes nothing and is no action; the
same goes for `Progress` on a cancelled task and for `AuthorizeAttempt`, which
lock the attempt, read and commit. The ownership check (`a.worker_id = $2`) has no
counterpart because the caller is not modelled: an attempt row determines its
worker, and a call by anybody else is a refused call.

### Where the model is coarser than the code

* A statement that waits for a row lock is a statement that has not started. In
  PostgreSQL it has taken its snapshot already and re-evaluates its conditions on
  the locked row. For `withAttempt` the task state may be older than the attempt
  row by a wait: the attempt can then only have been touched by `Start`,
  `Progress` or a rollback, `checkTask` does not tell leased from running for the
  moves in question, and a cancel during the wait acts as one just after it. For
  `releaseDependents` the real snapshot is older, so it may release fewer tasks
  than the model; that is the stall the run `store_stall` shows without a wait.
* An UPDATE of several rows (`Cancel`, `releaseDependents`) takes its locks at
  once.
* The slot count and the candidate query of `Lease` read at one moment. In
  between only the same worker's leases could add to the count, and the advisory
  lock keeps those out.
* Any candidate may score highest, so priorities, ages, locality and GPU penalties
  are a nondeterministic choice; hard constraints other than slots and quota are
  the constant `Eligible`.
* One `MaxAttempts` for all tasks. A lapsed lease is a Boolean; a sweep whose
  batch is smaller than what has lapsed takes any rows, not the oldest.
* `Create` is one step: nobody sees an uncommitted job, and a second submission
  with the key changes nothing.
* The quota is a guard of `Lease` like the slots; in the runs it is too large to bind.
* `Transition` and `Fail` are exported and only tests call them; reading functions
  change nothing. They have no actions.

### Upload and the code

An upload is a row (`row[u]`, `uploads.status`) and a multipart upload in storage
(`multi[u]`, with `part[u]` the parts it holds and `object[u]` what it was
assembled into). `source` and `ready` are what `Complete`'s transaction writes:
the `source_files` row of a version, and the statuses of version and asset, which
that transaction alone sets. A member of `Procs` is a request in flight, and `pc`
the call it is about to make; `list` is the result of `ListParts` that lives
across calls.

| Code | Actions |
|---|---|
| `Create` | `Create` (up to `CreateMultipart`), then `RecordUpload` or `RecordFails` |
| a client's PUT to a presigned part URL | `PutPart`, at any time, any number of times, of any size |
| `Complete` | `CompleteGet`, `ListParts` (with `verifyParts`), `Assemble` (`CompleteMultipart`, `Head`, the size check), `RecordSource` (the transaction) |
| `Abort` | `AbortGet`, `AbortMultipart`, `AbortRow` |
| crash, cancelled request, failed call | `Crash` |

Storage is the environment, modelled from how `internal/storage/s3.go` uses it: an
upload that has been assembled or aborted is unknown to `ListParts`,
`CompleteMultipart` and `AbortMultipart`; assembly takes the listed parts and
fails if one has been replaced since (its ETag differs). A part is its length and
one of two contents of that length. Refused calls and the early success for a
completed upload change nothing and are no actions. `Status` only reads. `urlTTL`
and the paging of URLs limit which parts can be sent when, so they are left out;
`expires_at` is written and never read by the code. Each upload has a version and
a key of its own making, so two uploads meet only in the version they are for.

### ArtifactSet and the code

One job: encode tasks with an output each, and the validate task that depends on all
of them. `pc[t][n]` is where the worker of attempt n is: `EncodeTask` PUTs the object,
which needs no lease and goes to a key that all attempts of the task share;
`AuthorizeAttempt`, `HeadObject`, `CurrentSet`, `FindArtifact`, `InsertArtifact` and
`CreateSet` are the statements of `handleRegisterArtifact` and `Register`; `ReadJob`
and `CloseSet` are what `Complete` and `handleWorkerComplete` do after the commit.
`Vanish` is a worker or a request that dies anywhere. Two runs of one encode need not
produce the same bytes, so an object is its content.

A transaction of the job store has up to three moments here, with anything in between:

| Moment | `Lease` | `Complete` | `ExpireLeases` |
|---|---|---|---|
| reads | - | `Complete` locks the attempt and reads the task | `Expire`, likewise |
| writes, counts | `Lease` | `FinishTask` | `Requeue` |
| updates the job, commits | `Commit` | `Commit` | `Commit` |

`step` says which moment is next and `new` holds what is written and not committed;
`Rollback` ends a transaction at any of them. Two completions that overlap each miss
the other's success, and an older count can be written over the job last, as in the
code. What is coarser than `JobStore`:

* `releaseDependents` and the count of `reconcileJob` see one moment. The two differ in
  effect only when the last other encode succeeds in between: the release has missed
  it, and the job is "running" by either count, since the validation is still pending.
  In every other case the release would have done the same at the moment of the count.
* `Cancel` is one step. It locks the job row first and waits for the tasks it is going
  to change; with a transaction that has locked one of these and waits for the job it
  forms a deadlock, of which one is rolled back.
* A sweep takes one lease. In a batch the first update of the job row locks it, so the
  rows after it are like sweeps that follow directly.
* `Lease` and the start report are one transaction; a start that is lost is in
  `WorkerAgent`.

### WorkerRegistry and the code

`row[w]` is a row of `workers`; a credential is named by the process it was given
to, so a later registration takes the earlier one's away. A request is two steps,
`authenticateWorker` and the statement it authorises. A process lives once; two
under one name are a restart, or a stray old process. The write of
`worker_resources` belongs to the step of the statement before it and is left out.

### WorkerAgent and the code

The store is reduced to one attempt, its lease and whether its task is cancelled.
Each call is sent, served and answered: it may be served and its answer lost, or
lost before it is served, or take until the client gives up; `losses` counts all
three. `ticker` and `fired` are Go's ticker and its channel of one. A tick of the
clock is seven seconds, so the default lease is 9 ticks. The client's timeout of two
minutes is cut to the length of the lease: a call sent after the last renewal can
still outlast it, and nothing new happens after that.

`left` counts the outputs still to be registered and starts anywhere up to `Artifacts`:
a probe or a validation has none. A stopped run either returns the context's error,
which `execute` drops (`TaskCancelled`), or an outcome that was there already or that a
killed tool was taken for, which it delivers like any other (`ExecutorReturns`): a
success, any failure, or the transient failure of an interrupted upload.

### MediaRun, Executors, MediaTask and the code

`MediaRun` has the three goroutines of `Run` and the order of its waits
(`wg.Wait`, `cmd.Wait`, `close(stopped)`, the context before the status). Processes,
the signals they ignore, and the pipes they hold or close are the environment.
`Executors` has one step per fetch, tool run, inspection and upload, each of which
may meet a fault of storage, of the host or a stop; `sound` says whether the media
is what it should be, which the classification is then held against. In `MediaTask`
the executor's context is the run's. A run whose exit status does not fit the
media (an intact source that the tool rejects without a fault) is not followed any
further, and helpers that outlive their run are forgotten with it. `probeTask` and
`validateTask` call ffprobe by other means, as single steps.

### Planning and the code

ffprobe and ffmpeg are external and do what their arguments say. Sizes are computed
exactly, where the code computes in `float64`; all of them are far below what a
float holds exactly. An exact tie may round the other way there, because the ratio it
is multiplied by is not exact; the properties of the sizes hold either way. Of
primaries, transfer, matrix and range, one that the encoder does not know drops all
four, as in the code; a rate above 240 is answered `cannot_plan`. Fields that no
preset varies (codec, profile, container) are left out. `Files` is what ffprobe can
say of a source, with 0 for a size, rate or duration it cannot tell. `Encodings` is
what a correct ffmpeg may make of a source under a configuration, `Damaged` four ways
it may go wrong. `Filled` is the loop of `rungsFor`, as a recursive function over the
rungs seen.

### Submission, Migrate, ControlPlane and the code

A statement that meets an uncommitted row under a unique constraint waits for it; a
`Begin` or a lookup waits for a free connection. All requests are of one tenant and
one preset. A migration's body fails if it has been applied before, as a body that
creates tables does. A process that dies loses its connection, and with it the
advisory lock and the open transaction. Requests go to one instance, once it serves.

### Playback and the code

Time is in half seconds, because claims are whole seconds and promises are not.
Signatures are unforgeable and names are ones `SafeFile` accepts. `Playlists` are the
files that end in `.m3u8`: a reference to one leads back to the service, a reference to
anything else, a scrubbing index included, is signed and leads to storage. Lines of a
playlist are the forms the rewriters tell apart. `RequestTime` bounds how long a request may
take between `Verify` and signing; the server itself sets no bound.

## 3. What the runs show

States are distinct states.

| Run | Instance | Shows |
|---|---|---|
| `store` (425,000) | two tasks with a budget of two, two workers with a slot each, two transactions | one lease at a time, one author per result, slots never overfilled, no report or sweep refused, final outcomes, the inductive invariant of the proofs, the refinement of `LeaseProtocol` |
| `store_live` | two tasks and one that needs both, one worker with two slots, two transactions, budget one | no task is available early, no outcome that did not happen; every transaction ends, every lapsed lease is reclaimed or renewed |
| `store_stall` | the same graph, two workers | **violated**: a graph can stall with everything satisfied |
| `uploads` (97,000) | uploads of two parts and of one for the same version, three requests | a recorded source is the whole file, verdicts are final, the inductive invariant |
| `growing_file` (18,000) | sizes to 2600 bytes with at most 10 parts; 2600 frames at seven rates; 22 minutes with at most 100 tiles | parts fit and tile the file; keyframes keep to the segment grid; the strip keeps its limit and its index is exact |
| `media_task` (239,000) | five executors, two renditions, two attempts, two faults of storage, one of the host, one stop, two helpers | a success is whole in storage; a stopped tool is no verdict, and storage trouble only where the tool reads the source; a run leaves nobody with its pipes; cancelling ends it |
| `control_plane` | one instance of an old and two of a new release, one death, four submissions of which three share a key, three connections | no file half applied, applied twice or out of order, nobody refused, one key one job; everyone serves, every submission is answered |
| `artifacts` (1,829,000) | two encodes and their validation, two attempts each, one fault, one lapse, cancellation, two of these at most | what is closed agrees with the job's tasks, and a success delivers; what is delivered was validated and is frozen; only the two races below lose a job |
| `agent` (1,185,000) | up to one output, two losses, cancellation, calls as long as the lease | the lease is held while working, what is recorded is true, lost work stops, the attempt ends |
| `registry` (219,000) | two processes of one name, three heartbeats lost in a row, health reports, an operator | one lost beat does not evict; offline follows the heartbeats both ways; a drained worker empties |
| `pipeline` (81,000) | 16 x 16 shapes around every rung, with and without sound, every colour, rotated and dynamic HDR sources, formats stated only beside the stream, colours, matrices or ranges unknown to the encoder, files of a second and less, slivers; four presets, one damaged output | renditions descend and keep their shape, the graph is closed, acyclic and validates before it packages; validation passes what was asked for and nothing damaged |
| `playback` (46,000) | a package of four text and four media files, lifetime one second, three and a half seconds | only complete sets play, a link lives as promised and its access ends; the whole package is reached |

`store_stall` states a sentence of `job.go`, which `findings` quotes: two
transactions that complete the last two dependencies of a task at once each miss the
other's success, and nobody looks again.

### Where a property stops short

Modelling met more sentences of the repository that the code does not keep. Each was
tried as a property, and TLC gave the counterexample; the properties of the passing
runs say what does hold next to them, with the condition in the formula.

| Where | What happens | What the repository says, and what holds |
|---|---|---|
| `job/job.go:462` | the count of tasks is taken before the job row is locked, so an older count can be written last and stay | "it cannot disagree with the work it represents"; it never claims an outcome that did not happen (`JobOutcomeHappened`), and a failed set stays failed (`ClosedSetMatchesJob`). This and the stall are the only ways a job is lost (`LostOnlyToRaces`) |
| `job/expire.go:101`, `lease.go:190` | a task cancelled between the read and the lock is queued again | "requeueing it would restart work someone asked us to stop"; it still has one lease at a time and an exact budget |
| `job/schedule.go:163` | two workers leasing at once both pass the tenant's quota | a hard constraint in `ARCHITECTURE.md`; no property |
| `job/job.go:107` | as many retries of one key as the pool has connections wait for each other for ever | retried submissions are safe; `SubmissionsAnswered` has a connection more than a key has retries waiting |
| `pipeline/pipeline.go:128` | of two first uses of a preset one is answered with an internal error | "creating it on first use" |
| `upload/upload.go:194` | a crash after `CompleteMultipart` leaves an upload that no retry can complete and nobody can abort | "completion is idempotent"; it is never recorded as what it is not |
| `artifact/artifact.go:111` | an attempt that lost its lease between authorisation and insert registers its output | "cannot write results for a task that has been given to someone else"; not once the set is complete |
| `artifact/artifact.go:128`, `api/jobs.go:198` | attempts share a key: a late PUT replaces bytes, and a row may describe the lost attempt's | "artifacts are never overwritten"; the rows of a complete set are the ones validated (`DeliveredWasValidated`) |
| `api/workers.go:277` | only a report closes a set; a job that ends by expiry or cancellation keeps one that is building | "so it is not mistaken for one still in progress" |
| `api/artifacts.go:138` | a download is signed whatever the state of the set | "nothing should be delivered from it" |
| `worker/worker.go:289` | a draining worker that is swept comes back online | "draining is not overridden by a heartbeat"; one that stays draining empties |
| `api/workers.go:123` | a poll authenticated before a drain still gets a task | "takes no new work"; one task, then none (`DrainEmpties`) |
| `worker/worker.go:313` | a reported free disk of zero counts as not reported | "falling back to total disk when a worker has not reported yet" |
| `agent/agent.go:307` | one renewal call that hangs outlasts the lease | "never reclaimed out from under us"; holds while calls are prompt, one lost |
| `agent/agent.go:252`, `agent.go:216` | renewal stops before delivery; a lost start makes every report of success refused | the attempt ends and is retried (`AttemptEnds`) |
| `agent/agent.go:284`, `encode.go:98` | an outcome that is there when the run is stopped is reported, and a stop during the upload as transient | "it already knows"; the control plane records neither success nor failure (`StoppedWorkLeavesNoTrace`) |
| `agent/ffmpeg.go:94` | a helper that closed the pipes and ignores SIGTERM survives | "kills the whole tree"; nobody keeps the pipes (`RunIsOver`) |
| `agent/encode.go:81`, `validate.go:112` | a source read that breaks off, or a probe that times out, is a verdict on the media | "storage trouble is ours"; holds where an executor moves the files itself; `TroubleIsRetried` names the executors and the fault |
| `encode/args.go:104` | at NTSC rates the group is one frame short: a second keyframe just before each forced one | "at a predictable place"; at most one per segment |
| `pipeline/plan.go:120`, `:53`, `:74`, `probe/parse.go:212` | a source whose HDR format is stated beside the stream (HDR10+, Dolby Vision, mastering data without the transfer), or whose colours the encoder has no word for, can never pass validation; rotation is ignored; a variable rate is planned at its least common multiple; the last side data wins | the properties name the sources they are about (`FormatIsKept`, the rotation in `ShapeKept`) |
| `validate/validate.go:87`, `pipeline/plan.go:238` | half of a source of a second or less is within the tolerance of its duration; a side of one line is encoded as two | `DamageIsCaught` is about longer sources, `RenditionsDescend` and `ShapeKept` about pictures of at least 2 x 2 |
| `api/playback.go:122` | URLs are signed for a whole lifetime at every request, so access lasts up to twice as long | "bounds a viewing session"; `AccessBounded` |
| `playback/token.go:51` | a link ends up to a second before the time its caller was told | "valid for the given lifetime"; less than a second |

### Bounds

Two actors are enough for every race of the code, which is always between one
transaction, request or process and another; three where a third party is what makes it
interesting (an abort, a completion and a rival upload; two new releases and an old one;
three retries of a key, of which one waits while one holds and one asks again). Two
attempts reach a first and a last one. Two tasks reach batches of a sweep and jobs with
mixed states, and two dependencies are the least that fan in. One lapse lets an attempt
overlap its successor, and the one fault takes either away; `MaxTroubles` 2 lets any two
of fault, lapse and cancellation meet. Two losses are what it takes for the agent to
miss two renewals in a row, or a start and then a report. `MaxMisses` 3 is more than the
sweep tolerates. Faults, lapses, losses, deaths and time are bounded by constants in the
guards; the other runs explore all there is. `SweepBatch` is 2 rather than 100: a
backlog larger than a batch is not reached. The sides in `pipeline` are the rungs, their
neighbours and the encoder's limits. `growing_file` scales the provider's limits down so
that the part size doubles six times, and runs through every rounding of the interval up
to 13 seconds.

Workers, transactions, outputs, requests and contents are symmetric in the safety
runs; no symmetry is used where liveness is checked. Deadlock checking is off where
a system may be finished: jobs, uploads, packages and submissions all end. That
nobody waits for ever is stated by the liveness properties.

### Fairness

* `store_live`. Weak fairness of the steps of a transaction: a Go handler that has
  begun runs on. Weak fairness of `DeadlockVictim`: PostgreSQL aborts one transaction
  of every cycle. Strong fairness of statements that wait for row locks others keep
  taking, since PostgreSQL queues waiters, and of the sweep, whose ticker does not
  stop and which keeps meeting rows locked only for the length of a report. Nothing
  is assumed of workers or users. There is no `Abort` other than the victim's, because
  a database that kills every transaction for ever reclaims nothing.
* `media_task`. The goroutines of a run go on and time passes; a tool need never exit.
* `control_plane`. Strong fairness of each instance's boot, since waiters for an
  advisory lock are queued; weak fairness of each handler. Clients need not hang up.
* `agent`. The agent's steps, the control plane's answers, the sweep and time. A tool
  may run for ever; an executor whose context has ended returns, which is what
  `CancelEndsRun` shows of `Run`.
* `registry`. The heartbeat loop of a live process, the end of its requests and tasks,
  the sweep and time. Nobody has to start, stop or be drained, and beats may be lost.
* `playback`. Handlers answer, and a player follows every reference it holds.

## 4. What is proved

Every theorem is checked by TLAPS down to its last step, for all values of the
constants that the assumptions named below allow. TLC evaluates those assumptions on
every run.

Most proofs have one shape. A property that a run checks is seldom inductive; the
invariant that is one has the property among its conjuncts, a lemma shows that each
action keeps it, and the theorem combines these lemmas. `StoreInvariant`,
`UploadInvariant`, `MigrateInvariant`, `SubmissionInvariant`, `ArtifactInvariant` and
`RecordIsTrue` are also checked by the runs as they stand.

### The job store

For all sets of jobs, workers and transactions, every finite set of tasks, every
dependency relation, capacity, quota and batch size, and every `MaxAttempts` of at
least one. `JobStore` assumes that the constants are functions of the right shape,
that the null values are not elements, and that results are not named like the other
calls.

* `StoreInvariantHolds`: `Spec => []StoreInvariant`;
* from it, type correctness (`TypeCorrect`) and the safety properties of the runs
  `store` and `store_live`: `LeasesAreExclusive`, `LiveTasksHaveAttempts`,
  `BudgetIsKept`, `ResultsHaveOneAuthor`, `DependenciesGate`,
  `JobOutcomesHappened`, `SweepsAreNeverPoisoned`;
* `OutcomesAreFinal`: the action property;
* `StoreImplementsLeaseProtocol`: the refinement, initial states and steps;
* `SlotsSuffice`: no worker holds more leases of a slot class than it has slots.

The argument. The promises speak of committed tables, and a commit publishes
whatever the transaction wrote earlier, so they are not inductive. `StoreInvariant`
adds what every pending write can be:

* `TaskWriteOK`: a locked task row is pending one of six moves, and the ones that
  open, start or end an attempt are paired with a write of that attempt row by the
  same transaction;
* `AttemptWriteOK`: a locked attempt row is unchanged, or ends under a cancelled
  task, or goes with a write of the task that has been made or that the
  transaction still owes (`Owed`) because it is between the two statements;
* `PhaseOK`, `ScopeOK`, `SweepRowOK`: what a transaction holds and remembers at
  each statement. The important one: whoever holds the lock of a live attempt
  keeps its task from being leased, finished or requeued by anybody else. The one
  thing another transaction can do is cancel it. This is why a stale task state
  never breaks the lease properties and always breaks the cancel property;
* `GateOK`, `JobRowOK`: what has happened stays so, in committed and in pending
  rows.

The refinement splits commits into sweeps, which end any number of leases
(`SweepReleases`), and all others, which touch one attempt (`ReportStep`); no other
action changes a committed attempt's state.

The slot bound is not a matter of rows: `Lease` counts open attempts, inserts one and
commits, and in between other transactions commit theirs. `SlotInvariant` says what
the advisory lock is for. A transaction that leases for a worker is the only one that
does, so that worker's committed attempts can only become fewer, and while it is under
way there is room for the one it inserts. The rest is arithmetic of cardinalities:
publishing one attempt adds at most one (`OneMoreTaken`).

### Uploads

For all sets of uploads, versions and requests, all sizes and all limits of the
provider, from the assumptions in `UploadParts` and `Upload` (limits and sizes are
positive):

* `UploadInvariantHolds`: `Spec => []UploadInvariant`;
* `SourcesAreWhole`, `CompletedIsTheSource`, `AbortsLeaveNothing` and the action
  property `VerdictsAreFinal`;
* `PartsTileEveryFile`: for every file and every part size, the sizes `verifyParts`
  demands are those of consecutive byte ranges, none of them empty, that end with the
  file;
* `PartsFitEveryFile`: `FileSpec => []PartsFitTheFile`. For every file size the loop of
  `PartSizeFor` ends, the part size it returns is the first doubling of the minimum with
  which the parts keep the limit, and the parts of that size tile the file.

`Complete` and `Abort` write a status they have not looked at since their first
call. What makes that safe is storage: `OnlyOne` and `RequestOK` say that the
request at `source` is the one that assembled the upload, that a request at
`abortRow` has dropped it, and that there cannot be both. `SourcesAreWhole` also
needs `WantIsRange`, the arithmetic fact that what `verifyParts` expects is each
part's byte range, which rests on the bounds of integer division.

The loop is a recursive function, and a recursive function is a `CHOOSE`: nothing is
known of it before a function that satisfies its equation is shown to exist.
`LoopEnds` gives one, since a part size as large as the file ends the loop;
`DoublingsExist` does the same for the sequence of doublings. The k-th of these exceeds
k, so some doubling is large enough, and `LimitIsKept` shows that the loop returns the
first. Each of these steps is an induction, carried out as an argument about a least
counterexample: `LeastNumber`, that a non-empty set of naturals has a least element,
follows from the well-foundedness of `<` and has no operator parameter.

### The control plane

For any instances of any releases, any number of deaths, any requests and keys, and a
pool of any size:

* `MigrationSafe`: files take effect in order and once, are recorded exactly when they
  have, and no instance is refused. The advisory lock makes the holder the only
  instance between reading the table and giving the lock up, so what it read stays
  true; the proof shows that this survives a death at any statement;
* `RetriesSafe`: requests with one key are given one job, and nothing is looked at
  before the schema is there. `KeyOK` carries it: of each key at most one row is
  pending or committed, and a request that met a conflict finds it. It is inductive
  relative to `MigrateInvariant`.

### Artifacts

For any non-empty set of outputs, any contents and any number of attempts, faults and
lapses:

* `SetAgreesWithJob`: the invariant itself. A complete set belongs to a job that has
  succeeded and has every output; a failed one to a job with a task that failed, or one
  that was cancelled, whatever the job row says by now. As long as no process has
  failed, the set of a succeeded job is closed or about to be;
* `JobsLostOnlyToRaces`: a job that is not over has something queued or an open attempt,
  unless its graph has stalled or an older count was written over its end;
* `DeliversTheValidated`, and the action property `DeliveredSetFrozen`.

`AttemptsOK` numbers the attempts of a task and says which may be open; `GateOK` says
that validation is leased only after every encode has succeeded. `StepsOK` says what a
transaction in flight may have read and written: the next attempt of a queued task
(`LeaseOK`), or the end of an open one (`EndOK`), with a count that may be old but
claims no outcome that is not there (`WriteOK`). Validation is the last task to succeed,
so no older count can be written over a success; that, and what a request has read of
the job before it closes the set, is `JobOK`. `RegisteredOK` is the hinge: an encode
does not succeed unregistered and a registered output is not registered again, so the
rows are final before validation reads them, although workers that lost their leases are
still writing.

### The agent

For any number of outputs, any backoff and timeout:

* `RecordsAreTrue`: a recorded success has every output registered, and of stopped work
  neither success nor failure is recorded, although either may be reported. `CallsOK`
  says what a call under way, or its answer, may still tell either side;
* `LeaseKept`: if two renewal intervals and two calls fit into a lease (`RoomForTwo`),
  a worker whose calls are answered or fail within a tick keeps its lease while the
  executor runs, although one call is lost. This is an argument about time:
  `LeaseInvariant` keeps what is left of the lease above the time to the next renewal,
  its call, and one more interval while the loss is still to come.

The renewal interval is a third of the lease in the code, so `RoomForTwo` holds of
every lease of seven ticks or more; the default is nine. Prompt calls are a hypothesis
of the property and no promise of the client, whose timeout is two minutes.

### The registry

For any agents and names: `ServedWorkersStay`. If no heartbeat takes longer than the
interval, a worker that is alive and has lost at most one beat in a row is not stale.
`WithinBudget` bounds the age of a row plus the time to the next tick by one interval,
and one more for the lost beat; the third interval of `WorkerStaleAfter` pays for the
request on its way. The hypothesis is what "slow" means here: the HTTP client would
wait longer than the ten seconds between beats, and a heartbeat that does so can be
swept.

### Media execution

For any non-empty set of renditions, any number of attempts and faults, any helpers and
any grace period: `SuccessMeansWhole`, `VerdictsAreFair`, `RunsAreOver`, and
`TaskImplementsExecutors`, the refinement: with the goroutines of `Run` and a tool's
processes under it an executor does nothing that `Executors` does not allow.

`ExecutorInvariant` says of each executor where it can be, that from its first upload on
a file is stored or still to be sent, and for every class of failure what must have
happened for it to be returned. `VerdictsAreFair` is exact about who is fair: storage
trouble is a verdict in the three executors whose tool reads the source, and nowhere
else. `RunInvariant` says what each of the waits of `Run` has
established, and that nobody signals a tool whose context is live.

### What a player relies on

* `LinksKeepTheirPromise`: for any package in which every reference names a file of the
  set, and for any lifetime of whole seconds: only complete sets play, a link lives for
  its lifetime less a second, and access ends. `LinkInvariant` adds that a claim is the
  lifetime in whole seconds and that a request past `Verify` came before it had passed;
* `KeyframesKeepToTheGrid`: for every positive frame rate and interval. `GridInvariant`
  places the latest keyframe in the current segment, or on the frame before the forced
  one;
* `StripsAreRight`: for every duration, limit and number of columns;
* `GrowingFilesAreRight`: the last two along the behaviours of `FileSpec`;
* `RenditionsFitTheSource`, `RenditionsAreDistinct`: for every source of at least 2 x 2
  and every ladder of even rungs, the sizes `fit` gives are even, within source and rung,
  in the source's shape up to rounding, and different for rungs the source can fill. A
  source of one line is not covered: `even` never rounds below 2.

### Planning and validation

For every set of sources that ffprobe can describe (`Sources \subseteq Files`: any
number of streams of any kinds, sizes, rates, colours and side data in any order), any
of the four kinds of damage, and any number of damaged outputs:

* `PlansAreSound`: `PipelineSpec => []PlanIsSound`. Renditions descend and keep the
  source's shape, keys are unique, a task waits only for tasks before it, validation
  waits for every encode and expects its labels, packaging waits for validation;
* `VerdictsAreRight`: `PipelineSpec => []VerdictIsRight`. Outputs that are what was
  asked for pass if their format can be kept (`FormatIsKept`), and a set that passes
  has no damaged output if its source is longer than twice the tolerance.

`PipelineInvariant` is what the actions keep: the stored probe is that of the source,
the plan is what `Plan` returns for the job's preset and that probe, each output is an
encoding of its own configuration or a damaged one, and the verdict is that of the
checks over these outputs. TLC has confirmed it on the instance of `pipeline`. The
rest is about the operators:

* `FirstTrack`: the track the planner reads is the first of its kind among any streams;
* `FilledIsLoop`, `FilledIsKept`, `RungsAreChosen`: the loop of `rungsFor` keeps rungs
  of the ladder in their order, and with `RenditionsAreDistinct` this makes the sizes
  descend (`PlansDescend`). Existence of the recursive function and the induction over
  the rungs are arguments about a least counterexample again;
* `TaskList`, `TasksAreStaged`, `GraphsAreSound`: the task list is the encodes, a
  thumbnail task that waits for nobody, the validation, and the package behind it;
* `CompareChecks`, `OutputTracks`: `Compare` finds nothing exactly if each of its checks
  passes, and probing an output gives back the configuration it was made with.
  `HonestPasses` and `DamagedFails` follow for one output, and the theorem for the set.

### Only model-checked

Everything that must eventually happen (`TransactionsEnd`, `LapsedLeaseReclaimed`,
`SubmissionsAnswered`, `EveryoneServes`, `LostWorkStops`, `AttemptEnds`,
`StateFollowsHeartbeats`, `DrainEmpties`, `CancelEndsRun`, `LinkReachesEverything`):
liveness under fairness, and `ENABLED`, are out of this prover's reach. `GraphNeverStalls`
is violated, which TLC shows.

No module uses a recursive operator, so none of them is closed to proofs.

## 5. Plan

1. **Done**: every module of section 2, with its runs; the proofs of every invariant,
   action property and refinement that a passing run checks.
2. Left: proofs of the liveness properties, for which the prover would need rules about
   fairness and `ENABLED`.

### Not modelled

* Authentication, tenants: lookups and hashing, no protocol between actors.
* Assets: single inserts under unique names. What an upload makes of a version is in
  `Upload`.
* Observability, audit and configuration: written or read once, nothing depends on it.
* The detection of a worker's capabilities: part of `Eligible`, constant for a process.
* The S3 client, JSON, command lines, the text of manifests: conversions whose effect
  is in the modules that use them. ffmpeg and ffprobe themselves are external.
* Listing and reading handlers and HTTP routing: they change nothing.
* The graceful shutdown of processes: a process that ends is one that dies.
* The dashboard: a client of the API.
