# A verification model of ClipFactory's execution core

ClipFactory (`backend/`) turns long Arabic videos into clips through a chain of
stages.  Its hard part is not any stage but what holds the stages together: a
FastAPI process and Celery workers that share a Postgres database and a Redis
broker, deliver every message at least once, crash, retry and cancel, and share
one machine's memory between Whisper and Ollama.  This directory models that
part in TLA+, checks it with TLC on small instances and proves its main
invariants with TLAPS for every instance.

| module | what it is |
|---|---|
| `HeavyModelLease` | the Redis lease for heavy models, its callers and the recovery command |
| `ModelSlot` | the abstract slot the lease implements |
| `ClaimedStage` | the durable job protocol of the candidate-scoped stages (4.1, 4.2, 5.1) |
| `UnclaimedStage` | the job protocol of Stages 3.5 and 4.0, whose jobs carry no claim version |
| `GeminiAdmission` | the admission gate all hosted Gemini calls share |
| `PipelineRunner` | the whole-source chain: runner, Celery task, API requests |
| `RenderExecution` | Stage 5.2: the render queue, executor and publication |
| `Materialization` | Stage 6: one generation from request to reviewable clip, with its provider calls, renders and repair |
| `FencedJob` | the abstract job that `ClaimedStage`, `RenderExecution` and `Materialization` implement |
| `MC*` | values of the constants and symmetry sets for TLC |
| `*Proofs` | theorems about the module of that name |

## 1. Inventory of the system

Paths are relative to `src/backend/app/`.

| component | state it keeps | operations | interacts with | hard behaviour |
|---|---|---|---|---|
| HTTP API `api/app.py` | none of its own; job rows | process, restart, retry, cancel, queue requests of every later stage, uploads, reads | database, sends Celery messages after commit | cancellation read then written; a commit whose message is lost |
| Celery tasks `workers/tasks.py`, `celery_app.py` | broker messages, retry counters | one task per stage; late acknowledgement, prefetch 1, concurrency 1 | runner and executors | redelivery, crash between commit and acknowledgement, bounded retries |
| pipeline runner `pipeline/runner.py` | `processing_jobs`, `pipeline_runs`, `source_videos.lifecycle_state` | skip, begin, succeed, fail | stage executors, database | stale copies in its session; run rows shared by overlapping deliveries |
| stage executors `pipeline/stages.py`, `candidates/executor.py` | artifacts, transcripts, analyses | fingerprint of the input, execute, `skip_is_allowed`, cancellation poll | lease, providers | outputs committed before the runner's commit |
| heavy-model lease `runtime/heavy_model_lease.py`, `cli.py recover-heavy-model` | two Redis keys, flags of a lease object | acquire, renew, retain, release, mark unsafe, recover | spawned child processes, Ollama | two threads per lease, TTL, partial failure, recovery beside work |
| model subprocess `runtime/model_process.py` | a child process | run, cancel, reap | lease | a child outliving its lease |
| Stage 4.1 planning `transformation/planning` | plan set row (`execution_status`, `active_job_id`), job (`status`, `claim_version`, `heartbeat_at`) | queue, claim, heartbeat, fenced writes, record failure | API, tasks, providers | everything: see `ClaimedStage` |
| Stage 4.2 governance, 5.1 composition | the same shape | the same protocol | Stage 4.1 outputs | 4.2 re-sends the message of a stale job |
| Stage 3.5 refinement, 4.0 eligibility | refinement and analysis rows, jobs | queue, run; job written by the task wrapper | providers, Gemini admission | unfenced job writes |
| Gemini admission `refinement/admission.py` | Redis window counter and cooldown | admit, cool down | all hosted providers | shared limit at window boundaries |
| Stage 4.3 selection, 5.0 render contract | selection, contract rows | synchronous handlers on locked rows | 4.2, 5.1 rows | staleness between read and lock |
| Stage 5.2 render execution `render/execution` | render row, job, admission rows | queue, re-dispatch, optimistic claim, heartbeat, publication | Postgres locks, ffmpeg | publication racing upstream changes |
| Stage 6 materialization `materialization` | envelope row (`lifecycle`, `active_job_id`, `claim_token`, repair, forward binding), ledger of provider attempts, jobs | POST, resume, cancel, prepare, hand-off, callback, finalize | Stage 5.2, providers, API | two tokens per delivery, a lock released half-way, a callback that may be lost |
| algorithms: transcription, reconstruction, scoring, captions, tracking | none | pure functions and provider calls | | text and floating point |
| services, media adapters, settings, models, migrations | files, columns | I/O and declarations | | |
| web front end `frontend/src/lib/produce-runner.ts` | a browser session | drives all stages by polling | API | sees a failure while a retry is pending |

What makes each correct:

* lease: heavy models exclude each other, as long as no TTL runs out and nobody
  recovers a busy system; a key is only taken from its owner by release, expiry or
  recovery; a loss ends its child, keeps its result out and closes the gate.
* claimed stage: a claim has one holder; a superseded or cancelled delivery
  writes nothing; a queued job keeps its row; runs end (in Stage 4.2).
* render: an attempt is published once, by its owner, from the upstream rows as
  they then are.
* refinement and eligibility: one delivery works on an analysis at a time; every
  job that was sent ends; manual text stands (it does not: section 4).
* Gemini gate: the calls of a window stay within the budget, and no priority eats
  the reserve of a higher one.
* materialization: an envelope has one owner; no provider call is paid for twice;
  what becomes reviewable is the render of the present revision; a generation
  that is asked for again goes on.
* pipeline: only up-to-date stages are skipped; run rows tell the truth; a
  request reaches the last stage; cancellation sticks.

`PROJECT.json` lists the components with what is modelled of each, and the
hazards of the code line by line with the property that covers each.

## 2. Plan

Done: 1. the lease (everything depends on memory being shared safely),
2. the claimed job protocol (three stages run it), 3. the pipeline chain,
4. `RenderExecution` (optimistic claim, heartbeat-loss latch, publication under
row locks, failed dispatch and re-dispatch), 5. `Materialization` (envelope
ownership, ledger of provider calls, hand-off, callback, finalizer),
6. `UnclaimedStage` (Stages 3.5 and 4.0, whose task wrappers write the job without
a fence), 7. `GeminiAdmission` (window counter, reserves, cooldown), 8. `FencedJob`
and the proofs that the three fenced protocols implement it, 9. a theorem for
every safety property the runs check.

Next, in this order:

10. Selection and render contracts (4.3, 5.0): stale reads against locked rows;
    a composition of 4.1, 4.3 and 5.2 for a planning rerun racing a render.
11. Bounded checks of pure algorithms (chunking, batching, timelines) against
    reference definitions.
12. The front end's produce-runner as an actor on `PipelineRunner`.
13. Proofs: who may hold the row of a claimed stage when jobs are retried but not
    cancelled; `RunIsDriven` with cancellation, restricted to jobs not cancelled.

## 3. The modules and the code

### HeavyModelLease

A lease object makes one acquisition attempt, so it stands for its token.
`key` and `unsafe` are the two Redis keys; each Redis script is one step.  Every
lease has two threads: the caller (`pc`: acquire, model call, unload, retain,
release) and the renewer (`renewer`: sleep, check flags, Redis call, marker).
`RenewCheck` and `Renew` are separate steps because the flags are read before
the Redis call; `Release` and `DeleteKey` because the caller joins the renewer
for half a second in between.  `lost` and `retained` are the flags of the object.
`Kind` says which caller owns a lease: Whisper and the benchmark spawn a child
that is reaped before release, and hand the lease the event that makes the parent
stop the child (`CancelEventSet`, `StopChild`); the re-transcription of Stage 3.5
("targeted") only reaps its child; the Stage 2.7 provider unloads and checks the
Ollama model, and retains the lease when it cannot; the local providers of the
later stages ("planner") unload nothing.  `FinishCall` is a call that ends by
itself, and looks at the loss before its result is kept.

`Faults` names what the environment may do: expiry of the TTL of a live lease,
late renewals, Redis errors, crashes, an unwritten marker, an operator who
recovers while others work.

`ConfirmNotResident` and `Recover` are the command `recover-heavy-model`.  The
command only asks which models Ollama lists: it never looks whether a caller is
between its acquire and its release.  `OperatorWaits` is the assumption that who
runs it by hand does look; it belongs to the environment and not to the code, and
"hastyOperator" drops it.  Exclusion and the refinement of `ModelSlot` rest on it.

`ModelSlot` is the promise when nothing but the marker write fails and the
operator waits: a slot, a gate, and work that is inside only in the slot.  `SlotRefinement` states that the
lease implements it (slot <- key, closed <- marker present, inside <- models
resident).

### ClaimedStage

One row (a plan set), several jobs.  A client is an API request inside the queue
function: load the row, look for an active job, clear a claim left by a finished
job, insert a job and claim the row by compare-and-swap, send the message after
the commit.  A worker is a Celery delivery: wrapper check, cancellation check,
claim of the job with `claim_version + 1`, a second transaction that reads the
token back, checks, claim of the row, work, fenced persist, finish, and the
failure path with the wrapper's `record_failure`.  A step is one transaction or
one read.

The session's `expire_on_commit=False` matters: attributes are what the session
loaded, and a flush writes only what differs from that.  `copy` keeps the loaded
row and `WriteRow` writes the difference; after a rollback every attribute is
written (`OverwriteRow`).

`RecoverStale` selects the queue of Stage 4.2, which sends the message of a stale
RUNNING job again.  `stale` stands for the age of the heartbeat: `Heartbeat`
removes a job from it, `GoStale` adds it when no live delivery beats (or, with
"stall", when one is too slow).

Abstractions: planning, governing and composing are one step that ends well,
cancelled or badly; PROVIDER_DEGRADED counts as COMPLETE; fingerprints and force
are a free choice between cached and not.  The API's `retry_source` is left out: it
sets the latest job of a source, when it is FAILED or CANCELLED, back to QUEUED
whatever stage it belongs to (renders excepted), and sends the source to INGEST.
A job of this module, of `UnclaimedStage` or of `Materialization` so requeued has
no message of its own, and a cancelled one would no longer be final.

### UnclaimedStage

One row (a candidate's refinement or its eligibility analysis), several jobs, no
claim version.  `setting` is the situation a behaviour is about: the stage, the
clients at work and the faults that may happen.  A request loads the row, looks
for an active job (`QueueLook`), in 4.0 takes off the claim of an ended job
(`QueueClear`), inserts the job and claims the row in one transaction
(`QueueInsert`: 4.0 by compare-and-swap, going round at most twice; 3.5 writes
whatever the row holds) and sends the message (`QueueDispatch`).  The task wrapper
writes the job (`MarkRunning`, `Finish`, `FinishFailed`), the executor the row
(`Load`, `Check`, `Claim`, `Work`, `Persist`, `NoticeCancel`, `Fail`); neither
asks whether the job is still its own.  As in `ClaimedStage`, `copy` is what the
session loaded and `Flush` writes the columns that differ from it.
`ManualRequest` and `ManualSubmit` are the operator's transcript of a refinement.

Two facts worth knowing.  The cache test of 3.5 (`Cached`) ignores both `force`
and the status of the row.  3.5 has no compare-and-swap, although
`docs/STAGE_3_5_OPERATIONS.md` speaks of an atomic claim; two jobs of one
refinement are possible.  In 4.0 one delivery works at a time until a crash or a
retried failure brings a job back whose row was given away.

Abstractions: left out are a request that dies between its commit and its
message, a fingerprint or a persist that raises, an executor whose construction
raises before the task's handlers are in place, and `retry_source` (each of these can leave a job
unended, so `JobsEnd` is about jobs whose message was sent); a batch request is a sequence of single ones; the manual text is submitted once.

### GeminiAdmission

Stages 2.7, 3.5, 4.0, 4.1, 4.2, 6 and the candidate analysis ask one gate before a
hosted call.  Time is counted in ticks, `Window` to a window.  `Ask` computes the
window from the clock; the Lua script (`Admit` or `Refuse`) runs in a later step,
perhaps in a later window: a request that reaches Redis after its window is
counted in the old key, which may have expired, and `taken` leaves it out.
`used`, `ttl` and `cool` are the Redis keys, `Ceiling` the counter below which a
priority is admitted.  `RateLimited` and `RecordRateLimit` set the cooldown.

Abstractions: no caller hands a Retry-After over, so a cooldown always has its
configured length; `record_exhaustion` has no caller; the Stage 4 callers never
record a rate limit, which is one of the behaviours (`Done` after `Admit`).

### FencedJob

What the job protocol of Stages 4.1, 4.2, 5.1, 5.2 and 6 promises, with none of its
rows, messages or heartbeats: a job is inserted, claimed again and again, each
claim superseding the last; only the holder of the newest claim of a RUNNING job
ends it or publishes a result; the API cancels; deliveries leave.  The three
modules each define `Job == INSTANCE FencedJob WITH ...`: `holder[j]` is the set of
deliveries whose token is the job's present version (in `ClaimedStage` also one
that has claimed and not read its token yet), `published` the row that is
COMPLETE, the render rows that are COMPLETE, the reviewable generations.
`JobRefinement` says that the stage implements it.

### PipelineRunner

One source, stages numbered along `_NEXT_STAGE`.  `runs[s]` is the sequence of
`pipeline_runs` rows of a stage; `input[s]` and `output[s]` are versions: what the
stage's input fingerprint is of, and what its output was made from.  A delivery
goes through `Deliver` (the wrapper's check), `Skip` or `Begin`, `Produce` or
`ExecutorRaises`, `Succeed` or `PersistFailure`, then `Schedule` or `Retry`.
`copy` and `seen` are the job's status and the lifecycle as the session loaded
them, for the same reason as above.  Stages in `Deferred` (INGEST, PROBE) leave
their output to the runner's commit; those in `Polling` (reconstruction,
candidate analysis) read their job's cancellation and may refuse to be skipped.
Requests are process, restart (retranscribe, reconstruct, candidate analysis),
retry of the latest job, and cancel; each commits its job and then sends.

Abstractions: `Begin` reads and commits in one step, so two first attempts cannot
collide on the unique attempt number; an executor does not fail after committing
its own output; operators do not edit inputs by hand; a chained message carries
no job, as in the code.

### RenderExecution

`Inputs` are request fingerprints of one (candidate, purpose, profile): the table
has one row for each, `current` is the one with `is_current`, `live` what the
upstream rows would give now.  A client runs `queue_render_execution` step by
step (envelope, look for an active job, clear a stale claim, cached answer,
insert and claim in one transaction, send after the commit, mark a failed send,
re-send a marked job).  A delivery reads the job, claims it with one UPDATE fenced
on the version it read, rebuilds the request, waits for the advisory lock
(`admission`), begins the attempt, encodes and checks while its heartbeat thread
may set the sticky `lost` latch, and then publishes: upstream rows locked
(candidate, contract, selected plan, final refinement and visual plan: `lock`),
request rebuilt, ownership rechecked, row, artifact and job written in
one transaction.  Cancelled, blocked and failed attempts write the row and the
job in two commits, as in the code.

`Fence` is the WHERE clause of every write of the executor: newest claim of a
RUNNING job that the row is bound to.  The artifact is named by job and claim,
like the attempt directory it points into.

Abstractions: the race for the unique current index against any other request
is the free choice `QueueEnvelopeRaced`; an edit of the locked rows waits, one of
what the rebuild reads besides (governance rows and media files behind the
contract's freshness, the materialization of a TRANSFORMED_SHORT) does not and is
the fault "looseEdit", which no passing run admits; compilation, FFmpeg and QC end well, badly, or by a stop; orphaned
attempt directories are not modelled.

### Materialization

`Inputs` are input fingerprints of one (candidate, profile); each has at most one
envelope, a row of `clip_materializations`, one of which is `current`; `live` is
the fingerprint of the upstream rows as they are.  `Post`, `Resume` and `Cancel`
are requests: they hold the candidate's lock, so each is one step, up to the
commit that starts a hand-off of the render and releases the lock; `RequestBinds`
and `RequestDelivers` are the rest of it.  A delivery (`Deliver`) reads its phase
from the envelope, claims the job (`ClaimJob`), reads the claim back in a second
transaction (`ReadToken`), and takes the envelope (`TakePrepare`, `TakeFinalize`),
which gives it a second token, the envelope's `claim`.  A job made for inputs that
are no longer live is first moved to the envelope of those that are (`Rebind`), in
a commit that asks for no token: a superseded delivery can make an old envelope
current, but not own it.  `OwnedBy` is `owner_is_current`: both tokens.  A preparation goes
through the gateway of durable requests: `Prepare` reserves an attempt in
`ledger`, `Call` is the provider, `Record` the response with the checkpoint
(`accepted`), `Decide` the look at upstream, `Commit` the new revision; then
`HandOffQueues`, `HandOffBinds` and `HandOffDelivers` queue its render.  The
render task is `RenderBegins`, `RenderEnds`, `RenderCancelled`; its callback is
`CallbackReads` and `CallbackBinds`, two transactions.  The finalizer is `Assess`
(the checks without locks) and `Publish` (the same under locks); a render that
failed on its peak level is repaired once.  `Recover` is the recovery of a
completed generation that no longer verifies: its render is queued again, or, when
only the assessment is gone, a finalizer over the same render ("decay" is the fault
that spoils them).

Abstractions: an executor whose construction raises is left out, like
`retry_source`; the finalizer's reads without locks and its guarded disposition are one step except
before a publication; at most one request is between the two halves of its
hand-off; heartbeats only appear as their absence (`GoStale`, while a claim may
read it); a hand-off of a request that fails is rolled back whole and is no step; one provider component
stands for all, with a budget of calls for the envelope; callbacks are a set, as
two of one render coalesce; the reuse of a COMPLETE envelope whose fingerprint
comes back is the answer `Nothing`.

## 4. Runs

Passing runs:

| run | instance | what it shows |
|---|---|---|
| `lease_safe` | Whisper, Stage 2.7, benchmark, re-transcription; failing unloads and marker writes; an operator who recovers and waits for callers at work | two heavy models are never resident together (`AtMostOneResident`); the lease implements `ModelSlot` |
| `lease_fair` | Stage 2.7 and the benchmark; early expiry, late renewals, Redis errors, crashes; fair threads, calls of any length | what survives the loss of a lease: an old token deletes nothing (`OwnerKeepsKey`), a call known to be lost keeps no result (`LostCallKeepsNothing`), nobody acquires beside a reported loss still at work (`NoWorkBesideALoss`), the cancel event ends the child (`LostChildStops`) |
| `stage_fence` | 1 job, 2 deliveries, every fault but "claimStall", Stage 4.2 queue, an operator who keeps asking | one holder per token (`SingleOwner`); superseded deliveries are inert; the stage implements `FencedJob`; every run ends, which is the promise of 4.2 alone; a cancelled job gives its row back |
| `stage_queue` | 3 jobs, 2 deliveries, 2 concurrent requests that may die before they send | concurrent queueing: one worker per row, a queued job keeps its row though its message be lost (`QueuedJobHoldsRow`), no stolen claim |
| `unclaimed_stage` | 2 jobs, 2 deliveries; 2 concurrent requests, or one mishap of any kind, or an operator's text | without mishaps one delivery works on an analysis; over a crash, a redelivery, a retried failure or a cancellation every job ends |
| `gate_budget` | 2 callers of any priority, 2 windows of 2 ticks, budget 3 = 1 + 1 + 1 | the budget of a window is kept and a reserve is worth its calls, whatever expires or dies |
| `pipe_overlap` | 2 stages, 2 deliveries, redelivery, crash, failures, forced restarts | run rows and lifecycle under overlapping deliveries |
| `pipe_live` | 2 stages, restarts, inputs that change, crash, retry, cancellation, two requests, fair worker | a skip is always of a fresh output; the chain completes or stops at a recorded failure; the system comes to rest |
| `render_safe` | 2 inputs, 2 jobs, 2 deliveries, 1 client, any two of all faults | rendering implements `FencedJob`; a bound row is written only by its owner; an artifact is there just when the row is COMPLETE, and was published from the locked upstream rows as they then were |
| `material_safe` | 2 inputs, 2 jobs, 2 deliveries, stalls after the token read, renders that decay and one other fault of any kind | one owner per envelope; the ledger of provider calls is never overspent; an owned envelope changes by its owner only; what becomes reviewable is fresh; the stage implements `FencedJob` |
| `material_live` | 1 input, 3 jobs, 1 delivery, lost callbacks and refused sends, an operator who asks again | a generation that is asked for is settled, and its repair is spent at most once |

One run ends in a violation, a sentence of the code's own comments and of its
documentation that the code does not keep:

| run | sentence | what happens |
|---|---|---|
| `pipe_cancel` (`CancelledStays`) | "keep the job cancelled, never overwrite it as successful or failed" (`pipeline/runner.py`; `docs/STAGE_2_7_OPERATIONS.md` says the same of the reconstruction stage) | the runner writes SUCCEEDED from the copy it loaded; in the trace the stage is INGEST, and a reconstruction cancelled after its last poll meets the same |

Further configurations, kept for reading a counterexample (`tlc -config X.cfg
MCModule`), each with the sentence it disagrees with or the condition it shows
to be needed:

| configuration | property | what its counterexample shows |
|---|---|---|
| `lease_hasty` | `RecoverySparesValidLease` | recovery run beside working leases deletes a valid one: the command only lists models and the script only tests the marker ("recovery never deletes a valid newly acquired lease", `docs/ENVIRONMENT.md`, `docs/STAGE_2_7_OPERATIONS.md`) |
| `lease_expiry` | `AtMostOneResident` | between the end of a TTL and the renewer's next turn a second model is loaded (the marker that blocks it comes with that turn, `docs/STAGE_2_7_OPERATIONS.md`) |
| `lease_marker` | `MarkerMeansActiveWork` | a renewal that overlaps a normal release marks the environment unsafe ("lost while work is active", `docs/ENVIRONMENT.md`) |
| `lease_planner` | `UnloadBeforeRelease` | local planning providers release with the model resident (Stage 2.7 recovery design, "never released before unload is confirmed") |
| `stage_wedge` | `RunEnds` | with the queue of Stage 4.1 the redelivered message comes while the heartbeat is fresh and is dropped as a duplicate; no later request sends another ("a run abandoned by a crashed worker is reclaimable once its renewable heartbeat goes stale", `docs/STAGE_4_1_OPERATIONS.md`) |
| `stage_lost` | `QueuedJobIsDelivered` | a request that dies before its send leaves a job QUEUED that nobody runs and that answers every later request |
| `refine_manual` | `ManualTextStands` | a refinement that loaded its row before the operator's transcript writes its automatic text over it ("Automated work never overwrites or removes manual text", `docs/STAGE_3_5_OPERATIONS.md`) |
| `stage_two_active` | `OneActiveJob` | a pending retry makes a second active job ("at most one active job", `docs/STAGE_4_1_OPERATIONS.md`) |
| `stage_clobber` | `NewerClaimKeepsRow` | a job cancelled while queued clears the claim of a newer one |
| `stage_token` | `SingleOwner` | a stall of the whole stale window between claim and token read shares the token |
| `pipe_lifecycle` | `ProcessedIsReady` | processing a URL source again leaves the lifecycle behind |
| `pipe_queued` | `QueuedJobIsTaken` | the job of a skipped stage stays QUEUED |
| `render_cancel` | `CancelledRunIsFinalized` | a cancellation that commits between the last poll and the failure write leaves the row RENDERING and bound ("releases `active_job_id`", `docs/STAGE_5_2_OPERATIONS.md`) |
| `render_live` | `FailedDispatchRecovers` | holds: a recorded dispatch failure is sent again when the request is repeated, unless its input is no longer live |
| `render_loose` | `PublishedInputIsLive` | what a rebuild reads outside the locked rows changes before the commit: the publication completes on superseded inputs |
| `material_token` | `OwnerKeepsEnvelope` | a stall between claim and token read shares the job's token, and the second delivery takes the envelope from an owner whose job still runs |
| `material_wedge` | `PendingFinalizationRecovers` | a finalizer that raises leaves its job bound, and later requests send nothing ("a lost callback is recoverable through POST/resume", `backend/app/workers/tasks.py`, and the production architecture) |
| `material_revive` | `CancelledStays` | a job queued before the cancellation takes the envelope again ("nothing silently regenerates", `materialization/queue.py`; "the finalizer must not revive cancelled output", production architecture) |
| `material_active` | `ActiveRenderIsKept` | a failed render that was queued again still reads FAILED: the generation is closed over it ("never finalize a still active render", `materialization/queue.py`) |
| `material_bound` | `ReadyIsBound` | a late hand-off overwrites the binding of a published generation |

### Bounds

* Leases: four objects cover the kinds of caller that exclude each other; two are
  enough for a lost lease and the one acquired beside it.  Each attempts once.
  The theorems below remove the bound.
* `MaxClaims` stops faults (not progress) once a job has been claimed that often;
  three claims give a superseded delivery, its successor, and a successor of that.
  `MaxMessages` is the number of waiting messages of a job: two, so that a
  redelivery and a retry can both be pending.
* `stage_fence` has two claims of its job and one waiting message, every fault and
  two deliveries: a superseded delivery beside its successor, under each of them.
  `render_safe` spends two faults.  The theorems remove these bounds.
* `unclaimed_stage`: two jobs, two deliveries and two clients make every pair of
  claims of the row; `MaxMishaps` is 1 because each mishap is already
  met by every step.  `gate_budget`: a budget of one call per group of priorities
  puts every ceiling in reach of two callers; two windows give a late request.
* Two deliveries are enough for every race of a token or of a run row, which are
  pairwise.  Three jobs let a claim pass from a finished job to two others.
* `MaxJobs`, `MaxRequests`, `MaxMishaps`, `MaxInput` bound the pipeline's
  environment.  In `pipe_live` `MaxJobs` is above what its requests, retries and
  crashes can create, so that it never stops a worker; one delivery, as deployed
  (`--concurrency=1`).  With two overlapping chains `ProcessedIsReady` fails the
  way `pipe_lifecycle` does.
* `material_safe` has one fault besides stalls and decay: with two inputs and two deliveries
  every fault meets every step of an owner, and the theorems remove the bound.  `material_live`
  has three jobs (a preparation, a finalizer, and the finalizer of a repair);
  `RequestIsSettled` says nothing once the third is used.
* Deadlock is not checked: every module may come to rest (no request arrives, all
  attempts used); liveness properties say what must not rest.

### Fairness

* Lease: the caller's and the renewer's threads run (weak fairness), but a model
  call need not end by itself (no fairness of `FinishCall`): what ends the child of
  a lost lease is the cancel event.  Nothing is promised of the operator, of expiry
  or of crashes.
* ClaimedStage: begun requests and deliveries proceed, waiting messages are
  delivered, the heartbeat of a dead worker grows old.  `PersistentSpec` adds an
  operator who keeps asking the queue; `RunEnds` needs it, since nothing else in
  the code restarts an abandoned run.
* UnclaimedStage: requests that have begun end, and worker processes take the next
  message and run it (`--concurrency=1`, late acknowledgement); no mishap is
  promised.
* PipelineRunner: committed requests send, workers work.  Requests, crashes and
  errors are never promised.
* RenderExecution: requests and deliveries that have begun go on (`FairSpec`);
  `PersistentSpec` adds an operator who repeats the request, does not lose every
  race for the current row and finds the broker up now and then.  The safety run
  assumes nothing.
* Materialization: deliveries, messages, renders, callbacks and begun hand-offs go
  on; an operator who waits asks again (`WF` of `Post(FALSE)`): the code has no
  timer of its own, as its documentation says.

## 5. Proofs

`tlapm` checks every theorem to its last leaf.  Every safety property that a passing
run checks is stated by a theorem, for any number of jobs, deliveries, requests
and rows.

* `FencedJobProofs`: a fenced job has one holder at most and none before its first
  claim; a job that succeeded or was cancelled is not run again; a result
  appears by the holder of a RUNNING job.  Every stage below inherits this.
* `HeavyModelLeaseProofs`: type correctness under any faults.  Under `Undisturbed`
  (no fault but the unwritten marker, hence an operator who waits, and no "planner"
  caller) `SlotInv` is inductive and gives exclusion and the refinement of
  `ModelSlot`.  Exclusion alone is not inductive: one must know that a lease in use
  holds the key with a live renewer, that a model stays resident after its call
  only under a retained lease, and that between the two halves of a recovery
  nothing is in use.  `OwnerKeepsKey` and `LostCallKeepsNothing` need no assumption (the latter
  the invariant `LossIsSeen`: a renewer that ends under a lease in use has set the
  flag).  That nobody acquires beside a reported loss (`LossStopsNewWork`) needs the
  marker to be written and recovery to be run as its guide says (`LossIsReported`),
  with expiry, errors and crashes allowed; its invariant `LossInv` says that a lease
  lost in use is in the marker once its renewer has ended.
* `ClaimedStageProofs`: type correctness under any faults; `TokenInv` is inductive
  when nothing stalls between a claim and the read of its token (`TokensAreRead`),
  and gives `SingleOwner` and `SupersededIsInert`.  Its core: a delivery between
  claim and read is the only one at its version and its job cannot go stale.
  `CancelledIsFinal` and `CompletionIsFenced` need no assumption.
  `OneRowWorker`, `QueuedJobHoldsRow` and `NewerClaimKeepsRow` hold while no job gets a second message
  (`JobsRunOnce`: no crash, redelivery, retry or cancellation, and with the queue
  of 4.2 no run that grows stale; stalls and failed writes elsewhere are allowed,
  and lost sends everywhere).
  The row itself has no fence, so the argument is one of places: `RunOnceInv` says
  that a live job is in one message, one request about to send it, or one
  delivery at most (`OnePlace`), that its status tells which (`StatusOfPlace`), and that it
  holds the row from its insertion to the write that ends its run (`RowHeld`).
  The assumption is what the code needs: a retry, crash or redelivery claims a
  FAILED job again after its row was given to another, and a cancellation lets a
  delivery clear the claim of a newer job (`stage_clobber`).
* `UnclaimedStageProofs`: type correctness, and `OneRowWorker` in the settings it
  speaks of, by the same argument without tokens: a live job is in one place, and
  the compare-and-swap gives it the row (`QuietInv`).
* `GeminiAdmissionProofs`: budget and reserves for every policy, any number of callers
  and windows of any length.  `GateInv`: the counter of the present window is
  exactly the sum of what each priority was given (`Counted`), since its key
  outlives the window (`Kept`) and no request is early (`Ahead`).
* The fenced job is implemented by `ClaimedStage` and `Materialization`
  (`ImplementsFencedJob`, under `TokensAreRead`, since Stages 4.1, 4.2, 5.1 and 6 read
  the token back after the claim's commit) and by `RenderExecution` (under every
  fault: the claim of 5.2 is one fenced UPDATE).  Every action is shown to be an
  abstract step or a stutter, by lemmas that say what it does to the holders.
* `PipelineRunnerProofs`: type correctness, `OnlyLatestRuns` (inductive
  as it stands: a new row is only opened above a succeeded one, and every other
  write to a row is a final status), `LifecycleIsEarned` (strengthened by: a
  delivery about to succeed has the outputs its stage reads, and its own unless it
  is deferred), and `RunIsDriven` without
  cancellation: the message of a cancelled job is dropped, and a crash then leaves
  the row RUNNING.  `SkipIsFresh` holds as long as no two deliveries of one stage
  are under way (`StagesApart`), which one worker guarantees: two that overlap
  share a row, whose fingerprint is then the later one's while the output may be
  the earlier one's.  `FreshInv`: the fingerprint of a row is of an input the stage
  has had, and a run about to succeed on the input the stage still has has left the
  output made from it.
* `RenderExecutionProofs`: type correctness and all five safety properties of
  `render_safe`, for any number of inputs, jobs, clients and deliveries and under
  every fault.  `SingleOwner` is inductive by itself once each claim is known to be
  at most the job's version.  `OwnerKeepsRow` needs `BindInv`: a row is bound only
  to a job of its own input, and a client that is to clear a claim has seen its
  job ended.  `PublishedInputIsLive` needs the lock: a delivery
  between rebuild and commit holds it, so `live` is still the input it rebuilt; it
  assumes that what a rebuild reads is in the locked rows (`LockedEdits`).
* `MaterializationProofs`: type correctness, `SingleOwner`, `CallsAreSafe`,
  `PublishFresh` and `RepairIsSpent`, for any number of inputs, jobs and deliveries and
  under every fault.  `StepKinds` sorts the steps by what they do to a delivery
  (nothing; it goes on, prepares, ends, takes its envelope, claims its job, reads
  its token), so that each part of the invariant is argued once per kind.
  `ClaimInv` (a claim is at most the envelope's, and given once) is inductive and
  gives `SingleOwner`; `LedgerInv` (the holder of the last claim that calls has
  reserved the last attempt) makes `CallsAreSafe` inductive; `NoneInv` says that an
  envelope not yet created has no past.
  `OwnerKeepsEnvelope` and the refinement of `FencedJob` assume `TokensAreRead`: no
  delivery stalls for the stale window between its claim and the read of its token.
  `TokenInv` then says that a token of a job is given once, and that a claim not yet
  read is the newest and cannot go stale; `CountInv`, that a delivery has a token
  just when it is past that read (a failed one perhaps).  Without the assumption
  both fail, `material_token`.

Only model-checked: liveness under fairness (`LostChildStops`, `RunEnds`, `CancelledRowIsFreed`, `JobsEnd`, `ChainCompletes`, `Quiesces`,
`RequestIsSettled`), which is outside the prover's reach, and the counterexamples of
section 4.  No module has a recursive definition.

## 6. Not modelled

Stages 4.3 and 5.0 and the front end are planned (section 2).  File, network and
media adapters, settings and migrations have no protocol of their own.
Transcription, reconstruction, scoring, captions and tracking compute on Arabic
text and floating point; their results enter the models as versions of an output.
Of Stage 6 the content of an assessment, the hashing of artifacts, the TTS and
editorial components and the refusals of a message that names the wrong envelope
are left out.
