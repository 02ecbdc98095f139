# Verification of spur-api

spur-api is an HTTP service around the railway simulator `spur`: clients store
projects, submit simulation runs of them, and poll for results. An API process
(FastAPI), a number of worker processes (arq) and two stores (Postgres, Redis) share
the work. This directory holds TLA+ modules of that system, TLC configurations
that check them on small instances, and proofs that TLAPS checks for every value
of the constants.

Paths below are relative to `src/spur_api/`.

## Inventory

| Part | State it keeps | Operations | What is hard | What makes it correct |
|---|---|---|---|---|
| Project store (`services/projects_service.py`, `routers/projects.py`) | `projects`: spec, `version`, `inputs_version` | create, get, list, replace, delete | saves at the same time, answers lost after the commit, a refresh after the lock is gone, pages of a list that changes, a deletion against submissions | no save lost or overwritten unseen; `inputs_version` tells which runs are out of date; a deletion leaves nothing behind |
| Scenarios (same file) | `base_project_id` | create from a base, delete | the base is read before the scenario is inserted, and may go | a family is one base and its scenarios, and scenarios outlive the base |
| Comparison of specs (same file) | none | `_without_nulls`, `_inputs_differ` | nulls and absent keys mean the same, at any depth, null items and empty sections do not | a save is an edit exactly if a simulation reads something else |
| Run submission (`services/runs_service.py: submit_run`, `schemas/run.py`) | `simulation_runs` rows, jobs in Redis | validate, draw seeds, insert a batch, enqueue, record job ids | two stores without a common transaction, rows locked during the loop, deletions meanwhile, seeds at the end of their column | a run's snapshot is the version it names; every queued run has a job; a batch can be replayed |
| Run requests (same file) | the same rows | get, list, rename, cancel, delete | each loads, changes and commits the row that the worker writes too | an early cancellation is honoured, no request undoes another, a deletion leaves nothing behind |
| Run results (same file) | `run_events` (read) | events in pages, summary, visits | the run goes on between two statements and between two requests | pages join up; a summary with a verdict is complete |
| Worker task (`worker/tasks.py`) | the row and the events, through one session | `run_simulation`, `on_chunk`, `is_cancelled` | jobs delivered twice, cancelled, timed out; the row deleted under it | stored events are the beginning of the stream; verdicts are true; a run is never stuck |
| SpurRunner (`worker/runner.py`) | the model's clock, `events_batch` | build, chunk loop, final flush | every exit of the loop must leave the batch flushed exactly once; zero, negative and overlong chunks | every event is stored once, in order; the clock meets the target |
| Queue and workers (`worker/settings.py`, arq) | jobs, in-progress keys, retry counters | deliver, retry, give up, time out, shut down | a worker dies, a lease outlives or is outlived by its worker | no run is forgotten or executed by two workers at once |
| Data model (`db/models.py`, `alembic/`) | the tables | unique index on `(run_id, seq)`, `ON DELETE` rules, widths | they are what several attempts and deletions finally meet | as above |
| HTTP layer and keys (`main.py`, `auth.py`, `exceptions.py`, routers) | settings | preflight, middleware, API keys, status of every exception | the order of the stages: preflights carry no key, bodies are parsed before the key is checked, some answers are written outside the CORS middleware | nobody is served without a key that is asked for; pages of allowed origins get in and can read their answers |
| Configuration, sessions (`config.py`, `db/session.py`, `deps.py`) | settings, the engine | read at startup; one session per request or job | a session's copy of a row grows old | as for run requests |
| Validation, catalog, health (other routers) | none | answers of the spur library, probes | nothing of their own | they are part of the HTTP layer |

How they interact: the API commits rows to Postgres and then puts jobs into Redis;
arq leases a job to a worker; the worker loads the row, executes `SpurRunner.run`, and
commits after every chunk; it re-reads `cancel_requested` before every chunk, which
is the only message from the API to a running job. Clients see rows and events
only. Postgres runs at READ COMMITTED: every statement sees what is committed when
it starts, and an update or a `FOR UPDATE` waits for the row.

The places where something can go wrong that a test would hardly reach are listed
as hazards in `PROJECT.json`, each at its line and with the properties about it.

## Modules

| Module | Models | Checked by | Proofs |
|---|---|---|---|
| `RunExecution` | a run from submission to verdict: `submit_run`, `request_cancel`, `delete_run`, arq, `run_simulation`, `SpurRunner.run`, and the faults around them | `MCRunExecution`, 5 configurations | `RunExecutionProofs`, `RunDeliveryProofs` |
| `RunLifecycle` | abstract: what a client is promised of a run | implemented by `RunExecution`, used by `RunResults` | by `RunDeliveryProofs` |
| `ChunkLoop` | `until`, `chunk_size`, the target and the checkpoints | `MCRows` | `RunRowsProofs` |
| `SeedBatch` | the validator and the draw of seeds, the rows of a batch | `MCRows` | `RunRowsProofs` |
| `RunRecord` | one row under `rename_run`, `request_cancel`, `delete_run`, the enqueue loop and the worker, each with its session | `MCRows` | `RunRecordProofs` |
| `RunRegisters` | abstract: what the columns of a run promise its writers | implemented by `RunRecord` | by `RunRecordProofs` |
| `RunResults` | `get_run`, `get_run_events`, `get_run_summary` against a living run | `MCRows` | `RunRowsProofs` |
| `ProjectVersions` | `create_project`, `get_project`, `update_project`, `delete_project` and the half of `submit_run` that reads the project, with the clients' copies | through `ProjectSaves` | `ProjectVersionsProofs` |
| `ProjectComparison` | `_without_nulls`, `_inputs_differ`, and what a fetched project looks like | through `ProjectSaves` | `ProjectVersionsProofs` |
| `ProjectSaves` | the two above together: saves whose specs are compared as the code does | `MCProjectVersions`, 2 configurations | `ProjectVersionsProofs` |
| `ProjectFamilies` | `base_project_id` | through `ProjectListing` | `ProjectListingProofs` |
| `ProjectListing` | `list_projects` page by page over the projects of `ProjectFamilies` | `MCRows` | `ProjectListingProofs` |
| `ProjectDeletion` | `delete_project` against `submit_run` and `delete_run`, by their row locks | `MCProjectDeletion` | `ProjectDeletionProofs` |
| `HttpEdge` | a request from its preflight to its answer | `MCHttpEdge`, 3 configurations | `HttpEdgeProofs` |

Operators whose comment begins with "Mutant", or that precede a definition whose
name theirs extends, are faulty variants of that definition. No specification uses
them: they show, for each property, a plausible mistake in the code that the property
would catch (`PROJECT.json`, "mutants").

### RunExecution

A step of a process is what it does between two awaits that can let somebody else
in, so each commit, each `refresh` and each call of arq is a step of its own.

| Action | Code |
|---|---|
| `SubmitRows`, `EnqueueNext`, `CommitIds` | `submit_run`: the first commit, one turn of the enqueue loop, the commit of the job ids |
| `SubmitRaises`, `SubmitFault` | `refresh` or the flush of `arq_job_id` finds the row gone; the process or Redis fails |
| `RequestCancel`, `DeleteRun` | `request_cancel`, `delete_run` (and a project's deletion, which cascades) |
| `Pick`, `GiveUp`, `FinishJob`, `LeaseExpires` | arq: lease, `max_tries` or expired arguments, `finish_job`, the TTL of the in-progress key |
| `Load`, `Mark`, `Start` | `run_simulation` up to `runner.run`, then `_build_model` and `model.start()` |
| `StopCancelled`, `RunLap`, `LogCurrentState`, `OnChunk` | the loop: `is_cancelled` and what follows it, the end of the loop, `on_chunk` |
| `Finish`, `Fail`, `Raise` | the terminal commit, the `except` handler, an exception that leaves the function |
| `Crash`, `Shutdown`, `Timeout`, `LeaseOutlived`, `RedisLost` | faults, each bounded by `Budget` |

Data is abstracted to what the properties tell apart. A simulation is
deterministic in what its row holds (snapshot, seed, target, chunk size), so a run
stands for it, an event is its place in the stream, and `Emitted[r][k]` says how many
events there are after turn `k`. `simTime` counts turns, with 0 for null. `Locked`
is the row lock that the enqueue loop holds: the `refresh` of row i + 1 flushes the
update of row i. `Mark` and `OnChunk` write a column only when the session's value
changed, as SQLAlchemy does. A database that is unreachable shows in the same
places and with the same outcome as `Timeout` and `Raise`.

### ChunkLoop, SeedBatch

The numbers that a submission may carry, with columns of any width (`MaxInt`,
`MaxSeed`). `AskRun` computes the target and refuses what does not fit its column,
`RunChunk` is one turn of `SpurRunner.run`, with `model.run` raising unless it is called
with a time ahead of the clock; `None` and 0 both mean the default chunk, as in the
code's `or`. `SubmitSeeds` is validation (`_seeds_fit`), the draw (`randbelow`, any
admissible value) and the insertion of the rows; `DeleteRow` lets any of them go.

### RunRecord

`Load`, `Commit` and `Reply` are the three statements of a request: the `get`, the
commit with its UPDATE, the refresh for the answer. `mine[s]` is the session's copy of
the row and `loaded[s]` what it had read, so `Flush` writes the columns where the two
differ, as SQLAlchemy's unit of work does, and the copy is not refreshed by a commit
(`expire_on_commit=False`). The worker's `Begin`, `CommitOwn`, `NextChunk`, `CannotBuild` and `Finish`
follow `run_simulation` with `SpurRunner.run` to each of its verdicts: completed, cancelled, and failed because
the model could not be built, `model.run` raised or `log_current_state` did. `turn` is the model's clock, counted in chunks:
every attempt starts it at 0, whatever `sim_time_now` in the row is.
`RunRegisters` says what all of that amounts to: every request takes effect at one instant
between arrival and answer and on its own column, and the worker on its own two.

### RunResults

A request reads the row first (`FindRun`, `ReadStatus`) and the events in a second
statement (`ReadPage`, `Analyse`). The runs behave as `RunLifecycle` says, so its
results hold as long as no job is delivered twice (see below). The limit of a page
is positive; the router bounds it only from above, and a limit of 0 yields an empty
page whatever there is. `Matching` is what `ORDER BY seq` makes of the events that pass the
filter: the i-th is the one at which i have passed.

### ProjectVersions, ProjectComparison, ProjectSaves

A save is three steps: `LockRow` (`SELECT ... FOR UPDATE`, the check of `If-Match`),
`Save` (the commit) and `Refresh` (after which the answer goes out). `Lost` ends the
request at either point without an answer. The client is part of the model because
the promise is about it: it has a copy, with the version it was told and the content
it takes that version to be. Clients in `Adopting` take over the whole answer;
the others keep their own content and take the version, as an editor does that goes on
typing while it saves. After a 412 or 404 a client gives its copy up and fetches again; it does not
force its content through with the version that the 412 names. `Blind` clients
may also save without `If-Match`. `history` is an auxiliary variable, the specs a project has had.

In `ProjectVersions` the constant `Canon` stands for what `_without_nulls` leaves of the
sections in `_SIMULATION_INPUTS`, and `Runnable` for `validate`; the proofs hold for any
`Canon`. `ProjectComparison` computes it on tagged JSON (atoms, lists, objects, null), and
`ProjectSaves` puts the two together: each spec has a text, one being what a client gets
when it fetches another (`Fetched`: the optional keys filled in with nulls).
`SameToSpur` is the independent reading of when two texts are the same to a simulation.
The functions that recur over JSON (`WithoutNulls`, `Filled`, `SameToSpur`) are defined on a constant set `Values`, which
has the parts of each of its members, less deep than the member itself (`ValuesAssumption`). `MCProjectVersions` computes the
set and the depths from the texts of the instance. `Cleaned`, `Completed` and `Alike` say what each does at one level.

### ProjectFamilies, ProjectListing

`ReadBase` decides from the base's row where the new project will point, `Insert`
or `InsertFails` follows, and `Delete` may come in between (`ON DELETE SET NULL`).
`madeFrom` and `baseThen` are auxiliary: the project that a request named as the base, and what that one had as
its own base then, so that `SameFamily` can tell two projects whose base was deleted from two that never had one.
`ProjectListing` adds `created_at`, which is when the creating transaction began and so neither
unique nor in the order of the commits, and a client that opens a list, of everything or of one
base, and reads it with OFFSET and LIMIT. `constant`, `left`, `came` and `repeats` are bookkeeping
for the properties.

### ProjectDeletion

`lock` says which transaction holds which row. `Refresh` of a submission first flushes
the update of the row before it and so takes that row; `Delete` takes the project's row,
and `Scan`/`DeleteRow` the rows of its runs in whatever order the cascade finds them. `Abort`
is Postgres' deadlock detection, which may choose either of the two; the exception ends the request and
rolls its transaction back (`Fail`).

### HttpEdge

`Init` takes every setting and every request; then `Preflight`, `ReadBody`,
`CurrentPrincipal`, `Validate` and `Handle` follow in the order in which Starlette and
FastAPI run them. `Routes` lists, per route, its method, whether it has a JSON body, and which of
the service's exceptions its handler can raise; when they are raised is the subject of the other modules,
so `Handle` may raise any of them. It has the operations of the five routers and the four that `FastAPI(...)` adds itself
(`DocsRoutes`: `/openapi.json`, `/docs`, `/docs/oauth2-redirect`, `/redoc`). `Guarded` are those of the routers that `create_app`
includes with `Depends(current_principal)`: all but the probes and these four. Keys need not be ASCII: `hmac.compare_digest` raises
`TypeError` at a token or a key of the settings that is not (`ComparisonRaises`), and the answer is then 500, unless a key that is equal
comes earlier in the list; which comes first is left open, as the settings are a set here.

## Runs

TLC explores every run to the end; the longest, `rows`, takes about two
minutes. Deadlock is not checked, because the system may really stop: every id used up,
every run settled or deleted, every client done.

| Run | Instance | Question |
|---|---|---|
| `run_faults` | 1 run of two turns, 2 workers, one fault of every kind, 2 tries | Safety whatever goes wrong: `StoredIsPrefix`, `TruthfulVerdict`, `OneWriter`, `CancelHonoured`, and the inductive invariant |
| `run_graceful` | a batch of 2 (one raises), 2 workers, no second delivery | `ProgressMatchesVerdict`, `OneAttempt`, `VerdictIsFinal`, and `ImplementsLifecycle`: the refinement of `RunLifecycle` |
| `run_settles` | a batch of 2 (one cannot be built), 2 workers, crash, shutdown and a failed submission, 3 tries, fairness | `NoneForgotten`: no queued run of an answered submission is without a job; `EveryRunSettles`: each gets its verdict, unless a worker stopped after events of it were stored |
| `run_stranded` | 1 run, 1 worker, one shutdown and one timeout | findings: `NeverStuckRunning` fails |
| `run_polling` | a batch of 2, 1 worker, no fault | finding: `PollingEnds` fails |
| `rows` | `ChunkLoop`: 3 chunks by default, columns of -13..12, untils and chunk sizes on both sides of them. `SeedBatch`: 2 submissions of up to 3 seeds of 0..4. `RunRecord`: 2 renames (one to the same name), a cancellation, a deletion, a job id, a worker. `RunResults`: 2 runs (5 events; 3, then an error), a reader with a filter, pages of 2. `ProjectListing`: 3 projects, 2 instants, pages of 1 | the arithmetic (`OnTheGrid`, `DefaultTurns`, `FailsAtOnceOrNever`, `CompletedInFull`, `AcceptedFits`, `Replayable`), the writers of a row (`CancelStays`, `ImplementsRegisters`) its readers (`PagesAreContiguous`, `ReadToTheEnd`, `VerdictsAreSummarised`), families (`BaseIsRoot`, `SameFamily`, `ScenariosOutliveBases`) and lists of projects (`MissesArePaid`, `RepeatsArePaid`) |
| `project_saves` | 1 project, 2 clients, 1 submission, 4 specs, 3 saves; every sample and spec compared with every sample, spec and fetched form of one | `VersionCountsSaves`, `SnapshotIsItsVersion`, `FreshRunsMatch`, `OutdatedRunsWereEdited`, `RaisedByEditsOnly`, `ComparisonAsMeant`, `NoSilentOverwrite` |
| `project_tabs` | 2 clients that take only the version from an answer, 4 saves | finding: `NoSilentOverwrite` fails |
| `project_deletion` | 2 batches of 2, 2 deletions, fairness | `DeletionIsComplete`, `AnsweredIsEnqueued`, `EveryRequestEnds` |
| `http_requests` | every route, 2 pages, 3 keys (one not ASCII), all settings, fairness | `HandlersServePrincipals`, `AnswersReachAllowedPages`, `WelcomeRequestsAreHandled` |
| `http_save` | the same | finding: `PagesCanSaveTheirVersion` fails |
| `http_open` | the same | finding: `OnlyProbesAreOpen` fails |

The five machines of `rows` share no state; `MCRows` explores each while the other
four have not begun, which is all that can be told apart. `OneOfThem` keeps the rename that changes nothing
and the recording of the job id, which write different columns, out of one another's behaviours, for the size of the run; the proofs
have no such bound.

Why the bounds are enough to be of interest. Two attempts at a run need two
workers, and one fault of every kind lets any two faults meet; two turns give a first
chunk, a later one and a final flush; the event streams include an empty batch. A
batch of two has a row that is locked and one that is still to be enqueued. Two saves at the same
version need two clients, and the overwriting in `project_tabs` two saves. Of four
specs, one is another as it is fetched, one differs in an item of a list, and one cannot be
run. Three projects make a base, a scenario and a scenario made from that one, with any of them deleted
in between; in pages of one, each is a page. Columns of -13..12 are passed on both sides, and 0..4 with up to three seeds
has drawn batches at both ends. One reader suffices because readers share nothing;
five events under a filter fill one page, half of a second, and leave events out. A batch of two against a
deletion has a row that each side holds and wants, and the second deletion and batch make three or four transactions
meet at the project's row. Two pages and two ASCII keys leave one of each outside of the settings, and a third key that is not ASCII may be
sent, be in the settings, or both.

### Fairness

`FairSpec` of `RunExecution` asks that a request being served goes on (`SubmitStep`), that a worker
polls and executes (`WorkerStep`), and that a lease nobody holds ends (`LeaseExpires`):
an event loop, arq's poll loop, and a Redis TTL. It is weak fairness of whole
processes, so it does not say which job a worker picks. That of `ProjectDeletion` asks
the same of each request, and that Postgres looks for deadlocks (`deadlock_timeout`); a request that waits for a
lock is not enabled, so nothing is assumed of it. That of `HttpEdge` asks that the server and the browser go on with
one request. No client has to do anything, no fault to happen, and no fault is excluded beyond its budget.

## What the runs show

The safety core holds whatever fails: readers see a prefix of the one event stream,
verdicts are true of the simulation and of the stored events, and the unique index
makes one attempt the writer. Without a second delivery the implementation refines
the life a client is promised. Versions count saves, and the out-of-date rule of the
README is exact in both directions, with the comparison that the code makes. Concurrent writers of a run's row do not
disturb each other, since each session writes only what it changed. The opposite lock orders of a
submission and a project's deletion cost one of them an error, and nothing else.

Six statements of the repository do not hold:

1. **A stopped worker strands a run** (`run_stranded`). The handler at
   `worker/tasks.py:72` is there to "never leave a run stuck in `running`". After a
   shutdown with one chunk stored the job is delivered again, starts over at seq 0, and
   the unique index refuses the rows. The failed flush leaves the session in a state in which the
   handler's own commit raises as well. `EveryRunSettles` has the part of the promise that
   does hold across restarts: only a run with stored events can be stranded.
2. **A timeout strands a run** (`run_stranded`). arq's default `job_timeout` cancels
   the job with `CancelledError`, which `except Exception` does not catch, and arq counts the job as
   done. TLC reports this one, as its trace is shorter; with `timeout` taken out of `Stops` in `MCRunExecution` it
   reports the first.
3. **Deleting a run of a batch can leave the rest queued for good** (`run_polling`). The
   deleted row makes the `refresh` in the enqueue loop raise.
4. **Two tabs can overwrite each other after all** (`project_tabs`). The `refresh` after the
   commit can find another client's save; a client that takes only the version from the answer then
   holds a version of content it never saw. With clients that take over the whole answer the promise holds, and
   that is proved.
5. **A browser on another origin cannot save with its version** (`http_save`). `allow_headers`
   (`main.py:40`) lacks `If-Match`, so the preflight of the save that the repository's README asks for is refused.
6. **The documentation is served without a key** (`http_open`). `FastAPI(...)` at `main.py:30` adds `/openapi.json`, `/docs`,
   `/docs/oauth2-redirect` and `/redoc`, and the key is a dependency of the included routers only. The repository's README (line 196) says
   that a key is required "on every endpoint except `/healthz` and `/readyz`", and `main.py:43-44` that "everything else requires a
   principal"; `tests/test_auth.py` goes through the OpenAPI paths, where these four are missing. `HandlersServePrincipals` is what does
   hold: without a principal there are only the probes and these four.

Some limits are deliberate parts of the properties rather than findings. A run that
has its verdict goes back to `running` when its job is delivered again after a crash between
the terminal commit and arq's acknowledgement, so `VerdictIsFinal` and the refinement
exclude second deliveries (`Budget` 0 for crash, shutdown and outlive). When
Redis loses its data the queued runs stay queued: nothing enqueues them again, so
`NoneForgotten` is checked without that fault. The answer 500 to an exception nobody handles is
written outside of the CORS middleware (`main.py:36`), so no page can read it, and `AnswersReachAllowedPages` excepts it.
With a key that is not ASCII in the settings, a valid key after it in the list is answered 500 (`auth.py:52`), so `WelcomeRequestsAreHandled`
is about settings with ASCII keys; `HandlersServePrincipals` and `AnswersReachAllowedPages` are about all.
The repository's README (lines 174-175) says that a failed run reports "the metrics of the events it has produced so far". What the chunk in
which it failed had emitted is in `events_batch` only and never stored (`RunLap` goes to the handler without it), so it is not reported:
`VerdictsAreSummarised` speaks of the events that a run has stored, and `TruthfulVerdict` says of a failed run only that it could not end.

## What is proved

All proofs are for any number of runs, workers, clients, projects and specs, any
batch sizes, streams, column widths and fault budgets, under the assumptions named in the modules.
The type invariants are parts of the inductive ones, and of these TLC checks that of `RunExecution` again;
the rest, and the statements `CancelledWasAsked`, `BatchesAreSubmissions`, `RefusalsAreExplained`, `RunningIsKept`, `SomebodyGoesOn` and
`NotTurnedAway`, have a proof and no run.
The proofs follow one scheme: an inductive invariant, `Init => IInv`, one lemma
per part of it for `IInv /\ [Next]_vars`, and the property from `IInv`.

- **RunExecutionProofs**: `TypeCorrect`, `Invariance`, `StoredEventsArePrefix`,
  `VerdictsAreTruthful`, `AtMostOneWriter`. Alone, `StoredIsPrefix` is not inductive: an attempt
  might hold a batch that does not continue what is stored. `AttemptOK` ties each
  attempt's counters to its place in the loop (`seq = flushed`, `emitted` is what the
  turns so far emit); `WriterUpToDate` says that an attempt that has stored anything has
  stored all there is, and `OneWriter` that there is one such attempt. The step that matters is
  `OnChunk`: either the attempt is the writer, and its rows continue the prefix, or
  it has stored nothing and starts at seq 0, and then the unique index admits it only
  if nothing is stored.
- **RunDeliveryProofs**: which attempts there are.
  - `CancellationsAreHonoured`, whatever fails: an attempt at a run that is still queued has not marked it
    (`QueuedIsUnmarked`), so it loads the cancellation, and one that loaded it stops before it stores anything (`StoppedEarly`).
  - `GracefulInvariance`, `AttemptsAreAlone`, `ProgressIsTruthful`, `RunsHaveOneLife` (the refinement of `RunLifecycle`) and
    `VerdictsAreKept`, assuming `DeliveredOnce`: no crash, shutdown or lease that its holder outlives, as in `run_graceful`.
    `GracefulInv` follows a run from its submission to the queue to the one holder of its lease, whose counters say what
    the row does. Each step is then one action of `RunLifecycle` or a stutter, and `VerdictIsFinal` holds there.
  - `QueuedRunsAreKept`, assuming `NothingLost`: no timeout, no expired arguments, no loss of Redis, and fewer
    interruptions than `MaxTries`, as in `run_settles`. Every try but the current one cost an interruption
    (`TriesAreInterrupted`), so arq never gives a queued run up, and an attempt leaves the queue only with the run's verdict (`KeptInQueue`).
  - `OnlyKilledRunsAreStranded`, assuming also that no lease is outlived: what is true of `NeverStuckRunning`, whose violation is finding 1,
    and the safety part of `EveryRunSettles`. The worker at a run has its lease and its job (`HoldersAreAlone`); stored events are those of the
    attempt under way unless one was killed (`EventsHaveWriter`), so only then can the unique index refuse an attempt and make it return with the run
    still shown as running (`ReturnsAreSettled`).
- **ProjectVersionsProofs**: `Invariance`, `NoSaveIsLost`, `SnapshotsAreVersions`,
  `FreshRunsAreCurrent`, `OutdatedRunsAreOld`, `SavesOverwriteWhatWasSeen`. The heart is
  `SavesHoldTheRow`: what a save read under its lock is still the row when it commits, and only
  one save per project is between the two. `InputsVersionExact` says that at
  `inputs_version` the inputs changed and since then they did not, from which both
  directions of the out-of-date rule follow. `CopiesAreVersions` (a client's
  copy is the version it names) is inductive only if every client is in `Adopting`, and this
  is the hypothesis of `SavesOverwriteWhatWasSeen`.
  About the comparison: `ComparisonIsExact`, `FetchingChangesNothing`, `TheComparisonIsAsMeant`, `OnlyEditsRaiseIt`.
  That the three recursive functions exist on `Values`, and what they are, is proved by induction on the depth
  (`RecursionExists`, `RecursionIsUnique`). Two values are the same without their nulls exactly if they are `SameToSpur`, by
  induction on the depth of the first: an object loses just the keys at which the other may have a null or nothing, and a list keeps its
  length, which is where a comparison that also dropped null items would fail. A fetched project therefore compares equal to the stored one, and
  with `InputsVersionExact` the last edit among all saves is `inputs_version`. The assumptions are `ValuesAssumption` and `TextsAssumption`: JSON is
  finitely deep, what is fetched is JSON again, and `Canon` is what the comparison computes.
- **ProjectListingProofs**, about `ProjectFamilies`: `Invariance`, `BasesAreRoots`, `ScenariosKeepToTheFamily`,
  `FamiliesChangeByDeletion`. `PendingOK` carries what `create_project` read over to its
  insertion: a base once read as a root stays one, because rows are never given a base
  after they are inserted, and ids are never used again.
  About `ProjectListing`: `ListingInvariance`, `MissesAreExplained`, `RepeatsAreExplained`, `ListingKeepsTheStore`. `created_at` and the id
  order any set of projects totally, so its first n exist, are unique, and grow with n (`FirstsExist`, `FirstsUnique`, `FirstsNested`). Of what
  has been there all the time, a client has missed only what now lies before its offset and was not shown; a departure moves at most one
  project there, and an arrival pushes at most one that was shown behind it (`CutsMoveLittle`). `Paid` says that of every moment, and so of the last page.
- **RunRecordProofs**: `Invariance`, `CancellationsStay`, `CancelledRunsWereAsked`, and
  `RecordImplementsRegisters`, the refinement of `RunRegisters`. The invariant says that no copy claims a cancellation the row
  does not have, that a loaded request differs from what it loaded by its own assignment, and that a worker's copy never
  differs in the columns of the requests. The refinement then goes step by step; a request takes effect at its commit, or, when it
  changes nothing, where it loads the row.
- **RunRowsProofs**, about `ChunkLoop`, `SeedBatch` and `RunResults`: `LoopInvariance`, `ClockOnTheGrid`,
  `DefaultIsFewTurns`, `FailuresAreImmediate`, `CompletionIsFull`. The invariant adds to the grid that a last turn was
  necessary (`(turns - 1) * Chunk < target`), from which the bound on the turns follows by division.
  `SeedInvariance`, `SeedsFit`, `BatchesReplay`, `BatchesAreExact`: a stored row is what its place in its submission
  makes it, and what was drawn could have been sent. `SummariesAreComplete`: a verdict a reader has reported
  is still that of the run, unless it was deleted, and nothing is stored after it, so the count read in the second
  statement belongs to the verdict read in the first. `PagesFollowTheStream`, `ClientsReadToTheEnd`: a matching event is known by its rank,
  the number that have passed up to it, which no later event changes; so a page begins at the rank after the last one got, and a short page
  after the verdict ends at the last rank there is.
- **HttpEdgeProofs**: `Invariance`, `OnlyPrincipalsAreServed`, `AllowedPagesReadAnswers`,
  `ServerErrorsAreUnforeseen`, `InvitedRequestsAreLetIn` (the safety part of `WelcomeRequestsAreHandled`, for ASCII keys): the stages of a request never skip the key and never come to an
  answer with a header of another setting. `OnlyPrincipalsAreServed` names the routes that need no principal, the probes and FastAPI's
  documentation; all others are among `Guarded`, which is where the invariant has a principal from the key check on.
- **ProjectDeletionProofs**: `Invariance`, `DeletionsAreComplete`, `AnsweredSubmissionsAreEnqueued`. The deletion that has
  the project's row has what it has scanned, no run is inserted while it does, and a submission holds only rows before the one it is at.
  `NobodyWaitsForEver` is the safety part of `EveryRequestEnds`: a row is locked by its own submission or by the deletion that has the project's row
  (`LockInv`). If everybody waits, that deletion waits for a row of a submission, which waits for a row that nobody else can have. So it is enough that
  `Abort`, like Postgres here, finds pairs that wait for each other.

Induction over numbers goes by a least counterexample (`NatMin`, from the library's `WFMin`), since the library's own induction
theorems take an operator.

Every invariant and every action property that a run checks is proved. Only model-checked is liveness under fairness (`EveryRunSettles`,
`EveryRequestEnds`, `WelcomeRequestsAreHandled`), which, with ENABLED, is out of the prover's reach; of each, the theorems have the part that is safety.

## What is not modelled

- Rows from before a migration (null `spec_snapshot`, `project_version`, `seed`, or
  `until_target`), and the migrations themselves, which run before the service starts.
- `spur` itself: `Model`, `validate`, `analyze` are a library; a simulation is its
  stream of events and the way it ends. The catalog and what `validate` answers are that library's.
- `get_run_visits` beyond its errors: it is the reading of `get_run_summary` with a slice of its result.
- A page limit below 1, of which nothing in the repository says what it means.
- The hash behind `owner`, the URL of a database, the wiring in `deps.py`: read once, or values nobody compares.
- `name` of a project, `error_message` and the timestamps but `created_at`: written, and read by nobody but a person.

## Plan

Done, in the order of importance: `RunExecution` with `RunLifecycle`,
`ProjectVersions`, `ProjectFamilies`, `RunResults`; then `RunRecord` with `RunRegisters`, `ChunkLoop`, `SeedBatch`,
`ProjectComparison` and `ProjectSaves`, `ProjectListing`, `ProjectDeletion`, `HttpEdge`, with their proofs, and the proofs about deliveries (`RunDeliveryProofs`).

Left: what a request and a worker do with rows from before a migration, and liveness, whose proofs need another tool.
