---------------------------- MODULE RunExecution ----------------------------
(***************************************************************************)
(* How a simulation run goes from POST /projects/{id}/runs to a verdict.   *)
(*                                                                         *)
(* Three parties meet over two stores.  The API inserts rows, enqueues     *)
(* jobs, flags runs for cancellation and deletes them                      *)
(* (services/runs_service.py).  arq hands the jobs in Redis to the workers *)
(* (worker/settings.py).  A worker executes run_simulation                 *)
(* (worker/tasks.py), which drives SpurRunner.run (worker/runner.py).  The *)
(* rows are in Postgres, the jobs and their leases in Redis.               *)
(*                                                                         *)
(* A step of a process is what it does between two awaits that can let     *)
(* somebody else in.  A simulation is deterministic in what its row holds  *)
(* (spec snapshot, seed, target, chunk size), so a run r stands for it: it *)
(* takes Laps[r] turns of the chunk loop and has emitted Emitted[r][k]     *)
(* events after turn k.  An event is known by its place in that stream.    *)
(***************************************************************************)
EXTENDS Naturals, Sequences, FiniteSets

CONSTANTS
  Runs,        \* the simulation_runs rows that may ever be inserted
  Workers,     \* worker processes
  Submissions, \* calls of submit_run that pass validation
  Batch,       \* Batch[s]: the rows of submission s, in insertion order
  Laps,        \* Laps[r]: turns of the chunk loop the simulation survives
  Emitted,     \* Emitted[r][k]: events emitted once k turns are done (k = 0:
               \* by model.start()); k = Laps[r] + 1: by log_current_state()
  Fate,        \* how the simulation ends if nobody stops it
  MaxTries,    \* arq's max_tries
  Budget,      \* Budget[k]: how many faults of kind k a behaviour may have
  NoRun        \* no run

Fates == {"ends", "raises", "unbuildable"}

\* crash: a worker process dies without a word.  shutdown: a worker is told to
\* stop (a deployment).  timeout: arq's job_timeout cancels the job.  outlive:
\* a worker still busy with a job when the job's lease ends.  expiry: a job
\* waits so long that arq's copy of its arguments expires.  redisLoss: Redis
\* comes back empty.  submitFault: the API process dies, or Redis cannot be
\* reached, while a submission enqueues.
FaultKinds == {"crash", "shutdown", "timeout", "outlive", "expiry",
               "redisLoss", "submitFault"}

Ends(r) == Fate[r] = "ends"
Total(r) == Emitted[r][Laps[r] + 1]
InBatch(s, r) == \E i \in 1..Len(Batch[s]) : Batch[s][i] = r

ASSUME RunsAssumption ==
  /\ NoRun \notin Runs
  /\ Batch \in [Submissions -> Seq(Runs)]
  /\ \A s \in Submissions : Len(Batch[s]) > 0
  /\ \A s, t \in Submissions :
       \A i \in 1..Len(Batch[s]), j \in 1..Len(Batch[t]) :
          Batch[s][i] = Batch[t][j] => s = t /\ i = j
  /\ \A r \in Runs : \E s \in Submissions : InBatch(s, r)

ASSUME SimulationAssumption ==
  /\ Laps \in [Runs -> Nat]
  /\ Fate \in [Runs -> Fates]
  /\ \A r \in Runs :
       /\ Emitted[r] \in [0..(Laps[r] + 1) -> Nat]
       /\ \A i, j \in 0..(Laps[r] + 1) : i <= j => Emitted[r][i] <= Emitted[r][j]

ASSUME BoundsAssumption ==
  /\ MaxTries \in Nat
  /\ Budget \in [FaultKinds -> Nat]

-----------------------------------------------------------------------------

VARIABLES
  status,     \* status[r]: the status column, or "absent" without a row
  cancelReq,  \* cancelReq[r]: the cancel_requested column
  simTime,    \* simTime[r]: sim_time_now, counted in turns (0 when null)
  events,     \* events[r]: run_events of r, as <<seq, place in the stream>>
  queue,      \* runs with a job in arq's queue
  leased,     \* runs whose in-progress key exists
  tries,      \* tries[r]: arq's retry counter of the job
  pc,         \* pc[w]: where worker w is
  job,        \* job[w]: the run it has the job of, or NoRun
  rowStatus,  \* rowStatus[w], rowTime[w]: the status and sim_time_now that
  rowTime,    \* run_row has in the session
  lap,        \* lap[w]: turns done (model.now)
  seq,        \* seq[w]: the number of the next event
  flushed,    \* flushed[w], emitted[w]: events_batch holds the events from
  emitted,    \* the flushed-th to before the emitted-th
  verdict,    \* verdict[w]: the outcome that the final on_chunk precedes
  phase,      \* phase[s]: where submission s is
  next,       \* next[s]: index in Batch[s] of the row to be enqueued next
  used        \* used[k]: faults of kind k so far

db == <<status, cancelReq, simTime, events>>
redis == <<queue, leased, tries>>
row == <<rowStatus, rowTime>>
runner == <<lap, flushed, emitted, verdict>>
task == <<row, seq, runner>>
worker == <<pc, job, task>>
api == <<phase, next>>
vars == <<db, redis, worker, api, used>>

Terminal == {"completed", "failed", "cancelled"}
Statuses == {"absent", "queued", "running"} \cup Terminal
Places == {"idle", "load", "mark", "start", "loop", "flush", "finish", "fail",
           "return", "drop"}
Phases == {"new", "enqueuing", "answered", "failed"}

Verdicts == {"none", "completed", "cancelled"}

Present(r) == status[r] # "absent"
Unborn(r) == \E s \in Submissions : phase[s] = "new" /\ InBatch(s, r)
Held(r) == \E w \in Workers : job[w] = r

\* submit_run's loop dirties row i, and the refresh of row i + 1 flushes it: the
\* rows before the last one enqueued stay locked until the commit that ends it.
Locked(r) ==
  \E s \in Submissions :
     /\ phase[s] = "enqueuing"
     /\ \E i \in 1..Len(Batch[s]) : i + 2 <= next[s] /\ Batch[s][i] = r

Spend(k) ==
  /\ used[k] < Budget[k]
  /\ used' = [used EXCEPT ![k] = @ + 1]

Init ==
  /\ status = [r \in Runs |-> "absent"]
  /\ cancelReq = [r \in Runs |-> FALSE]
  /\ simTime = [r \in Runs |-> 0]
  /\ events = [r \in Runs |-> {}]
  /\ queue = {}
  /\ leased = {}
  /\ tries = [r \in Runs |-> 0]
  /\ pc = [w \in Workers |-> "idle"]
  /\ job = [w \in Workers |-> NoRun]
  /\ rowStatus = [w \in Workers |-> "absent"]
  /\ rowTime = [w \in Workers |-> 0]
  /\ lap = [w \in Workers |-> 0]
  /\ seq = [w \in Workers |-> 0]
  /\ flushed = [w \in Workers |-> 0]
  /\ emitted = [w \in Workers |-> 0]
  /\ verdict = [w \in Workers |-> "none"]
  /\ phase = [s \in Submissions |-> "new"]
  /\ next = [s \in Submissions |-> 1]
  /\ used = [k \in FaultKinds |-> 0]

-----------------------------------------------------------------------------
(* The API: services/runs_service.py.                                      *)

\* The rows of the submission become visible together, before any job exists.
SubmitRows(s) ==
  /\ phase[s] = "new"
  /\ status' = [r \in Runs |-> IF InBatch(s, r) THEN "queued" ELSE status[r]]
  /\ phase' = [phase EXCEPT ![s] = "enqueuing"]
  /\ UNCHANGED <<cancelReq, simTime, events, redis, worker, next, used>>

\* The row to be refreshed and the one before it, whose arq_job_id the refresh
\* flushes: if either has been deleted, submit_run raises here.
RowsMissing(s) ==
  \E i \in {next[s] - 1, next[s]} \cap (1..Len(Batch[s])) : ~Present(Batch[s][i])

EnqueueNext(s) ==
  /\ phase[s] = "enqueuing"
  /\ next[s] <= Len(Batch[s])
  /\ ~RowsMissing(s)
  /\ queue' = queue \cup {Batch[s][next[s]]}
  /\ next' = [next EXCEPT ![s] = @ + 1]
  /\ UNCHANGED <<db, leased, tries, worker, phase, used>>

\* Mutant: the answer goes out before every job is enqueued.
CommitIdsEarly(s) ==
  /\ phase[s] = "enqueuing"
  /\ phase' = [phase EXCEPT ![s] = "answered"]
  /\ UNCHANGED <<db, redis, worker, next, used>>

CommitIds(s) ==
  /\ phase[s] = "enqueuing"
  /\ next[s] > Len(Batch[s])
  /\ ~RowsMissing(s)
  /\ phase' = [phase EXCEPT ![s] = "answered"]
  /\ UNCHANGED <<db, redis, worker, next, used>>

\* The exception leaves the request: what is committed and enqueued stays so,
\* and nothing enqueues the rest.
SubmitRaises(s) ==
  /\ phase[s] = "enqueuing"
  /\ RowsMissing(s)
  /\ phase' = [phase EXCEPT ![s] = "failed"]
  /\ UNCHANGED <<db, redis, worker, next, used>>

SubmitFault(s) ==
  /\ phase[s] = "enqueuing"
  /\ Spend("submitFault")
  /\ phase' = [phase EXCEPT ![s] = "failed"]
  /\ UNCHANGED <<db, redis, worker, next>>

\* Mutant: the run is marked cancelled at once.
RequestCancelAtOnce(r) ==
  /\ Present(r)
  /\ ~Locked(r)
  /\ cancelReq' = [cancelReq EXCEPT ![r] = TRUE]
  /\ status' = [status EXCEPT ![r] = "cancelled"]
  /\ UNCHANGED <<simTime, events, redis, worker, api, used>>

RequestCancel(r) ==
  /\ Present(r)
  /\ ~Locked(r)
  /\ cancelReq' = [cancelReq EXCEPT ![r] = TRUE]
  /\ UNCHANGED <<status, simTime, events, redis, worker, api, used>>

\* Mutant: the foreign key does not cascade.
DeleteRunOnly(r) ==
  /\ Present(r)
  /\ ~Locked(r)
  /\ status' = [status EXCEPT ![r] = "absent"]
  /\ cancelReq' = [cancelReq EXCEPT ![r] = FALSE]
  /\ simTime' = [simTime EXCEPT ![r] = 0]
  /\ UNCHANGED <<events, redis, worker, api, used>>

\* The run's events go with it (ON DELETE CASCADE); its job stays.
DeleteRun(r) ==
  /\ Present(r)
  /\ ~Locked(r)
  /\ status' = [status EXCEPT ![r] = "absent"]
  /\ cancelReq' = [cancelReq EXCEPT ![r] = FALSE]
  /\ simTime' = [simTime EXCEPT ![r] = 0]
  /\ events' = [events EXCEPT ![r] = {}]
  /\ UNCHANGED <<redis, worker, api, used>>

-----------------------------------------------------------------------------
(* arq, as worker/settings.py sets it up: one job at a time per worker.    *)

Goto(w, place) == pc' = [pc EXCEPT ![w] = place]

\* The attempt and its locals are gone.
Abandon(w) ==
  /\ Goto(w, "idle")
  /\ job' = [job EXCEPT ![w] = NoRun]
  /\ rowStatus' = [rowStatus EXCEPT ![w] = "absent"]
  /\ rowTime' = [rowTime EXCEPT ![w] = 0]
  /\ lap' = [lap EXCEPT ![w] = 0]
  /\ seq' = [seq EXCEPT ![w] = 0]
  /\ flushed' = [flushed EXCEPT ![w] = 0]
  /\ emitted' = [emitted EXCEPT ![w] = 0]
  /\ verdict' = [verdict EXCEPT ![w] = "none"]

\* Mutant: the in-progress key is not looked at.
LeaseAnyway(w, r) ==
  /\ pc[w] = "idle"
  /\ r \in queue
  /\ leased' = leased \cup {r}
  /\ tries' = [tries EXCEPT ![r] = @ + 1]
  /\ job' = [job EXCEPT ![w] = r]
  /\ UNCHANGED <<db, queue, task, api>>

Lease(w, r) ==
  /\ pc[w] = "idle"
  /\ r \in queue \ leased
  /\ leased' = leased \cup {r}
  /\ tries' = [tries EXCEPT ![r] = @ + 1]
  /\ job' = [job EXCEPT ![w] = r]
  /\ UNCHANGED <<db, queue, task, api>>

Pick(w, r) ==
  /\ Lease(w, r)
  /\ tries[r] < MaxTries
  /\ Goto(w, "load")
  /\ UNCHANGED used

\* Out of tries, or the job's data expired while it waited: arq fails the job
\* without calling run_simulation.
GiveUp(w, r) ==
  /\ Lease(w, r)
  /\ \/ tries[r] >= MaxTries /\ UNCHANGED used
     \/ Spend("expiry")
  /\ Goto(w, "drop")

\* finish_job, whether the function returned, raised or was timed out.
FinishJob(w) ==
  /\ pc[w] \in {"return", "drop"}
  /\ queue' = queue \ {job[w]}
  /\ leased' = leased \ {job[w]}
  /\ tries' = [tries EXCEPT ![job[w]] = 0]
  /\ Abandon(w)
  /\ UNCHANGED <<db, api, used>>

\* A lease nobody renews ends, and the job is up for delivery again.
LeaseExpires(r) ==
  /\ r \in leased
  /\ ~Held(r)
  /\ leased' = leased \ {r}
  /\ UNCHANGED <<db, queue, tries, worker, api, used>>

-----------------------------------------------------------------------------
(* run_simulation and the SpurRunner.run it awaits.                        *)

Prefix(n) == {<<i, i>> : i \in 0..(n - 1)}

\* The rows on_chunk adds for what is in events_batch.
NewRows(w) ==
  {<<seq[w] + i, flushed[w] + i>> :
     i \in 0..(emitted[w] - flushed[w] - 1)}

\* Mutant: the index is not unique.
ClashNever(w) == FALSE

\* The unique index on (run_id, seq) refuses the insertion.
Clash(w) ==
  \E e \in NewRows(w) : \E f \in events[job[w]] : e[1] = f[1]

\* Mutant: the last chunk is left out.
MoreLapsShort(w) == lap[w] + 1 < Laps[job[w]] \/ ~Ends(job[w])

\* model.now < until_target
MoreLaps(w) == lap[w] < Laps[job[w]] \/ ~Ends(job[w])

\* Mutant: a run that is not queued any more is left alone.
LoadQueuedOnly(w) ==
  /\ pc[w] = "load"
  /\ Present(job[w])
  /\ rowStatus' = [rowStatus EXCEPT ![w] = status[job[w]]]
  /\ rowTime' = [rowTime EXCEPT ![w] = simTime[job[w]]]
  /\ Goto(w, IF status[job[w]] = "queued" THEN "mark" ELSE "return")
  /\ UNCHANGED <<db, redis, job, seq, runner, api, used>>

Load(w) ==
  /\ pc[w] = "load"
  /\ Present(job[w])
  /\ rowStatus' = [rowStatus EXCEPT ![w] = status[job[w]]]
  /\ rowTime' = [rowTime EXCEPT ![w] = simTime[job[w]]]
  /\ Goto(w, "mark")
  /\ UNCHANGED <<db, redis, job, seq, runner, api, used>>

\* Only a changed attribute is written: a row loaded as running is left alone.
Mark(w) ==
  /\ pc[w] = "mark"
  /\ Present(job[w])
  /\ ~Locked(job[w])
  /\ status' = [status EXCEPT ![job[w]] =
                  IF rowStatus[w] = "running" THEN @ ELSE "running"]
  /\ rowStatus' = [rowStatus EXCEPT ![w] = "running"]
  /\ Goto(w, "start")
  /\ UNCHANGED <<cancelReq, simTime, events, redis, job, rowTime, seq, runner, api,
                 used>>

Start(w) ==
  /\ pc[w] = "start"
  /\ IF Fate[job[w]] = "unbuildable"
       THEN Goto(w, "fail") /\ UNCHANGED emitted
       ELSE /\ Goto(w, "loop")
            /\ emitted' = [emitted EXCEPT ![w] = Emitted[job[w]][0]]
  /\ UNCHANGED <<db, redis, job, row, seq, lap, flushed, verdict, api, used>>

StopCancelled(w) ==
  /\ pc[w] = "loop"
  /\ MoreLaps(w)
  /\ Present(job[w])
  /\ cancelReq[job[w]]
  /\ verdict' = [verdict EXCEPT ![w] = "cancelled"]
  /\ Goto(w, "flush")
  /\ UNCHANGED <<db, redis, job, row, seq, lap, flushed, emitted, api, used>>

\* Mutant: is_cancelled() is not awaited.
RunLapUnasked(w) ==
  /\ pc[w] = "loop"
  /\ MoreLaps(w)
  /\ Present(job[w])
  /\ IF lap[w] = Laps[job[w]]
       THEN Goto(w, "fail") /\ UNCHANGED <<lap, emitted>>
       ELSE /\ Goto(w, "flush")
            /\ lap' = [lap EXCEPT ![w] = @ + 1]
            /\ emitted' = [emitted EXCEPT ![w] = Emitted[job[w]][lap[w] + 1]]
  /\ UNCHANGED <<db, redis, job, row, seq, flushed, verdict, api, used>>

RunLap(w) ==
  /\ pc[w] = "loop"
  /\ MoreLaps(w)
  /\ Present(job[w])
  /\ ~cancelReq[job[w]]
  /\ IF lap[w] = Laps[job[w]]
       THEN Goto(w, "fail") /\ UNCHANGED <<lap, emitted>>
       ELSE /\ Goto(w, "flush")
            /\ lap' = [lap EXCEPT ![w] = @ + 1]
            /\ emitted' = [emitted EXCEPT ![w] = Emitted[job[w]][lap[w] + 1]]
  /\ UNCHANGED <<db, redis, job, row, seq, flushed, verdict, api, used>>

\* Mutant: without the on_chunk that follows.
LogCurrentStateUnflushed(w) ==
  /\ pc[w] = "loop"
  /\ ~MoreLaps(w)
  /\ emitted' = [emitted EXCEPT ![w] = Total(job[w])]
  /\ verdict' = [verdict EXCEPT ![w] = "completed"]
  /\ Goto(w, "finish")
  /\ UNCHANGED <<db, redis, job, row, seq, lap, flushed, api, used>>

LogCurrentState(w) ==
  /\ pc[w] = "loop"
  /\ ~MoreLaps(w)
  /\ emitted' = [emitted EXCEPT ![w] = Total(job[w])]
  /\ verdict' = [verdict EXCEPT ![w] = "completed"]
  /\ Goto(w, "flush")
  /\ UNCHANGED <<db, redis, job, row, seq, lap, flushed, api, used>>

\* Mutant: events_batch is not cleared.
OnChunkUncleared(w) ==
  LET r == job[w] IN
  /\ pc[w] = "flush"
  /\ Present(r)
  /\ ~Locked(r)
  /\ ~Clash(w)
  /\ events' = [events EXCEPT ![r] = @ \cup NewRows(w)]
  /\ simTime' = [simTime EXCEPT ![r] =
                   IF rowTime[w] = lap[w] THEN @ ELSE lap[w]]
  /\ seq' = [seq EXCEPT ![w] = @ + (emitted[w] - flushed[w])]
  /\ rowTime' = [rowTime EXCEPT ![w] = lap[w]]
  /\ Goto(w, IF verdict[w] = "none" THEN "loop" ELSE "finish")
  /\ UNCHANGED <<status, cancelReq, redis, job, rowStatus, runner, api, used>>

\* on_chunk: the batch and the progress in one transaction, then the batch is
\* cleared (or, after the final on_chunk, dropped).
OnChunk(w) ==
  LET r == job[w] IN
  /\ pc[w] = "flush"
  /\ Present(r)
  /\ ~Locked(r)
  /\ ~Clash(w)
  /\ events' = [events EXCEPT ![r] = @ \cup NewRows(w)]
  /\ simTime' = [simTime EXCEPT ![r] =
                   IF rowTime[w] = lap[w] THEN @ ELSE lap[w]]
  /\ seq' = [seq EXCEPT ![w] = @ + (emitted[w] - flushed[w])]
  /\ flushed' = [flushed EXCEPT ![w] = emitted[w]]
  /\ rowTime' = [rowTime EXCEPT ![w] = lap[w]]
  /\ Goto(w, IF verdict[w] = "none" THEN "loop" ELSE "finish")
  /\ UNCHANGED <<status, cancelReq, redis, job, rowStatus, lap, emitted, verdict, api,
                 used>>

Finish(w) ==
  /\ pc[w] = "finish"
  /\ Present(job[w])
  /\ ~Locked(job[w])
  /\ status' = [status EXCEPT ![job[w]] = verdict[w]]
  /\ Goto(w, "return")
  /\ UNCHANGED <<cancelReq, simTime, events, redis, job, task, api, used>>

\* Mutant: the handler does not commit.
FailUncommitted(w) ==
  /\ pc[w] = "fail"
  /\ Goto(w, "return")
  /\ UNCHANGED <<db, redis, job, task, api, used>>

\* The handler of a simulation that raised.
Fail(w) ==
  /\ pc[w] = "fail"
  /\ Present(job[w])
  /\ ~Locked(job[w])
  /\ status' = [status EXCEPT ![job[w]] = "failed"]
  /\ Goto(w, "return")
  /\ UNCHANGED <<cancelReq, simTime, events, redis, job, task, api, used>>

\* An exception that leaves run_simulation with nothing written.  Without the
\* row there is nothing to load, refresh or update.  A refused insertion leaves
\* the session unusable, so the handler's own commit raises as well.
Raise(w) ==
  /\ \/ /\ pc[w] \in {"load", "mark", "flush", "finish", "fail"}
        /\ ~Present(job[w])
     \/ pc[w] = "loop" /\ MoreLaps(w) /\ ~Present(job[w])
     \/ pc[w] = "flush" /\ Clash(w)
  /\ Goto(w, "return")
  /\ UNCHANGED <<db, redis, job, task, api, used>>

-----------------------------------------------------------------------------
(* What goes wrong around a worker.                                        *)

\* The lease outlives the worker; another worker gets the job when it ends.
Crash(w) ==
  /\ pc[w] # "idle"
  /\ Spend("crash")
  /\ Abandon(w)
  /\ UNCHANGED <<db, redis, api>>

\* arq cancels the job, gives the lease back and leaves the job in the queue,
\* even when the function has done all it had to and is closing its session.
Shutdown(w) ==
  /\ pc[w] \notin {"idle", "drop"}
  /\ Spend("shutdown")
  /\ leased' = leased \ {job[w]}
  /\ Abandon(w)
  /\ UNCHANGED <<db, queue, tries, api>>

\* CancelledError is no Exception: the handler that marks the run failed does
\* not see it, and arq counts the job as done.
Timeout(w) ==
  /\ pc[w] \notin {"idle", "drop", "return"}
  /\ Spend("timeout")
  /\ Goto(w, "return")
  /\ UNCHANGED <<db, redis, job, task, api>>

LeaseOutlived(r) ==
  /\ r \in leased
  /\ Held(r)
  /\ Spend("outlive")
  /\ leased' = leased \ {r}
  /\ UNCHANGED <<db, queue, tries, worker, api>>

RedisLost ==
  /\ Spend("redisLoss")
  /\ queue' = {}
  /\ leased' = {}
  /\ tries' = [r \in Runs |-> 0]
  /\ UNCHANGED <<db, worker, api>>

-----------------------------------------------------------------------------

SubmitStep(s) == EnqueueNext(s) \/ CommitIds(s) \/ SubmitRaises(s)

TaskStep(w) ==
  \/ Load(w) \/ Mark(w) \/ Start(w)
  \/ StopCancelled(w) \/ RunLap(w) \/ LogCurrentState(w) \/ OnChunk(w)
  \/ Finish(w) \/ Fail(w) \/ Raise(w)

WorkerStep(w) ==
  \/ \E r \in Runs : Pick(w, r) \/ GiveUp(w, r)
  \/ TaskStep(w)
  \/ FinishJob(w)

ClientStep ==
  \/ \E s \in Submissions : SubmitRows(s)
  \/ \E r \in Runs : RequestCancel(r) \/ DeleteRun(r)

FaultStep ==
  \/ \E s \in Submissions : SubmitFault(s)
  \/ \E w \in Workers : Crash(w) \/ Shutdown(w) \/ Timeout(w)
  \/ \E r \in Runs : LeaseOutlived(r)
  \/ RedisLost

Next ==
  \/ ClientStep
  \/ \E s \in Submissions : SubmitStep(s)
  \/ \E w \in Workers : WorkerStep(w)
  \/ \E r \in Runs : LeaseExpires(r)
  \/ FaultStep

Spec == Init /\ [][Next]_vars

\* A request that is being served and a worker that polls go on, and a lease
\* that nobody holds ends; no client has to do anything, no fault to happen.
Fairness ==
  /\ \A s \in Submissions : WF_vars(SubmitStep(s))
  /\ \A w \in Workers : WF_vars(WorkerStep(w))
  /\ \A r \in Runs : WF_vars(LeaseExpires(r))

FairSpec == Spec /\ Fairness

-----------------------------------------------------------------------------
(* Correctness, whatever goes wrong.                                       *)

\* Every variable stays within its type.
TypeOK ==
  /\ status \in [Runs -> Statuses]
  /\ cancelReq \in [Runs -> BOOLEAN]
  /\ simTime \in [Runs -> Nat]
  /\ events \in [Runs -> SUBSET (Nat \X Nat)]
  /\ queue \subseteq Runs
  /\ leased \subseteq Runs
  /\ tries \in [Runs -> Nat]
  /\ pc \in [Workers -> Places]
  /\ job \in [Workers -> Runs \cup {NoRun}]
  /\ rowStatus \in [Workers -> Statuses]
  /\ rowTime \in [Workers -> Nat]
  /\ lap \in [Workers -> Nat]
  /\ seq \in [Workers -> Nat]
  /\ flushed \in [Workers -> Nat]
  /\ emitted \in [Workers -> Nat]
  /\ verdict \in [Workers -> Verdicts]
  /\ phase \in [Submissions -> Phases]
  /\ next \in [Submissions -> Nat \ {0}]
  /\ used \in [FaultKinds -> Nat]

\* What a reader of GET /runs/{id}/events finds is always the beginning of the
\* run's one event stream, without gap, repetition or reordering, however often
\* and however concurrently the job was delivered (on_chunk's numbering, the
\* clearing of events_batch and the unique index together).
StoredIsPrefix ==
  \A r \in Runs : \E n \in 0..Total(r) : events[r] = Prefix(n)

\* A verdict in the row is true of the simulation and of the stored events: a
\* completed run has all of its events (README.md: then read the events), a
\* cancelled one was asked to stop, a failed one could not end.
TruthfulVerdict ==
  \A r \in Runs :
    /\ status[r] = "completed" => Ends(r) /\ events[r] = Prefix(Total(r))
    /\ status[r] = "cancelled" => cancelReq[r]
    /\ status[r] = "failed" => ~Ends(r)

\* Two attempts at one run may be under way when a lease was outlived, but never
\* have both stored events: the unique index on (run_id, seq) lets only one be
\* the writer of the run.
OneWriter ==
  \A v, w \in Workers :
    /\ v # w
    /\ job[v] = job[w]
    /\ job[v] # NoRun
    /\ Present(job[v])
    => seq[v] = 0 \/ seq[w] = 0

\* A run cancelled while it is queued never completes, if it has a chunk to run
\* at all: the flag is read again before every chunk, by every attempt.
CancelHonoured ==
  \A r \in Runs :
    [](/\ status[r] = "queued"
       /\ cancelReq[r]
       /\ Laps[r] > 0
       => [](status[r] # "completed"))

-----------------------------------------------------------------------------
(* What makes these invariants inductive.                                  *)

\* Nothing is known of a run before its submission inserts it.
UnbornUntouched ==
  \A r \in Runs : Unborn(r) => ~Present(r) /\ r \notin queue /\ ~Held(r)

\* The locals of an attempt agree with where it is in the chunk loop.
AttemptOK(w) ==
  LET r == job[w] IN
  /\ pc[w] = "idle" <=> r = NoRun
  /\ seq[w] = flushed[w]
  /\ flushed[w] <= emitted[w]
  /\ pc[w] \in {"idle", "load", "mark", "start"} =>
       lap[w] = 0 /\ emitted[w] = 0 /\ verdict[w] = "none"
  /\ pc[w] = "loop" => verdict[w] = "none"
  /\ pc[w] = "finish" => verdict[w] # "none" /\ flushed[w] = emitted[w]
  /\ pc[w] = "fail" => ~Ends(r)
  /\ r # NoRun =>
       /\ lap[w] <= Laps[r]
       /\ emitted[w] <= Total(r)
       /\ pc[w] \in {"loop", "flush"} /\ verdict[w] # "completed" =>
            emitted[w] = Emitted[r][lap[w]]
       /\ verdict[w] = "completed" => Ends(r) /\ emitted[w] = Total(r)
       /\ verdict[w] = "cancelled" /\ Present(r) => cancelReq[r]

\* An attempt that has stored events has stored all there are.
WriterUpToDate ==
  \A w \in Workers :
    job[w] # NoRun /\ Present(job[w]) /\ seq[w] > 0 =>
      events[job[w]] = Prefix(seq[w])

NoOrphanEvents == \A r \in Runs : ~Present(r) => events[r] = {}

\* The inductive invariant: every step of Next preserves it.
IInv ==
  /\ TypeOK
  /\ UnbornUntouched
  /\ \A w \in Workers : AttemptOK(w)
  /\ NoOrphanEvents
  /\ StoredIsPrefix
  /\ WriterUpToDate
  /\ OneWriter
  /\ TruthfulVerdict

-----------------------------------------------------------------------------
(* Correctness as long as no job is delivered twice: Budget is 0 for        *)
(* "crash", "shutdown" and "outlive".                                      *)

\* A run that has its verdict keeps it until it is deleted, which is what lets a
\* client poll for one (README.md).
VerdictIsFinal ==
  [][\A r \in Runs : status[r] \in Terminal =>
       status'[r] \in {status[r], "absent"}]_vars

\* The progress a client is shown agrees with the verdict: a completed run got to
\* its target, a cancelled one stopped short of it (sim_time_now against
\* until_target).
ProgressMatchesVerdict ==
  \A r \in Runs :
    /\ status[r] = "completed" => simTime[r] = Laps[r]
    /\ status[r] = "cancelled" /\ Ends(r) => simTime[r] < Laps[r]

\* No two workers are ever at the same run.
OneAttempt ==
  \A v, w \in Workers :
    v # w /\ job[v] = job[w] => job[v] = NoRun

\* A queued run is on its way to a worker or in the hands of one, unless the
\* submission that made it ended in an error.
NoneForgotten ==
  \A s \in Submissions, r \in Runs :
    /\ InBatch(s, r)
    /\ phase[s] = "answered"
    /\ status[r] = "queued"
    => r \in queue

Lifecycle == INSTANCE RunLifecycle WITH
  Length <- [r \in Runs |-> Total(r)],
  Endable <- {r \in Runs : Ends(r)},
  state <- [r \in Runs |-> IF Present(r) THEN status[r]
                           ELSE IF Unborn(r) THEN "unborn" ELSE "deleted"],
  stored <- [r \in Runs |-> Cardinality(events[r])],
  asked <- cancelReq

\* The whole machinery of rows, jobs, leases and attempts is, to a client, the
\* forward-only life of a run that RunLifecycle describes.
ImplementsLifecycle == Lifecycle!Spec

-----------------------------------------------------------------------------
(* Liveness.                                                               *)

Settled(r) == status[r] \in Terminal \cup {"absent"}

\* Every run of a submission that was answered gets its verdict, or is deleted,
\* also across restarts of workers: a run is stranded only if an attempt that was
\* killed or stopped had stored events of it already.
Stranded(r) == events[r] # {} /\ used["crash"] + used["shutdown"] > 0
EveryRunSettles ==
  \A s \in Submissions : \A r \in Runs :
    InBatch(s, r) /\ phase[s] = "answered" ~> Settled(r) \/ Stranded(r)

-----------------------------------------------------------------------------
(* What the repository says of the program and the program does not do.    *)

\* "never leave a run stuck in `running`" (worker/tasks.py:72): a run shown as
\* running is in the hands of a worker or will be given to one.
NeverStuckRunning ==
  \A r \in Runs : status[r] = "running" => r \in queue \/ Held(r)

\* "poll GET /v1/runs/{id} until it reaches completed, failed, or cancelled"
\* (README.md:9): a queued run gets its verdict, or is deleted.
PollingEnds == \A r \in Runs : status[r] = "queued" ~> Settled(r)

=============================================================================
