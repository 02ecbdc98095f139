--------------------------- MODULE RunDeliveryProofs ---------------------------
(***************************************************************************)
(* What holds of RunExecution when the faults are limited: a cancellation  *)
(* that comes in time, the life of a run when no job is delivered twice,   *)
(* and the queue when nothing but workers fails.                           *)
(***************************************************************************)
EXTENDS RunExecutionProofs, FiniteSetTheorems

(* No job is delivered twice.                                              *)

\* No attempt ends, and no lease, without arq's finish_job.
DeliveredOnce == Budget["crash"] = 0 /\ Budget["shutdown"] = 0 /\ Budget["outlive"] = 0

\* The submission has yet to enqueue the run.
Waiting(r) ==
  \E s \in Submissions : \E i \in 1..Len(Batch[s]) : i >= next[s] /\ Batch[s][i] = r

\* Nobody has begun with the run: its job is yet to be made or to be delivered.
Untouched(r) == Waiting(r) \/ (r \in queue /\ ~Held(r))

\* What the row says of an attempt that has it for itself.
AttemptAlone(w) ==
  LET r == job[w] IN
  /\ verdict[w] = "completed" => lap[w] = Laps[r]
  /\ verdict[w] = "cancelled" /\ Ends(r) => lap[w] < Laps[r]
  /\ Present(r) =>
       /\ pc[w] \in {"load", "mark"} => status[r] = "queued" /\ simTime[r] = 0
       /\ pc[w] \in {"start", "loop", "flush", "finish", "fail"} => status[r] = "running"
       /\ pc[w] \in {"mark", "start", "loop", "flush"} => rowTime[w] = simTime[r]
       /\ pc[w] \in {"start", "loop", "finish"} => simTime[r] = lap[w]

\* A run is waiting, then in the queue, then in the hands of the one worker that
\* has its lease, and its row says how far it got.
GracefulInv ==
  /\ OneAttempt
  /\ \A s \in Submissions : phase[s] = "new" => next[s] = 1
  /\ \A r \in Runs : Held(r) /\ r \in queue => r \in leased
  /\ \A r \in Runs : Waiting(r) => r \notin queue /\ ~Held(r)
  /\ \A r \in Runs : Untouched(r) => status[r] \in {"queued", "absent"} /\ simTime[r] = 0
  /\ \A w \in Workers : job[w] # NoRun => AttemptAlone(w)
  /\ ProgressMatchesVerdict

(* A cancellation that comes before any attempt has marked the run.        *)

\* Whoever has a run that is still queued is before the commit that marks it, or
\* has given it up.
QueuedIsUnmarked ==
  \A r \in Runs, w \in Workers : status[r] = "queued" /\ job[w] = r =>
    /\ pc[w] \in {"load", "mark", "return", "drop"}
    /\ lap[w] = 0 /\ verdict[w] = "none"
    /\ pc[w] = "mark" => rowStatus[w] # "running"

\* From then on the run is cancelled or gone, and no attempt is past a chunk.
StoppedEarly(r) ==
  /\ status[r] # "completed"
  /\ cancelReq[r] \/ (~Present(r) /\ ~Unborn(r))
  /\ \A w \in Workers : job[w] = r => lap[w] = 0 /\ verdict[w] # "completed"

LEMMA InitGraceful == Init => GracefulInv
  <1> SUFFICES ASSUME Init PROVE GracefulInv
    OBVIOUS
  <1>1. \A r \in Runs : status[r] = "absent" /\ simTime[r] = 0 /\ ~Held(r) /\ r \notin queue
    BY RunsAssumption DEF Init, Held
  <1>2. \A w \in Workers : job[w] = NoRun
    BY DEF Init
  <1>3. \A s \in Submissions : next[s] = 1
    BY DEF Init
  <1>4. OneAttempt /\ ProgressMatchesVerdict
    BY <1>1, <1>2 DEF OneAttempt, ProgressMatchesVerdict
  <1> QED
    BY <1>1, <1>2, <1>3, <1>4 DEF GracefulInv

\* A run in the hands of a worker is not untouched.
LEMMA HeldIsTouched ==
  ASSUME GracefulInv, NEW r \in Runs, Held(r)
  PROVE ~Untouched(r) /\ ~Waiting(r)
  BY DEF GracefulInv, Untouched

\* A step of one attempt that leaves its run's row and its own locals in
\* agreement disturbs nobody else.
LEMMA OwnStep ==
  ASSUME IInv, GracefulInv, NEW w \in Workers, job[w] \in Runs,
         UNCHANGED <<queue, leased, job, phase, next>>,
         \A r \in Runs : r # job[w] => status'[r] = status[r] /\ simTime'[r] = simTime[r],
         \A v \in Workers : v # w => /\ pc'[v] = pc[v] /\ rowTime'[v] = rowTime[v]
                                     /\ lap'[v] = lap[v] /\ verdict'[v] = verdict[v],
         AttemptAlone(w)',
         status'[job[w]] = "completed" => simTime'[job[w]] = Laps[job[w]],
         status'[job[w]] = "cancelled" /\ Ends(job[w]) => simTime'[job[w]] < Laps[job[w]]
  PROVE GracefulInv'
  <1>1. \A r \in Runs : Held(r)' = Held(r) /\ Waiting(r)' = Waiting(r)
                        /\ Untouched(r)' = Untouched(r)
    BY DEF Held, Waiting, Untouched
  <1>2. Held(job[w])
    BY DEF Held
  <1>3. \A r \in Runs : Untouched(r) => r # job[w]
    BY <1>2, HeldIsTouched
  <1>4. OneAttempt' /\ ProgressMatchesVerdict'
    BY DEF GracefulInv, OneAttempt, ProgressMatchesVerdict
  <1>5. ASSUME NEW v \in Workers, v # w, job[v] # NoRun PROVE AttemptAlone(v)'
    <2>1. job[v] \in Runs /\ job[v] # job[w] /\ AttemptAlone(v)
      BY <1>5 DEF IInv, TypeOK, GracefulInv, OneAttempt
    <2> QED
      BY <1>5, <2>1 DEF AttemptAlone, Present
  <1>6. \A r \in Runs : Untouched(r)' => status'[r] \in {"queued", "absent"} /\ simTime'[r] = 0
    BY <1>1, <1>3 DEF GracefulInv
  <1> QED
    BY <1>1, <1>4, <1>5, <1>6 DEF GracefulInv

\* The steps of run_simulation.
LEMMA TaskStepGraceful ==
  ASSUME IInv, QueuedIsUnmarked, GracefulInv, [Next]_vars, NEW w \in Workers,
         TaskStep(w) \/ Timeout(w)
  PROVE GracefulInv'
  <1> DEFINE r == job[w]
  <1>0. TypeOK /\ AttemptInv /\ AttemptOK(w) /\ pc[w] # "idle"
    BY DEF IInv, AttemptInv, TaskStep, Load, Mark, Start, StopCancelled, RunLap,
       LogCurrentState, OnChunk, Finish, Fail, Raise, Timeout
  <1>1. r \in Runs /\ r # NoRun /\ Laps[r] \in Nat
    BY <1>0, WorkingHasJob, RunsAssumption, SimulationAssumption
  <1>2. AttemptAlone(w) /\ ProgressMatchesVerdict
    BY <1>1 DEF GracefulInv
  <1>3. CASE Load(w)
    <2>1. AttemptAlone(w)'
      BY <1>0, <1>1, <1>2, <1>3 DEF Load, Goto, db, runner, AttemptAlone, Present, TypeOK
    <2> QED
      BY <1>0, <1>1, <1>2, <1>3, <2>1, OwnStep
      DEF Load, Goto, db, redis, runner, api, TypeOK, ProgressMatchesVerdict
  <1>4. CASE Mark(w)
    <2>1. status'[r] = "running" /\ simTime'[r] = simTime[r]
      BY <1>0, <1>1, <1>2, <1>4 DEF Mark, AttemptAlone, QueuedIsUnmarked, TypeOK
    <2>2. AttemptAlone(w)'
      BY <1>0, <1>1, <1>2, <1>4, <2>1
      DEF Mark, Goto, runner, AttemptAlone, AttemptOK, Present, TypeOK
    <2> QED
      BY <1>0, <1>1, <1>4, <2>1, <2>2, OwnStep
      DEF Mark, Goto, redis, runner, api, TypeOK
  <1>5. CASE Start(w)
    <2>1. AttemptAlone(w)'
      BY <1>0, <1>1, <1>2, <1>5 DEF Start, Goto, db, row, AttemptAlone, Present, TypeOK
    <2> QED
      BY <1>0, <1>1, <1>2, <1>5, <2>1, OwnStep
      DEF Start, Goto, db, redis, row, api, TypeOK, ProgressMatchesVerdict
  <1>6. CASE StopCancelled(w)
    <2>1. Ends(r) => lap[w] < Laps[r]
      BY <1>6 DEF StopCancelled, MoreLaps
    <2>2. AttemptAlone(w)'
      BY <1>0, <1>1, <1>2, <1>6, <2>1
      DEF StopCancelled, Goto, db, row, AttemptAlone, Present, TypeOK
    <2> QED
      BY <1>0, <1>1, <1>2, <1>6, <2>2, OwnStep
      DEF StopCancelled, Goto, db, redis, row, api, TypeOK, ProgressMatchesVerdict
  <1>7. CASE RunLap(w)
    <2>1. AttemptAlone(w)'
      BY <1>0, <1>1, <1>2, <1>7
      DEF RunLap, Goto, db, row, AttemptAlone, AttemptOK, Present, TypeOK
    <2> QED
      BY <1>0, <1>1, <1>2, <1>7, <2>1, OwnStep
      DEF RunLap, Goto, db, redis, row, api, TypeOK, ProgressMatchesVerdict
  <1>8. CASE LogCurrentState(w)
    <2>1. lap[w] = Laps[r]
      BY <1>0, <1>1, <1>8 DEF LogCurrentState, MoreLaps, AttemptOK, TypeOK
    <2>2. AttemptAlone(w)'
      BY <1>0, <1>1, <1>2, <1>8, <2>1
      DEF LogCurrentState, Goto, db, row, AttemptAlone, Present, TypeOK
    <2> QED
      BY <1>0, <1>1, <1>2, <1>8, <2>2, OwnStep
      DEF LogCurrentState, Goto, db, redis, row, api, TypeOK, ProgressMatchesVerdict
  <1>9. CASE OnChunk(w)
    <2>1. /\ status[r] = "running" /\ status' = status
          /\ simTime'[r] = lap[w] /\ rowTime'[w] = lap[w]
      BY <1>0, <1>1, <1>2, <1>9 DEF OnChunk, AttemptAlone, TypeOK
    <2>2. AttemptAlone(w)'
      BY <1>0, <1>1, <1>2, <1>9, <2>1 DEF OnChunk, Goto, AttemptAlone, Present, TypeOK
    <2> QED
      BY <1>0, <1>1, <1>9, <2>1, <2>2, OwnStep
      DEF OnChunk, Goto, redis, api, TypeOK
  <1>10. CASE Finish(w)
    <2>1. status'[r] = verdict[w] /\ simTime'[r] = simTime[r] /\ simTime[r] = lap[w]
      BY <1>0, <1>1, <1>2, <1>10 DEF Finish, AttemptAlone, TypeOK
    <2>2. AttemptAlone(w)'
      BY <1>0, <1>1, <1>2, <1>10 DEF Finish, Goto, task, runner, AttemptAlone, TypeOK
    <2> QED
      BY <1>0, <1>1, <1>2, <1>10, <2>1, <2>2, OwnStep
      DEF Finish, Goto, redis, task, row, runner, api, TypeOK, AttemptAlone
  <1>11. CASE Fail(w)
    <2>1. status'[r] = "failed" /\ simTime'[r] = simTime[r]
      BY <1>0, <1>1, <1>11 DEF Fail, TypeOK
    <2>2. AttemptAlone(w)'
      BY <1>0, <1>1, <1>2, <1>11 DEF Fail, Goto, task, runner, AttemptAlone, TypeOK
    <2> QED
      BY <1>0, <1>1, <1>11, <2>1, <2>2, OwnStep
      DEF Fail, Goto, redis, task, row, runner, api, TypeOK
  <1>12. CASE Raise(w) \/ Timeout(w)
    <2>1. AttemptAlone(w)'
      BY <1>0, <1>1, <1>2, <1>12
      DEF Raise, Timeout, Goto, task, runner, AttemptAlone, TypeOK
    <2> QED
      BY <1>0, <1>1, <1>2, <1>12, <2>1, OwnStep
      DEF Raise, Timeout, Goto, db, redis, task, row, runner, api, TypeOK,
          ProgressMatchesVerdict
  <1> QED
    BY <1>3, <1>4, <1>5, <1>6, <1>7, <1>8, <1>9, <1>10, <1>11, <1>12 DEF TaskStep

LEMMA QueuedStep == IInv /\ QueuedIsUnmarked /\ [Next]_vars => QueuedIsUnmarked'
  <1> SUFFICES ASSUME IInv, QueuedIsUnmarked, [Next]_vars,
                      NEW r \in Runs, NEW w \in Workers, status'[r] = "queued", job'[w] = r
               PROVE /\ pc'[w] \in {"load", "mark", "return", "drop"}
                     /\ lap'[w] = 0 /\ verdict'[w] = "none"
                     /\ pc'[w] = "mark" => rowStatus'[w] # "running"
    BY DEF QueuedIsUnmarked
  <1> DEFINE Same(v) == /\ pc'[v] = pc[v] /\ lap'[v] = lap[v] /\ verdict'[v] = verdict[v]
                        /\ rowStatus'[v] = rowStatus[v] /\ job'[v] = job[v]
  <1>0. TypeOK /\ AttemptInv /\ UnbornUntouched /\ AttemptOK(w) /\ r # NoRun
    BY RunsAssumption DEF IInv, AttemptInv
  <1>1. CASE Same(w) /\ status[r] = "queued"
    BY <1>1 DEF QueuedIsUnmarked
  <1>2. CASE UNCHANGED vars
    BY <1>1, <1>2 DEF vars, db, worker, task, row, runner
  <1>3. ASSUME NEW s \in Submissions, SubmitRows(s) PROVE Same(w) /\ status[r] = "queued"
    <2>1. Held(r)
      BY <1>3 DEF SubmitRows, worker, Held
    <2>2. ~InBatch(s, r)
      BY <1>0, <1>3, <2>1 DEF SubmitRows, UnbornUntouched, Unborn
    <2> QED
      BY <1>3, <2>2 DEF SubmitRows, worker, task, row, runner
  <1>4. ASSUME NEW s \in Submissions, SubmitStep(s) \/ SubmitFault(s)
        PROVE Same(w) /\ status[r] = "queued"
    BY <1>4 DEF SubmitStep, EnqueueNext, CommitIds, SubmitRaises, SubmitFault,
       db, worker, task, row, runner
  <1>5. ASSUME NEW q \in Runs, RequestCancel(q) \/ DeleteRun(q) \/ LeaseExpires(q)
                               \/ LeaseOutlived(q)
        PROVE Same(w) /\ status[r] = "queued"
    BY <1>0, <1>5 DEF RequestCancel, DeleteRun, LeaseExpires, LeaseOutlived, db,
       worker, task, row, runner, TypeOK
  <1>6. CASE RedisLost
    BY <1>1, <1>6 DEF RedisLost, db, worker, task, row, runner
  <1>7. ASSUME NEW v \in Workers, NEW q \in Runs, Pick(v, q) \/ GiveUp(v, q)
        PROVE \/ Same(w) /\ status[r] = "queued"
              \/ pc'[w] \in {"load", "drop"} /\ lap'[w] = 0 /\ verdict'[w] = "none"
    BY <1>0, <1>7 DEF Pick, GiveUp, Lease, Goto, db, task, row, runner, TypeOK, AttemptOK
  <1>8. ASSUME NEW v \in Workers, FinishJob(v) \/ Crash(v) \/ Shutdown(v)
        PROVE Same(w) /\ status[r] = "queued"
    <2>1. Abandon(v) /\ status' = status
      BY <1>8 DEF FinishJob, Crash, Shutdown, db
    <2>2. v # w
      BY <1>0, <2>1 DEF Abandon, TypeOK
    <2> QED
      BY <1>0, <2>1, <2>2 DEF Abandon, Goto, TypeOK
  <1>9. ASSUME NEW v \in Workers, TaskStep(v) \/ Timeout(v)
        PROVE status[r] = "queued" /\ job' = job /\ (v # w => Same(w))
    <2>0. AttemptOK(v)
      BY DEF IInv
    <2>1. CASE Load(v) \/ Start(v) \/ StopCancelled(v) \/ RunLap(v) \/ LogCurrentState(v)
               \/ Raise(v) \/ Timeout(v) \/ OnChunk(v)
      BY <1>0, <2>1 DEF Load, Start, StopCancelled, RunLap, LogCurrentState, Raise, Timeout,
         OnChunk, Goto, db, task, row, runner, TypeOK
    <2>2. CASE Mark(v)
      BY <1>0, <2>2 DEF Mark, Goto, runner, TypeOK
    <2>3. CASE Finish(v)
      BY <1>0, <2>0, <2>3 DEF Finish, Goto, task, row, runner, TypeOK, AttemptOK, Verdicts
    <2>4. CASE Fail(v)
      BY <1>0, <2>4 DEF Fail, Goto, task, row, runner, TypeOK
    <2> QED
      BY <1>9, <2>1, <2>2, <2>3, <2>4 DEF TaskStep
  <1>10. ASSUME TaskStep(w) \/ Timeout(w)
         PROVE /\ pc'[w] \in {"load", "mark", "return", "drop"}
               /\ lap'[w] = 0 /\ verdict'[w] = "none"
               /\ pc'[w] = "mark" => rowStatus'[w] # "running"
    <2>1. /\ status[r] = "queued" /\ job[w] = r
          /\ pc[w] \in {"load", "mark", "return", "drop"}
          /\ lap[w] = 0 /\ verdict[w] = "none"
          /\ pc[w] = "mark" => rowStatus[w] # "running"
      BY <1>9, <1>10 DEF QueuedIsUnmarked
    <2>2. Load(w) \/ Mark(w) \/ Raise(w) \/ Timeout(w)
      BY <1>10, <2>1 DEF TaskStep, Start, StopCancelled, RunLap, LogCurrentState, OnChunk,
         Finish, Fail
    <2>3. ~Mark(w)
      BY <1>0, <2>1 DEF Mark, TypeOK
    <2> QED
      BY <1>0, <2>1, <2>2, <2>3 DEF Load, Raise, Timeout, Goto, db, task, row, runner, TypeOK
  <1>11. ASSUME NEW v \in Workers, WorkerStep(v) \/ Crash(v) \/ Shutdown(v) \/ Timeout(v)
         PROVE /\ pc'[w] \in {"load", "mark", "return", "drop"}
               /\ lap'[w] = 0 /\ verdict'[w] = "none"
               /\ pc'[w] = "mark" => rowStatus'[w] # "running"
    <2>1. CASE TaskStep(v) \/ Timeout(v)
      BY <1>1, <1>9, <1>10, <2>1
    <2>2. CASE FinishJob(v) \/ Crash(v) \/ Shutdown(v)
      BY <1>1, <1>8, <2>2
    <2>3. ASSUME NEW q \in Runs, Pick(v, q) \/ GiveUp(v, q)
          PROVE /\ pc'[w] \in {"load", "mark", "return", "drop"}
                /\ lap'[w] = 0 /\ verdict'[w] = "none"
                /\ pc'[w] = "mark" => rowStatus'[w] # "running"
      BY <1>1, <1>7, <2>3
    <2> QED
      BY <1>11, <2>1, <2>2, <2>3 DEF WorkerStep
  <1> QED
    BY <1>1, <1>2, <1>3, <1>4, <1>5, <1>6, <1>11 DEF Next, ClientStep, FaultStep

LEMMA InitQueued == Init => QueuedIsUnmarked
  BY DEF Init, QueuedIsUnmarked

\* A run cancelled before its first chunk never runs one.
LEMMA StoppedStep ==
  ASSUME NEW r \in Runs, Laps[r] > 0, IInv, StoppedEarly(r), [Next]_vars
  PROVE StoppedEarly(r)'
  <1>0. TypeOK /\ AttemptInv /\ UnbornUntouched /\ Laps[r] \in Nat /\ r # NoRun
    BY RunsAssumption, SimulationAssumption DEF IInv, AttemptInv
  <1> DEFINE RowKept == status'[r] # "completed"
                        /\ (cancelReq'[r] \/ (~Present(r)' /\ ~Unborn(r)'))
             LocalsKept == \A w \in Workers :
                             job'[w] = r => lap'[w] = 0 /\ verdict'[w] # "completed"
  <1>1. SUFFICES RowKept /\ LocalsKept
    BY DEF StoppedEarly
  <1>2. \A s \in Submissions : phase'[s] = "new" => phase[s] = "new"
    BY <1>0 DEF Next, vars, api, ClientStep, SubmitStep, WorkerStep, TaskStep, FaultStep,
       SubmitRows, RequestCancel, DeleteRun, EnqueueNext, CommitIds, SubmitRaises, Pick,
       GiveUp, Lease, Load, Mark, Start, StopCancelled, RunLap, LogCurrentState, OnChunk,
       Finish, Fail, Raise, FinishJob, LeaseExpires, SubmitFault, Crash, Shutdown, Timeout,
       LeaseOutlived, RedisLost, TypeOK
  <1>3. Unborn(r)' => Unborn(r)
    BY <1>2 DEF Unborn
  <1>4. ASSUME UNCHANGED <<status, cancelReq>> PROVE RowKept
    BY <1>3, <1>4 DEF StoppedEarly, Present
  <1>5. ASSUME UNCHANGED <<job, lap, verdict>> PROVE LocalsKept
    BY <1>5 DEF StoppedEarly
  <1>6. CASE UNCHANGED vars
    BY <1>4, <1>5, <1>6 DEF vars, db, worker, task, runner
  <1>7. ASSUME NEW s \in Submissions, SubmitRows(s) PROVE RowKept /\ LocalsKept
    <2>1. ~InBatch(s, r) \/ cancelReq[r]
      BY <1>7 DEF SubmitRows, StoppedEarly, Unborn
    <2>2. RowKept
      BY <1>3, <1>7, <2>1 DEF SubmitRows, StoppedEarly, Present
    <2> QED
      BY <1>5, <1>7, <2>2 DEF SubmitRows, worker, task, runner
  <1>8. ASSUME NEW s \in Submissions, SubmitStep(s) \/ SubmitFault(s)
        PROVE RowKept /\ LocalsKept
    BY <1>4, <1>5, <1>8 DEF SubmitStep, EnqueueNext, CommitIds, SubmitRaises, SubmitFault,
       db, worker, task, runner
  <1>9. ASSUME NEW q \in Runs, RequestCancel(q) \/ DeleteRun(q)
        PROVE RowKept /\ LocalsKept
    <2>1. Present(q) => ~Unborn(q)
      BY <1>0 DEF UnbornUntouched
    <2>2. RowKept
      BY <1>0, <1>3, <1>9, <2>1 DEF RequestCancel, DeleteRun, StoppedEarly, Present, TypeOK
    <2> QED
      BY <1>5, <1>9, <2>2 DEF RequestCancel, DeleteRun, worker, task, runner
  <1>10. ASSUME NEW q \in Runs, LeaseExpires(q) \/ LeaseOutlived(q) \/ RedisLost
         PROVE RowKept /\ LocalsKept
    BY <1>4, <1>5, <1>10 DEF LeaseExpires, LeaseOutlived, RedisLost, db, worker, task, runner
  <1>11. ASSUME NEW v \in Workers, NEW q \in Runs, Pick(v, q) \/ GiveUp(v, q)
         PROVE RowKept /\ LocalsKept
    <2>1. lap[v] = 0 /\ verdict[v] = "none"
      BY <1>0, <1>11 DEF Pick, GiveUp, Lease, AttemptInv, AttemptOK
    <2>2. LocalsKept
      BY <1>0, <1>11, <2>1 DEF Pick, GiveUp, Lease, task, runner, TypeOK, StoppedEarly
    <2> QED
      BY <1>4, <1>11, <2>2 DEF Pick, GiveUp, Lease, db
  <1>12. ASSUME NEW v \in Workers, FinishJob(v) \/ Crash(v) \/ Shutdown(v)
         PROVE RowKept /\ LocalsKept
    <2>1. Abandon(v) /\ status' = status /\ cancelReq' = cancelReq
      BY <1>12 DEF FinishJob, Crash, Shutdown, db
    <2>2. LocalsKept
      BY <1>0, <2>1 DEF Abandon, TypeOK, StoppedEarly
    <2> QED
      BY <1>4, <2>1, <2>2
  <1>13. ASSUME NEW v \in Workers, TaskStep(v) \/ Timeout(v) PROVE RowKept /\ LocalsKept
    <2>0. AttemptOK(v)
      BY DEF IInv
    <2>1. CASE Load(v) \/ Start(v) \/ Raise(v) \/ Timeout(v)
      BY <1>4, <1>5, <2>1 DEF Load, Start, Raise, Timeout, db, task, runner
    <2>2. CASE Mark(v) \/ Fail(v) \/ Finish(v)
      <3>1. status'[r] # "completed" /\ (Present(r)' => Present(r))
        BY <1>0, <2>0, <2>2 DEF Mark, Fail, Finish, TypeOK, StoppedEarly, Present
      <3>2. RowKept
        BY <1>3, <2>2, <3>1 DEF Mark, Fail, Finish, StoppedEarly
      <3> QED
        BY <1>5, <2>2, <3>2 DEF Mark, Fail, Finish, task, runner
    <2>3. CASE OnChunk(v)
      BY <1>4, <1>5, <2>3 DEF OnChunk
    <2>4. CASE StopCancelled(v)
      <3>1. LocalsKept
        BY <1>0, <2>4 DEF StopCancelled, StoppedEarly, TypeOK
      <3> QED
        BY <1>4, <2>4, <3>1 DEF StopCancelled, db
    <2>5. CASE RunLap(v)
      <3>1. job[v] # r
        BY <2>5 DEF RunLap, StoppedEarly
      <3>2. LocalsKept
        BY <1>0, <2>5, <3>1 DEF RunLap, StoppedEarly, TypeOK
      <3> QED
        BY <1>4, <2>5, <3>2 DEF RunLap, db
    <2>6. CASE LogCurrentState(v)
      <3>1. job[v] # r
        BY <1>0, <2>6 DEF LogCurrentState, MoreLaps, StoppedEarly
      <3>2. LocalsKept
        BY <1>0, <2>6, <3>1 DEF LogCurrentState, StoppedEarly, TypeOK
      <3> QED
        BY <1>4, <2>6, <3>2 DEF LogCurrentState, db
    <2> QED
      BY <1>13, <2>1, <2>2, <2>3, <2>4, <2>5, <2>6 DEF TaskStep
  <1> QED
    BY <1>6, <1>7, <1>8, <1>9, <1>10, <1>11, <1>12, <1>13
    DEF Next, ClientStep, WorkerStep, FaultStep

\* A run cancelled while it is queued never completes, whatever is delivered
\* twice, dies or is lost, unless it has no chunk to run at all.
THEOREM CancellationsAreHonoured == Spec => CancelHonoured
  <1>1. Init => IInv /\ QueuedIsUnmarked
    BY InitIInv, InitQueued
  <1>2. IInv /\ QueuedIsUnmarked /\ [Next]_vars => (IInv /\ QueuedIsUnmarked)'
    BY InvariantStep, QueuedStep
  <1>3. Spec => [](IInv /\ QueuedIsUnmarked)
    BY <1>1, <1>2, PTL DEF Spec
  <1>4. ASSUME NEW r \in Runs
        PROVE Spec => [](/\ status[r] = "queued"
                         /\ cancelReq[r]
                         /\ Laps[r] > 0
                         => [](status[r] # "completed"))
    <2> DEFINE Stopped == Laps[r] > 0 /\ StoppedEarly(r)
    <2>1. IInv /\ QueuedIsUnmarked =>
            (/\ status[r] = "queued"
             /\ cancelReq[r]
             /\ Laps[r] > 0
             => Stopped)
      BY DEF QueuedIsUnmarked, StoppedEarly
    <2>2. IInv /\ Stopped /\ [Next]_vars => Stopped'
      BY StoppedStep
    <2>3. Stopped => status[r] # "completed"
      BY DEF StoppedEarly
    <2> HIDE DEF Stopped
    <2> QED
      BY <1>3, <2>1, <2>2, <2>3, PTL DEF Spec
  <1> QED
    BY <1>4 DEF CancelHonoured

\* What the API does.
LEMMA ApiStepGraceful ==
  ASSUME IInv, GracefulInv,
         \/ \E s \in Submissions : SubmitRows(s) \/ SubmitStep(s) \/ SubmitFault(s)
         \/ \E r \in Runs : RequestCancel(r) \/ DeleteRun(r)
  PROVE GracefulInv'
  <1>0. TypeOK /\ UnbornUntouched /\ AttemptInv
    BY DEF IInv, AttemptInv
  <1>1. ASSUME NEW s \in Submissions, SubmitRows(s) PROVE GracefulInv'
    <2>1. \A r \in Runs : InBatch(s, r) => ~Held(r)
      BY <1>0, <1>1 DEF SubmitRows, UnbornUntouched, Unborn
    <2>2. \A r \in Runs : Held(r)' = Held(r) /\ Waiting(r)' = Waiting(r)
                          /\ Untouched(r)' = Untouched(r)
      BY <1>1 DEF SubmitRows, worker, redis, Held, Waiting, Untouched
    <2>3. \A r \in Runs : status'[r] = status[r] \/ (status'[r] = "queued" /\ ~Held(r))
      BY <1>1, <2>1 DEF SubmitRows
    <2>4. OneAttempt' /\ ProgressMatchesVerdict'
      BY <1>1, <2>3 DEF SubmitRows, worker, GracefulInv, OneAttempt, ProgressMatchesVerdict
    <2>5. ASSUME NEW w \in Workers, job[w] # NoRun PROVE AttemptAlone(w)'
      <3>1. job[w] \in Runs /\ AttemptAlone(w) /\ status'[job[w]] = status[job[w]]
        BY <1>0, <2>3, <2>5 DEF GracefulInv, TypeOK, Held
      <3> QED
        BY <1>1, <3>1 DEF SubmitRows, worker, task, row, runner, AttemptAlone, Present
    <2>6. \A t \in Submissions : phase'[t] = "new" => next'[t] = 1
      BY <1>0, <1>1 DEF SubmitRows, GracefulInv, TypeOK
    <2> QED
      BY <1>1, <2>2, <2>3, <2>4, <2>5, <2>6 DEF GracefulInv, SubmitRows, worker, redis
  <1>2. ASSUME NEW s \in Submissions, EnqueueNext(s) PROVE GracefulInv'
    <2>0. PICK q \in Runs : q = Batch[s][next[s]]
      BY <1>0, <1>2, NextInBatch
    <2>1. next[s] \in 1..Len(Batch[s]) /\ Len(Batch[s]) \in Nat
      <3>1. Batch[s] \in Seq(Runs) /\ next[s] \in Nat \ {0}
        BY <1>0, RunsAssumption DEF TypeOK
      <3>2. Len(Batch[s]) \in Nat
        BY <3>1
      <3>3. next[s] <= Len(Batch[s])
        BY <1>2 DEF EnqueueNext
      <3> QED
        BY <3>1, <3>2, <3>3
    <2>2. Waiting(q) /\ ~Held(q)
      BY <2>0, <2>1 DEF Waiting, GracefulInv
    <2>3. \A t \in Submissions : next'[t] >= next[t] /\ next[t] \in Nat
      BY <1>0, <1>2 DEF EnqueueNext, TypeOK
    <2>4. ~Waiting(q)'
      <3> SUFFICES ASSUME NEW t \in Submissions, NEW i \in 1..Len(Batch[t]),
                          i >= next'[t], Batch[t][i] = q
                   PROVE FALSE
        BY DEF Waiting
      <3>1. t = s /\ i = next[s]
        BY <2>0, <2>1, RunsAssumption
      <3>2. next'[s] = next[s] + 1 /\ next[s] \in Nat
        BY <1>0, <1>2 DEF EnqueueNext, TypeOK
      <3>3. next[s] >= next[s] + 1
        BY <3>1, <3>2
      <3> QED
        BY <3>2, <3>3
    <2>5. ASSUME NEW r \in Runs, Waiting(r)' PROVE Waiting(r) /\ r # q
      <3>1. PICK t \in Submissions : \E i \in 1..Len(Batch[t]) :
                                       i >= next'[t] /\ Batch[t][i] = r
        BY <2>5 DEF Waiting
      <3>2. PICK i \in 1..Len(Batch[t]) : i >= next'[t] /\ Batch[t][i] = r
        BY <3>1
      <3>3. Waiting(r)
        <4>1. next'[t] \in Nat /\ next'[t] >= next[t] /\ next[t] \in Nat
          BY <1>0, <1>2, <2>3 DEF EnqueueNext, TypeOK
        <4>2. i >= next[t]
          BY <3>2, <4>1
        <4> QED
          BY <3>2, <4>2 DEF Waiting
      <3>4. CASE r = q
        BY <2>4, <2>5, <3>4
      <3> QED
        BY <3>3, <3>4
    <2>6. \A r \in Runs : Held(r)' = Held(r) /\ (Untouched(r)' => Untouched(r))
      BY <1>2, <2>0, <2>2, <2>5 DEF EnqueueNext, worker, Held, Untouched
    <2>7. OneAttempt' /\ ProgressMatchesVerdict'
      BY <1>2 DEF EnqueueNext, db, worker, GracefulInv, OneAttempt, ProgressMatchesVerdict
    <2>8. ASSUME NEW w \in Workers, job[w] # NoRun PROVE AttemptAlone(w)'
      BY <1>2, <2>8 DEF EnqueueNext, db, worker, task, row, runner, AttemptAlone, Present,
         GracefulInv
    <2>9. \A t \in Submissions : phase'[t] = "new" => next'[t] = 1
      BY <1>0, <1>2 DEF EnqueueNext, GracefulInv, TypeOK
    <2>10. \A r \in Runs : Held(r)' /\ r \in queue' => r \in leased'
      BY <1>2, <2>0, <2>2, <2>6 DEF EnqueueNext, GracefulInv
    <2>11. \A r \in Runs : Waiting(r)' => r \notin queue' /\ ~Held(r)'
      BY <1>2, <2>0, <2>5, <2>6 DEF EnqueueNext, GracefulInv
    <2>12. \A r \in Runs : Untouched(r)' => status'[r] \in {"queued", "absent"} /\ simTime'[r] = 0
      BY <1>2, <2>6 DEF EnqueueNext, db, GracefulInv
    <2> QED
      BY <1>2, <2>7, <2>8, <2>9, <2>10, <2>11, <2>12 DEF GracefulInv, EnqueueNext, worker
  <1>3. ASSUME NEW s \in Submissions, CommitIds(s) \/ SubmitRaises(s) \/ SubmitFault(s)
        PROVE GracefulInv'
    <2>1. UNCHANGED <<status, simTime, redis, worker, next>>
      BY <1>3 DEF CommitIds, SubmitRaises, SubmitFault, db
    <2>2. \A t \in Submissions : phase'[t] = "new" => next'[t] = 1
      BY <1>0, <1>3, <2>1 DEF CommitIds, SubmitRaises, SubmitFault, GracefulInv, TypeOK
    <2>3. \A r \in Runs : Held(r)' = Held(r) /\ Waiting(r)' = Waiting(r)
                          /\ Untouched(r)' = Untouched(r)
      BY <2>1 DEF worker, redis, Held, Waiting, Untouched
    <2>4. \A w \in Workers : AttemptAlone(w)' = AttemptAlone(w)
      BY <2>1 DEF worker, task, row, runner, AttemptAlone, Present
    <2> QED
      BY <2>1, <2>2, <2>3, <2>4
      DEF GracefulInv, OneAttempt, ProgressMatchesVerdict, worker, redis
  <1>4. ASSUME NEW q \in Runs, RequestCancel(q) \/ DeleteRun(q) PROVE GracefulInv'
    <2>1. UNCHANGED <<redis, worker, api>>
      BY <1>4 DEF RequestCancel, DeleteRun
    <2>2. \A r \in Runs : \/ status'[r] = status[r] /\ simTime'[r] = simTime[r]
                          \/ status'[r] = "absent" /\ simTime'[r] = 0
      BY <1>0, <1>4 DEF RequestCancel, DeleteRun, TypeOK
    <2>3. \A r \in Runs : Held(r)' = Held(r) /\ Waiting(r)' = Waiting(r)
                          /\ Untouched(r)' = Untouched(r)
      BY <2>1 DEF worker, redis, api, Held, Waiting, Untouched
    <2>4. ASSUME NEW w \in Workers, job[w] # NoRun PROVE AttemptAlone(w)'
      <3>1. job[w] \in Runs /\ AttemptAlone(w)
        BY <1>0, <2>4 DEF GracefulInv, TypeOK
      <3> QED
        BY <2>1, <2>2, <3>1 DEF worker, task, row, runner, AttemptAlone, Present
    <2>5. OneAttempt' /\ ProgressMatchesVerdict'
      BY <2>1, <2>2 DEF worker, GracefulInv, OneAttempt, ProgressMatchesVerdict
    <2>6. \A r \in Runs : Untouched(r)' => status'[r] \in {"queued", "absent"} /\ simTime'[r] = 0
      BY <2>2, <2>3 DEF GracefulInv
    <2> QED
      BY <2>1, <2>3, <2>4, <2>5, <2>6 DEF GracefulInv, worker, redis, api
  <1> QED
    BY <1>1, <1>2, <1>3, <1>4 DEF SubmitStep

\* What arq does.
LEMMA QueueStepGraceful ==
  ASSUME IInv, GracefulInv,
         \/ \E w \in Workers, r \in Runs : Pick(w, r) \/ GiveUp(w, r)
         \/ \E w \in Workers : FinishJob(w)
         \/ \E r \in Runs : LeaseExpires(r)
         \/ RedisLost
  PROVE GracefulInv'
  <1>0. TypeOK /\ AttemptInv
    BY DEF IInv, AttemptInv
  <1>1. ASSUME NEW w \in Workers, NEW q \in Runs, Pick(w, q) \/ GiveUp(w, q)
        PROVE GracefulInv'
    <2>1. /\ pc[w] = "idle" /\ q \in queue /\ q \notin leased /\ leased' = leased \cup {q}
          /\ job' = [job EXCEPT ![w] = q] /\ UNCHANGED <<db, queue, task, api>>
          /\ pc' \in {[pc EXCEPT ![w] = "load"], [pc EXCEPT ![w] = "drop"]}
      BY <1>1 DEF Pick, GiveUp, Lease, Goto
    <2>2. ~Held(q) /\ ~Waiting(q) /\ Untouched(q)
      BY <2>1 DEF GracefulInv, Untouched
    <2>3. status[q] \in {"queued", "absent"} /\ simTime[q] = 0
      BY <2>2 DEF GracefulInv
    <2>4. lap[w] = 0 /\ verdict[w] = "none" /\ job[w] = NoRun /\ q # NoRun
      BY <2>1, RunsAssumption DEF IInv, AttemptOK
    <2>5. job'[w] = q /\ (\A v \in Workers : v # w => job'[v] = job[v] /\ pc'[v] = pc[v])
          /\ pc'[w] \in {"load", "drop"}
      BY <1>0, <2>1 DEF TypeOK
    <2>6. \A r \in Runs : /\ Held(r)' <=> Held(r) \/ r = q
                          /\ Waiting(r)' = Waiting(r)
                          /\ Untouched(r)' => Untouched(r)
      <3>1. \A r \in Runs : Held(r)' <=> Held(r) \/ r = q
        BY <2>4, <2>5, RunsAssumption DEF Held
      <3>2. \A r \in Runs : Waiting(r)' = Waiting(r)
        BY <2>1 DEF api, Waiting
      <3> QED
        BY <2>1, <3>1, <3>2 DEF Untouched
    <2>7. OneAttempt'
      BY <2>2, <2>4, <2>5 DEF GracefulInv, OneAttempt, Held
    <2>8. AttemptAlone(w)'
      BY <2>1, <2>3, <2>4, <2>5 DEF db, task, row, runner, AttemptAlone, Present
    <2>9. ASSUME NEW v \in Workers, v # w, job'[v] # NoRun PROVE AttemptAlone(v)'
      BY <2>1, <2>5, <2>9 DEF db, task, row, runner, AttemptAlone, Present, GracefulInv
    <2>10. ProgressMatchesVerdict'
      BY <2>1 DEF db, ProgressMatchesVerdict, GracefulInv
    <2>11. \A r \in Runs : Held(r)' /\ r \in queue' => r \in leased'
      BY <2>1, <2>6 DEF GracefulInv
    <2>12. \A r \in Runs : Waiting(r)' => r \notin queue' /\ ~Held(r)'
      BY <2>1, <2>2, <2>6 DEF GracefulInv
    <2>13. \A r \in Runs : Untouched(r)' => status'[r] \in {"queued", "absent"} /\ simTime'[r] = 0
      BY <2>1, <2>6 DEF db, GracefulInv
    <2>14. \A s \in Submissions : phase'[s] = "new" => next'[s] = 1
      BY <2>1 DEF api, GracefulInv
    <2> QED
      BY <2>7, <2>8, <2>9, <2>10, <2>11, <2>12, <2>13, <2>14 DEF GracefulInv
  <1>2. ASSUME NEW w \in Workers, FinishJob(w) PROVE GracefulInv'
    <2> DEFINE q == job[w]
    <2>1. /\ q \in Runs /\ q # NoRun /\ queue' = queue \ {q} /\ leased' = leased \ {q}
          /\ job' = [job EXCEPT ![w] = NoRun] /\ UNCHANGED <<db, api>>
      BY <1>0, <1>2, WorkingHasJob, RunsAssumption DEF FinishJob, Abandon
    <2>2. Held(q) /\ ~Waiting(q)
      BY <2>1, HeldIsTouched DEF Held
    <2>3. \A v \in Workers : v # w => /\ job'[v] = job[v] /\ pc'[v] = pc[v]
                                      /\ rowTime'[v] = rowTime[v] /\ lap'[v] = lap[v]
                                      /\ verdict'[v] = verdict[v] /\ job[v] # q
      BY <1>0, <1>2, <2>1 DEF FinishJob, Abandon, Goto, TypeOK, GracefulInv, OneAttempt
    <2>4. \A r \in Runs : /\ Held(r)' <=> Held(r) /\ r # q
                          /\ Waiting(r)' = Waiting(r)
                          /\ Untouched(r)' => Untouched(r)
      <3>1. \A v \in Workers : job'[v] = IF v = w THEN NoRun ELSE job[v]
        BY <1>0, <2>1 DEF TypeOK
      <3>2. \A r \in Runs : Held(r)' <=> Held(r) /\ r # q
        BY <2>3, <3>1, RunsAssumption DEF Held
      <3>3. \A r \in Runs : Waiting(r)' = Waiting(r)
        BY <2>1 DEF api, Waiting
      <3> QED
        BY <2>1, <2>2, <3>2, <3>3 DEF Untouched
    <2>5. OneAttempt' /\ job'[w] = NoRun
      BY <1>0, <2>1, <2>3 DEF GracefulInv, OneAttempt, TypeOK
    <2>6. ASSUME NEW v \in Workers, job'[v] # NoRun PROVE AttemptAlone(v)'
      BY <2>1, <2>3, <2>5, <2>6 DEF db, AttemptAlone, Present, GracefulInv
    <2>7. ProgressMatchesVerdict'
      BY <2>1 DEF db, ProgressMatchesVerdict, GracefulInv
    <2>8. \A r \in Runs : Held(r)' /\ r \in queue' => r \in leased'
      BY <2>1, <2>4 DEF GracefulInv
    <2>9. \A r \in Runs : Waiting(r)' => r \notin queue' /\ ~Held(r)'
      BY <2>1, <2>4 DEF GracefulInv
    <2>10. \A r \in Runs : Untouched(r)' => status'[r] \in {"queued", "absent"} /\ simTime'[r] = 0
      BY <2>1, <2>4 DEF db, GracefulInv
    <2>11. \A s \in Submissions : phase'[s] = "new" => next'[s] = 1
      BY <2>1 DEF api, GracefulInv
    <2> QED
      BY <2>5, <2>6, <2>7, <2>8, <2>9, <2>10, <2>11 DEF GracefulInv
  <1>3. ASSUME \/ \E r \in Runs : LeaseExpires(r)
               \/ RedisLost
        PROVE GracefulInv'
    <2>1. /\ UNCHANGED <<db, worker, api>> /\ queue' \subseteq queue
          /\ \A r \in Runs : Held(r) /\ r \in queue' => r \in leased'
      BY <1>3 DEF LeaseExpires, RedisLost, GracefulInv
    <2>2. \A r \in Runs : Held(r)' = Held(r) /\ Waiting(r)' = Waiting(r)
                          /\ (Untouched(r)' => Untouched(r))
      BY <2>1 DEF worker, api, Held, Waiting, Untouched
    <2>3. \A w \in Workers : AttemptAlone(w)' = AttemptAlone(w)
      BY <2>1 DEF db, worker, task, row, runner, AttemptAlone, Present
    <2> QED
      BY <2>1, <2>2, <2>3
      DEF GracefulInv, OneAttempt, ProgressMatchesVerdict, db, worker, api
  <1> QED
    BY <1>1, <1>2, <1>3

LEMMA StutterGraceful == GracefulInv /\ UNCHANGED vars => GracefulInv'
  <1> SUFFICES ASSUME GracefulInv, UNCHANGED vars PROVE GracefulInv'
    OBVIOUS
  <1>1. \A r \in Runs : Held(r)' = Held(r) /\ Waiting(r)' = Waiting(r)
                        /\ Untouched(r)' = Untouched(r)
    BY DEF vars, worker, redis, api, Held, Waiting, Untouched
  <1>2. \A w \in Workers : AttemptAlone(w)' = AttemptAlone(w)
    BY DEF vars, db, worker, task, row, runner, AttemptAlone, Present
  <1> QED
    BY <1>1, <1>2
    DEF vars, GracefulInv, OneAttempt, ProgressMatchesVerdict, db, redis, worker, api

LEMMA GracefulStep ==
  DeliveredOnce /\ IInv /\ QueuedIsUnmarked /\ GracefulInv /\ [Next]_vars => GracefulInv'
  <1> SUFFICES ASSUME DeliveredOnce, IInv, QueuedIsUnmarked, GracefulInv, [Next]_vars
               PROVE GracefulInv'
    OBVIOUS
  <1>0. used \in [FaultKinds -> Nat]
    BY DEF IInv, TypeOK
  <1>1. CASE UNCHANGED vars
    BY <1>1, StutterGraceful
  <1>2. CASE \/ ClientStep
             \/ \E s \in Submissions : SubmitStep(s) \/ SubmitFault(s)
    BY <1>2, ApiStepGraceful DEF ClientStep
  <1>3. CASE \/ \E w \in Workers, r \in Runs : Pick(w, r) \/ GiveUp(w, r)
             \/ \E w \in Workers : FinishJob(w)
             \/ \E r \in Runs : LeaseExpires(r)
             \/ RedisLost
    BY <1>3, QueueStepGraceful
  <1>4. ASSUME NEW w \in Workers, TaskStep(w) \/ Timeout(w) PROVE GracefulInv'
    BY <1>4, TaskStepGraceful
  <1>5. ASSUME NEW w \in Workers, Crash(w) \/ Shutdown(w) PROVE FALSE
    BY <1>0, <1>5 DEF DeliveredOnce, Crash, Shutdown, Spend, FaultKinds
  <1>6. ASSUME NEW r \in Runs, LeaseOutlived(r) PROVE FALSE
    BY <1>0, <1>6 DEF DeliveredOnce, LeaseOutlived, Spend, FaultKinds
  <1> QED
    BY <1>1, <1>2, <1>3, <1>4, <1>5, <1>6 DEF Next, WorkerStep, FaultStep

\* As long as no job is delivered twice: no two workers are at the same run, and
\* the progress in its row agrees with its verdict.
THEOREM GracefulInvariance ==
  ASSUME DeliveredOnce PROVE Spec => [](IInv /\ GracefulInv)
  <1>1. Init => IInv /\ QueuedIsUnmarked /\ GracefulInv
    BY InitIInv, InitQueued, InitGraceful
  <1>2. IInv /\ QueuedIsUnmarked /\ GracefulInv /\ [Next]_vars
          => (IInv /\ QueuedIsUnmarked /\ GracefulInv)'
    BY InvariantStep, QueuedStep, GracefulStep
  <1> QED
    BY <1>1, <1>2, PTL DEF Spec

\* As long as no job is delivered twice, no two workers are ever at one run.
THEOREM AttemptsAreAlone == ASSUME DeliveredOnce PROVE Spec => []OneAttempt
  <1>1. GracefulInv => OneAttempt
    BY DEF GracefulInv
  <1> QED
    BY <1>1, GracefulInvariance, PTL

\* As long as no job is delivered twice, sim_time_now agrees with the verdict.
THEOREM ProgressIsTruthful == ASSUME DeliveredOnce PROVE Spec => []ProgressMatchesVerdict
  <1>1. GracefulInv => ProgressMatchesVerdict
    BY DEF GracefulInv
  <1> QED
    BY <1>1, GracefulInvariance, PTL

-----------------------------------------------------------------------------
(* The refinement of RunLifecycle.                                         *)

\* What a client sees of a run, and what a step leaves of it.
Seen(r) == IF Present(r) THEN status[r] ELSE IF Unborn(r) THEN "unborn" ELSE "deleted"

LEMMA PrefixCardinality == ASSUME NEW n \in Nat PROVE Cardinality(Prefix(n)) = n
  <1> DEFINE f == [i \in 0..(n - 1) |-> <<i, i>>]
  <1>1. IsFiniteSet(0..(n - 1)) /\ Cardinality(0..(n - 1)) = n
    BY FS_Interval
  <1>2. f \in Bijection(0..(n - 1), Prefix(n))
    BY DEF Bijection, Injection, Surjection, IsInjective, Prefix
  <1>3. ExistsBijection(0..(n - 1), Prefix(n))
    BY <1>2 DEF ExistsBijection
  <1> QED
    BY <1>1, <1>3, FS_Bijection

\* Only a submission that stops being new gives birth.
LEMMA UnbornKept ==
  ASSUME \A s \in Submissions : phase'[s] = "new" <=> phase[s] = "new"
  PROVE \A r \in Runs : Unborn(r)' <=> Unborn(r)
  BY DEF Unborn

LEMMA SeenKept ==
  ASSUME UNCHANGED <<status, cancelReq, events>>,
         \A s \in Submissions : phase'[s] = "new" <=> phase[s] = "new"
  PROVE UNCHANGED Lifecycle!vars
  <1>1. \A r \in Runs : Seen(r)' = Seen(r)
    BY UnbornKept DEF Seen, Present
  <1> QED
    BY <1>1 DEF Lifecycle!vars, Seen

LEMMA SubmitSeen ==
  ASSUME IInv, NEW s \in Submissions, SubmitRows(s)
  PROVE Lifecycle!Next
  <1> DEFINE batch == {r \in Runs : InBatch(s, r)}
  <1>0. TypeOK /\ UnbornUntouched
    BY DEF IInv
  <1>1. \A r \in batch : Seen(r) = "unborn" /\ Seen(r)' = "queued"
    BY <1>0, <1>0 DEF SubmitRows, UnbornUntouched, Unborn, Seen, Present
  <1>2. ASSUME NEW r \in Runs \ batch PROVE Seen(r)' = Seen(r)
    <2>1. Unborn(r)' <=> Unborn(r)
      BY <1>0 DEF SubmitRows, Unborn, TypeOK
    <2> QED
      BY <2>1 DEF SubmitRows, Seen, Present
  <1>3. Lifecycle!Submit(batch)
    BY <1>1, <1>2 DEF SubmitRows, Lifecycle!Submit, Seen
  <1> QED
    BY <1>3 DEF Lifecycle!Next

LEMMA ClientSeen ==
  ASSUME IInv, NEW q \in Runs, RequestCancel(q) \/ DeleteRun(q)
  PROVE Lifecycle!Next
  <1>0. TypeOK /\ ~Unborn(q) /\ Present(q)
    BY DEF IInv, UnbornUntouched, RequestCancel, DeleteRun
  <1>1. Seen(q) \notin {"unborn", "deleted"}
    BY <1>0 DEF Seen, TypeOK, Statuses, Terminal
  <1>2. \A r \in Runs : Unborn(r)' <=> Unborn(r)
    BY DEF RequestCancel, DeleteRun, api, Unborn
  <1>3. CASE RequestCancel(q)
    <2>1. \A r \in Runs : Seen(r)' = Seen(r)
      BY <1>2, <1>3 DEF RequestCancel, Seen, Present
    <2>2. Lifecycle!Ask(q)
      BY <1>1, <1>3, <2>1 DEF RequestCancel, Lifecycle!Ask, Seen
    <2> QED
      BY <2>2 DEF Lifecycle!Next
  <1>4. CASE DeleteRun(q)
    <2>1. \A r \in Runs : Seen(r)' = IF r = q THEN "deleted" ELSE Seen(r)
      BY <1>0, <1>2, <1>4 DEF DeleteRun, Seen, Present, TypeOK
    <2>2. \A r \in Runs : events'[r] = IF r = q THEN {} ELSE events[r]
      BY <1>0, <1>4 DEF DeleteRun, TypeOK
    <2>3. \A r \in Runs :
            Cardinality(events'[r]) = IF r = q THEN 0 ELSE Cardinality(events[r])
      BY <2>2, FS_EmptySet
    <2>4. cancelReq' = [cancelReq EXCEPT ![q] = FALSE]
      BY <1>4 DEF DeleteRun
    <2>5. Lifecycle!Delete(q)
      BY <1>1, <2>1, <2>3, <2>4 DEF Lifecycle!Delete, Seen
    <2> QED
      BY <2>5 DEF Lifecycle!Next
  <1> QED
    BY <1>3, <1>4

\* A worker changes the status of its run alone.
LEMMA StatusSeen ==
  ASSUME IInv, NEW q \in Runs, NEW new \in Statuses, new # "absent", Present(q),
         status' = [status EXCEPT ![q] = new], phase' = phase
  PROVE \A r \in Runs : Seen(r)' = IF r = q THEN new ELSE Seen(r)
  BY DEF IInv, TypeOK, Seen, Present, Unborn

LEMMA SettleSeen ==
  ASSUME IInv, IInv', NEW q \in Runs, NEW new \in Terminal, Present(q), status[q] = "running",
         status' = [status EXCEPT ![q] = new], UNCHANGED <<cancelReq, events, phase>>
  PROVE Lifecycle!Next
  <1>1. \A r \in Runs : Seen(r)' = IF r = q THEN new ELSE Seen(r)
    BY StatusSeen DEF Statuses, Terminal
  <1>2. Seen(q) = "running"
    BY DEF Seen
  <1>3. status'[q] = new
    BY DEF IInv, TypeOK
  <1>4. /\ new = "completed" => Ends(q) /\ events[q] = Prefix(Total(q))
        /\ new = "cancelled" => cancelReq[q]
        /\ new = "failed" => ~Ends(q)
    BY <1>3 DEF IInv, TruthfulVerdict
  <1>5. new = "completed" => Cardinality(events[q]) = Total(q)
    BY <1>4, PrefixCardinality, TotalType
  <1>6. Lifecycle!Settle(q, new)
    BY <1>1, <1>2, <1>4, <1>5 DEF Lifecycle!Settle, Seen
  <1> QED
    BY <1>6 DEF Lifecycle!Next, Terminal

LEMMA MarkSeen ==
  ASSUME IInv, GracefulInv, NEW w \in Workers, Mark(w)
  PROVE [Lifecycle!Next]_(Lifecycle!vars)
  <1>0. PICK q \in Runs : q = job[w]
    BY WorkingHasJob DEF IInv, AttemptInv, Mark
  <1>1. q # NoRun /\ Present(q)
    BY <1>0, RunsAssumption DEF Mark
  <1>2. status[q] = "queued"
    BY <1>0, <1>1 DEF GracefulInv, AttemptAlone, Mark
  <1>3. status' = [status EXCEPT ![q] = "running"] \/ status' = status
    BY <1>0 DEF Mark, IInv, TypeOK
  <1>4. CASE status' = status
    BY <1>4, SeenKept DEF Mark, api
  <1>5. CASE status' = [status EXCEPT ![q] = "running"]
    <2>1. \A r \in Runs : Seen(r)' = IF r = q THEN "running" ELSE Seen(r)
      BY <1>1, <1>5, StatusSeen DEF Mark, api, Statuses
    <2>2. Seen(q) = "queued"
      BY <1>1, <1>2 DEF Seen
    <2>3. Lifecycle!Begin(q)
      BY <1>1, <2>1, <2>2 DEF Mark, Lifecycle!Begin, Seen
    <2> QED
      BY <1>1, <2>3 DEF Lifecycle!Next
  <1> QED
    BY <1>3, <1>4, <1>5

LEMMA ChunkSeen ==
  ASSUME IInv, GracefulInv, NEW w \in Workers, OnChunk(w)
  PROVE [Lifecycle!Next]_(Lifecycle!vars)
  <1> DEFINE q == job[w]
  <1>1. q \in Runs /\ q # NoRun /\ Present(q)
    BY OnChunkStores, RunsAssumption DEF OnChunk
  <1>2. status[q] = "running"
    BY <1>1 DEF GracefulInv, AttemptAlone, OnChunk
  <1>3. CASE events' = events
    BY <1>3, SeenKept DEF OnChunk, api
  <1>4. CASE events' # events
    <2>1. /\ seq[w] \in Nat /\ emitted[w] \in Nat /\ seq[w] <= emitted[w]
          /\ emitted[w] <= Total(q) /\ events[q] = Prefix(seq[w])
          /\ events' = [events EXCEPT ![q] = Prefix(emitted[w])]
      BY <1>4, OnChunkStores
    <2>2. Cardinality(events[q]) = seq[w] /\ Total(q) \in Nat
      BY <1>1, <2>1, PrefixCardinality, TotalType
    <2>3. \A r \in Runs : events'[r] = IF r = q THEN Prefix(emitted[w]) ELSE events[r]
      BY <2>1 DEF IInv, TypeOK
    <2>4. \A r \in Runs :
            Cardinality(events'[r]) = IF r = q THEN emitted[w] ELSE Cardinality(events[r])
      BY <2>1, <2>3, PrefixCardinality
    <2>5. \A r \in Runs : Seen(r)' = Seen(r)
      BY DEF OnChunk, api, Seen, Present, Unborn
    <2>6. Seen(q) = "running"
      BY <1>1, <1>2 DEF Seen
    <2>7. emitted[w] \in Cardinality(events[q])..Total(q)
      BY <2>1, <2>2
    <2>8. Lifecycle!Progress(q)
      BY <1>1, <2>4, <2>5, <2>6, <2>7 DEF OnChunk, Lifecycle!Progress, Seen
    <2> QED
      BY <1>1, <2>8 DEF Lifecycle!Next
  <1> QED
    BY <1>3, <1>4

LEMMA VerdictSeen ==
  ASSUME IInv, IInv', GracefulInv, NEW w \in Workers, Finish(w) \/ Fail(w)
  PROVE Lifecycle!Next
  <1> DEFINE q == job[w]
  <1>1. q \in Runs /\ q # NoRun /\ Present(q)
    BY WorkingHasJob, RunsAssumption DEF IInv, AttemptInv, Finish, Fail
  <1>2. status[q] = "running"
    BY <1>1 DEF GracefulInv, AttemptAlone, Finish, Fail
  <1>3. CASE Finish(w)
    <2>1. verdict[w] \in Terminal
      BY <1>3 DEF IInv, TypeOK, AttemptOK, Finish, Verdicts, Terminal
    <2> QED
      BY <1>1, <1>2, <1>3, <2>1, SettleSeen DEF Finish, api
  <1>4. CASE Fail(w)
    BY <1>1, <1>2, <1>4, SettleSeen DEF Fail, api, Terminal
  <1> QED
    BY <1>3, <1>4

\* Every step is one of the life of a run, or none of it can be seen.
LEMMA LifecycleStep ==
  DeliveredOnce /\ IInv /\ GracefulInv /\ [Next]_vars => [Lifecycle!Next]_(Lifecycle!vars)
  <1> SUFFICES ASSUME DeliveredOnce, IInv, GracefulInv, [Next]_vars
               PROVE [Lifecycle!Next]_(Lifecycle!vars)
    OBVIOUS
  <1>0. IInv' /\ TypeOK
    BY InvariantStep DEF IInv
  <1>1. CASE UNCHANGED vars
    BY <1>1, SeenKept DEF vars, db, api
  <1>2. ASSUME NEW s \in Submissions, SubmitStep(s) \/ SubmitFault(s)
        PROVE UNCHANGED Lifecycle!vars
    <2>1. UNCHANGED db /\ (\A t \in Submissions : phase'[t] = "new" <=> phase[t] = "new")
      BY <1>0, <1>2 DEF SubmitStep, EnqueueNext, CommitIds, SubmitRaises, SubmitFault, TypeOK
    <2> QED
      BY <2>1, SeenKept DEF db
  <1>3. ASSUME NEW w \in Workers, FinishJob(w) \/ Crash(w) \/ Shutdown(w) \/ Timeout(w)
        PROVE UNCHANGED Lifecycle!vars
    BY <1>3, SeenKept DEF FinishJob, Crash, Shutdown, Timeout, db, api
  <1>4. ASSUME NEW w \in Workers, NEW q \in Runs,
               Pick(w, q) \/ GiveUp(w, q) \/ LeaseExpires(q) \/ LeaseOutlived(q)
        PROVE UNCHANGED Lifecycle!vars
    BY <1>4, SeenKept DEF Pick, GiveUp, Lease, LeaseExpires, LeaseOutlived, db, api
  <1>5. CASE RedisLost \/ (\E q \in Runs : LeaseExpires(q) \/ LeaseOutlived(q))
    BY <1>5, SeenKept DEF RedisLost, LeaseExpires, LeaseOutlived, db, api
  <1>6. ASSUME NEW w \in Workers, TaskStep(w)
        PROVE [Lifecycle!Next]_(Lifecycle!vars)
    <2>1. CASE Load(w) \/ Start(w) \/ StopCancelled(w) \/ RunLap(w) \/ LogCurrentState(w)
               \/ Raise(w)
      BY <2>1, SeenKept DEF Load, Start, StopCancelled, RunLap, LogCurrentState, Raise, db, api
    <2> QED
      BY <1>0, <1>6, <2>1, MarkSeen, ChunkSeen, VerdictSeen DEF TaskStep
  <1> QED
    BY <1>1, <1>2, <1>3, <1>4, <1>5, <1>6, SubmitSeen, ClientSeen
    DEF Next, ClientStep, WorkerStep, FaultStep

LEMMA InitLifecycle == Init => Lifecycle!Init
  <1> SUFFICES ASSUME Init PROVE Lifecycle!Init
    OBVIOUS
  <1>1. \A r \in Runs : ~Present(r) /\ Unborn(r) /\ Cardinality(events[r]) = 0
    BY RunsAssumption, FS_EmptySet DEF Init, Present, Unborn
  <1> QED
    BY <1>1 DEF Lifecycle!Init, Init

\* As long as no job is delivered twice, rows, jobs, leases and attempts together
\* are to a client the forward-only life of a run.
THEOREM RunsHaveOneLife == ASSUME DeliveredOnce PROVE Spec => ImplementsLifecycle
  <1>1. IInv /\ GracefulInv /\ [Next]_vars => [Lifecycle!Next]_(Lifecycle!vars)
    BY LifecycleStep
  <1> QED
    BY <1>1, InitLifecycle, GracefulInvariance, PTL DEF ImplementsLifecycle, Lifecycle!Spec, Spec

\* A run that has its verdict keeps it or is deleted.
LEMMA LifeIsForward ==
  ASSUME NEW r \in Runs, Seen(r) \in Terminal, [Lifecycle!Next]_(Lifecycle!vars)
  PROVE Seen(r)' \in {Seen(r), "deleted"}
  <1> DEFINE state == [q \in Runs |-> IF Present(q) THEN status[q]
                                     ELSE IF Unborn(q) THEN "unborn" ELSE "deleted"]
  <1>1. state[r] = Seen(r) /\ state'[r] = Seen(r)'
    BY DEF Seen
  <1>2. state[r] \in Terminal
    BY <1>1
  <1>3. CASE UNCHANGED Lifecycle!vars
    BY <1>1, <1>3 DEF Lifecycle!vars
  <1>4. ASSUME NEW batch \in SUBSET Runs, Lifecycle!Submit(batch) PROVE state'[r] = state[r]
    BY <1>2, <1>4 DEF Lifecycle!Submit, Terminal
  <1>5. ASSUME NEW q \in Runs, Lifecycle!Begin(q) PROVE state'[r] = state[r]
    BY <1>2, <1>5 DEF Lifecycle!Begin, Terminal
  <1>6. ASSUME NEW q \in Runs, Lifecycle!Progress(q) \/ Lifecycle!Ask(q)
        PROVE state'[r] = state[r]
    BY <1>6 DEF Lifecycle!Progress, Lifecycle!Ask
  <1>7. ASSUME NEW q \in Runs, Lifecycle!Delete(q)
        PROVE state'[r] = state[r] \/ state'[r] = "deleted"
    BY <1>7 DEF Lifecycle!Delete
  <1>8. ASSUME NEW q \in Runs, NEW new \in Terminal, Lifecycle!Settle(q, new)
        PROVE state'[r] = state[r]
    BY <1>2, <1>8 DEF Lifecycle!Settle, Terminal
  <1> HIDE DEF state
  <1> QED
    BY <1>1, <1>3, <1>4, <1>5, <1>6, <1>7, <1>8 DEF Lifecycle!Next, Terminal

\* As long as no job is delivered twice, a verdict is kept until the run is deleted.
THEOREM VerdictsAreKept == ASSUME DeliveredOnce PROVE Spec => VerdictIsFinal
  <1>1. IInv /\ GracefulInv /\ [Next]_vars =>
          [\A r \in Runs : status[r] \in Terminal =>
             status'[r] \in {status[r], "absent"}]_vars
    <2> SUFFICES ASSUME IInv, GracefulInv, [Next]_vars,
                        NEW r \in Runs, status[r] \in Terminal
                 PROVE status'[r] \in {status[r], "absent"}
      OBVIOUS
    <2>1. TypeOK' /\ [Lifecycle!Next]_(Lifecycle!vars)
      BY InvariantStep, LifecycleStep DEF IInv
    <2>2. Seen(r) = status[r]
      BY DEF Seen, Present, Terminal
    <2>3. Seen(r)' \in {Seen(r), "deleted"}
      BY <2>1, <2>2, LifeIsForward
    <2> QED
      BY <2>1, <2>2, <2>3 DEF Seen, Present, TypeOK, Statuses, Terminal
  <1> QED
    BY <1>1, GracefulInvariance, PTL DEF VerdictIsFinal, Spec

-----------------------------------------------------------------------------
(* A queued run is not forgotten.                                          *)

\* Jobs and their data stay in Redis, no attempt is timed out, and arq has more
\* tries for a job than workers die, are stopped or outlive a lease.
NothingLost ==
  /\ Budget["timeout"] = 0 /\ Budget["expiry"] = 0 /\ Budget["redisLoss"] = 0
  /\ Budget["crash"] + Budget["shutdown"] + Budget["outlive"] < MaxTries

Interruptions == used["crash"] + used["shutdown"] + used["outlive"]

\* Every try but the current one was interrupted.
TriesAreInterrupted ==
  /\ \A k \in FaultKinds : used[k] <= Budget[k]
  /\ \A r \in Runs :
       tries[r] <= Interruptions + (IF r \in leased /\ Held(r) THEN 1 ELSE 0)

\* A run is queued until an attempt at it is over, and what was enqueued of it stays.
KeptInQueue ==
  /\ \A s \in Submissions : phase[s] = "new" => next[s] = 1
  /\ \A s \in Submissions : phase[s] = "answered" => next[s] > Len(Batch[s])
  /\ \A w \in Workers : pc[w] # "drop"
  /\ \A w \in Workers, r \in Runs :
       pc[w] = "return" /\ job[w] = r => status[r] # "queued"
  /\ \A s \in Submissions : \A i \in 1..Len(Batch[s]) :
       i < next[s] /\ status[Batch[s][i]] = "queued" => Batch[s][i] \in queue

LEMMA TriesStep ==
  ASSUME IInv, TriesAreInterrupted, [Next]_vars
  PROVE TriesAreInterrupted'
  <1>0. TypeOK /\ AttemptInv
    BY DEF IInv, AttemptInv
  <1>1. /\ used \in [FaultKinds -> Nat] /\ Budget \in [FaultKinds -> Nat]
        /\ {"crash", "shutdown", "outlive"} \subseteq FaultKinds
    BY <1>0, BoundsAssumption DEF TypeOK, FaultKinds
  <1>2. ASSUME NEW k \in FaultKinds, Spend(k)
        PROVE /\ \A j \in FaultKinds : used'[j] <= Budget[j] /\ used'[j] >= used[j]
              /\ k \in {"crash", "shutdown", "outlive"} => Interruptions' = Interruptions + 1
              /\ Interruptions' >= Interruptions
    <2>1. \A j \in FaultKinds : used'[j] = IF j = k THEN used[j] + 1 ELSE used[j]
      BY <1>1, <1>2 DEF Spend
    <2>2. \A j \in FaultKinds : used'[j] <= Budget[j] /\ used'[j] >= used[j]
      BY <1>1, <1>2, <2>1 DEF Spend, TriesAreInterrupted
    <2> QED
      BY <1>1, <2>1, <2>2 DEF Interruptions
  <1>3. Interruptions \in Nat
    BY <1>1 DEF Interruptions
  <1>4. ASSUME \A k \in FaultKinds : used'[k] <= Budget[k],
               Interruptions' \in Nat, Interruptions' >= Interruptions,
               \A r \in Runs : tries'[r] \in {0, tries[r]},
               \A r \in Runs : r \in leased /\ Held(r) => r \in leased' /\ Held(r)'
        PROVE TriesAreInterrupted'
    BY <1>0, <1>3, <1>4 DEF TriesAreInterrupted, TypeOK
  <1>5. ASSUME \A k \in FaultKinds : used'[k] <= Budget[k],
               Interruptions' = Interruptions + 1,
               \A r \in Runs : tries'[r] = tries[r]
        PROVE TriesAreInterrupted'
    BY <1>0, <1>3, <1>5 DEF TriesAreInterrupted, TypeOK
  <1>6. ASSUME UNCHANGED <<tries, leased, job, used>> PROVE TriesAreInterrupted'
    BY <1>6 DEF TriesAreInterrupted, Interruptions, Held
  <1>7. ASSUME NEW w \in Workers, NEW q \in Runs, Pick(w, q) \/ GiveUp(w, q)
        PROVE TriesAreInterrupted'
    <2>1. /\ q \notin leased /\ leased' = leased \cup {q}
          /\ tries' = [tries EXCEPT ![q] = @ + 1]
          /\ job' = [job EXCEPT ![w] = q] /\ pc[w] = "idle"
      BY <1>7 DEF Pick, GiveUp, Lease
    <2>2. /\ \A k \in FaultKinds : used'[k] <= Budget[k]
          /\ Interruptions' \in Nat /\ Interruptions' >= Interruptions
      <3>1. CASE UNCHANGED used
        BY <1>3, <3>1 DEF TriesAreInterrupted, Interruptions
      <3>2. CASE Spend("expiry")
        <4>1. used' \in [FaultKinds -> Nat]
          BY <1>1, <3>2 DEF Spend, FaultKinds
        <4> QED
          BY <1>1, <1>2, <3>2, <4>1 DEF FaultKinds, Interruptions
      <3> QED
        BY <1>7, <3>1, <3>2 DEF Pick, GiveUp
    <2>3. job'[w] = q /\ job[w] = NoRun /\ (\A v \in Workers : v # w => job'[v] = job[v])
      BY <1>0, <2>1 DEF AttemptInv, AttemptOK, TypeOK
    <2>4. \A r \in Runs : Held(r)' <=> Held(r) \/ r = q
      BY <2>3, RunsAssumption DEF Held
    <2>5. \A r \in Runs : tries'[r] = IF r = q THEN tries[r] + 1 ELSE tries[r]
      BY <1>0, <2>1 DEF TypeOK
    <2>6. \A r \in Runs : tries[r] \in Nat
      BY <1>0 DEF TypeOK
    <2>7. ASSUME NEW r \in Runs, r # q
          PROVE tries'[r] <= Interruptions' + (IF r \in leased' /\ Held(r)' THEN 1 ELSE 0)
      BY <1>3, <2>1, <2>2, <2>4, <2>5, <2>6, <2>7 DEF TriesAreInterrupted
    <2>8. tries'[q] <= Interruptions' + 1 /\ q \in leased' /\ Held(q)'
      BY <1>3, <2>1, <2>2, <2>4, <2>5, <2>6 DEF TriesAreInterrupted
    <2> QED
      BY <2>2, <2>7, <2>8 DEF TriesAreInterrupted
  <1>8. ASSUME NEW w \in Workers, FinishJob(w) PROVE TriesAreInterrupted'
    <2> DEFINE q == job[w]
    <2>1. /\ q \in Runs /\ leased' = leased \ {q} /\ UNCHANGED used
          /\ tries' = [tries EXCEPT ![q] = 0] /\ job' = [job EXCEPT ![w] = NoRun]
      BY <1>0, <1>8, WorkingHasJob DEF FinishJob, Abandon
    <2>2. \A r \in Runs : tries'[r] = IF r = q THEN 0 ELSE tries[r]
      BY <1>0, <2>1 DEF TypeOK
    <2>3. \A r \in Runs : r # q /\ r \in leased /\ Held(r) => r \in leased' /\ Held(r)'
      BY <1>0, <2>1 DEF Held, TypeOK
    <2>4. Interruptions' = Interruptions /\ \A k \in FaultKinds : used'[k] <= Budget[k]
      BY <2>1 DEF Interruptions, TriesAreInterrupted
    <2>5. ASSUME NEW r \in Runs, r # q
          PROVE tries'[r] <= Interruptions' + (IF r \in leased' /\ Held(r)' THEN 1 ELSE 0)
      BY <1>0, <1>3, <2>2, <2>3, <2>4, <2>5 DEF TriesAreInterrupted, TypeOK
    <2>6. ASSUME NEW r \in Runs, r = q
          PROVE tries'[r] <= Interruptions' + (IF r \in leased' /\ Held(r)' THEN 1 ELSE 0)
      BY <1>3, <2>2, <2>4, <2>6
    <2> QED
      BY <2>4, <2>5, <2>6 DEF TriesAreInterrupted
  <1>9. ASSUME NEW r \in Runs, LeaseExpires(r) PROVE TriesAreInterrupted'
    <2>1. \A q \in Runs : q \in leased /\ Held(q) => q \in leased' /\ Held(q)'
      BY <1>9 DEF LeaseExpires, worker, Held
    <2> QED
      BY <1>3, <1>4, <1>9, <2>1 DEF LeaseExpires, TriesAreInterrupted, Interruptions
  <1>10. ASSUME NEW w \in Workers, Crash(w) \/ Shutdown(w) PROVE TriesAreInterrupted'
    BY <1>1, <1>2, <1>5, <1>10 DEF Crash, Shutdown, redis
  <1>11. ASSUME NEW r \in Runs, LeaseOutlived(r) PROVE TriesAreInterrupted'
    BY <1>1, <1>2, <1>5, <1>11 DEF LeaseOutlived
  <1>12. ASSUME NEW w \in Workers, TaskStep(w) PROVE TriesAreInterrupted'
    BY <1>6, <1>12 DEF TaskStep, Load, Mark, Start, StopCancelled, RunLap, LogCurrentState,
       OnChunk, Finish, Fail, Raise, redis
  <1>13. ASSUME NEW k \in FaultKinds, Spend(k), \A r \in Runs : tries'[r] \in {0, tries[r]},
                \/ UNCHANGED <<leased, job>>
                \/ \A r \in Runs : tries'[r] = 0
         PROVE TriesAreInterrupted'
    <2>1. used' \in [FaultKinds -> Nat]
      BY <1>1, <1>13 DEF Spend
    <2>2. Interruptions' \in Nat /\ Interruptions' >= Interruptions
          /\ \A j \in FaultKinds : used'[j] <= Budget[j]
      BY <1>1, <1>2, <1>13, <2>1 DEF Interruptions
    <2>3. CASE UNCHANGED <<leased, job>>
      BY <1>4, <1>13, <2>2, <2>3 DEF Held
    <2>4. CASE \A r \in Runs : tries'[r] = 0
      BY <2>2, <2>4 DEF TriesAreInterrupted
    <2> QED
      BY <1>13, <2>3, <2>4
  <1>14. ASSUME NEW s \in Submissions, SubmitFault(s) PROVE TriesAreInterrupted'
    BY <1>13, <1>14 DEF SubmitFault, redis, worker, FaultKinds
  <1>15. ASSUME NEW w \in Workers, Timeout(w) PROVE TriesAreInterrupted'
    BY <1>13, <1>15 DEF Timeout, redis, FaultKinds
  <1>16. CASE RedisLost
    <2>1. \A r \in Runs : tries'[r] = 0
      BY <1>16 DEF RedisLost
    <2> QED
      BY <1>13, <1>16, <2>1 DEF RedisLost, FaultKinds
  <1>17. ASSUME NEW s \in Submissions, SubmitRows(s) \/ SubmitStep(s) PROVE TriesAreInterrupted'
    BY <1>6, <1>17 DEF SubmitRows, SubmitStep, EnqueueNext, CommitIds, SubmitRaises, redis,
       worker
  <1>18. ASSUME NEW r \in Runs, RequestCancel(r) \/ DeleteRun(r) PROVE TriesAreInterrupted'
    BY <1>6, <1>18 DEF RequestCancel, DeleteRun, redis, worker
  <1>19. CASE UNCHANGED vars
    BY <1>6, <1>19 DEF vars, redis, worker
  <1> QED
    BY <1>7, <1>8, <1>9, <1>10, <1>11, <1>12, <1>14, <1>15, <1>16, <1>17, <1>18, <1>19
    DEF Next, ClientStep, WorkerStep, FaultStep

\* A task queues nothing, and an attempt that is over left no queued run behind.
LEMMA TaskQueued ==
  ASSUME IInv, QueuedIsUnmarked, NEW v \in Workers, TaskStep(v), NEW r \in Runs,
         status'[r] = "queued"
  PROVE status[r] = "queued" /\ (job[v] = r => pc'[v] # "return")
  <1>0. TypeOK /\ AttemptOK(v) /\ AttemptInv
    BY DEF IInv, AttemptInv
  <1>1. CASE Load(v) \/ Start(v) \/ StopCancelled(v) \/ RunLap(v) \/ LogCurrentState(v)
             \/ OnChunk(v)
    BY <1>0, <1>1 DEF Load, Start, StopCancelled, RunLap, LogCurrentState, OnChunk, Goto, db,
       TypeOK
  <1>2. CASE Mark(v)
    BY <1>0, <1>2 DEF Mark, Goto, TypeOK
  <1>3. CASE Finish(v)
    BY <1>0, <1>3 DEF Finish, Goto, TypeOK, AttemptOK, Verdicts
  <1>4. CASE Fail(v)
    BY <1>0, <1>4 DEF Fail, Goto, TypeOK
  <1>5. CASE Raise(v)
    <2>1. status[r] = "queued" /\ (job[v] = r => Present(r))
      BY <1>5 DEF Raise, db, Present
    <2>2. job[v] = r => pc[v] \in {"load", "mark", "return", "drop"}
      BY <2>1 DEF QueuedIsUnmarked
    <2> QED
      BY <1>5, <2>1, <2>2 DEF Raise
  <1> QED
    BY <1>1, <1>2, <1>3, <1>4, <1>5 DEF TaskStep

LEMMA NeverDropped ==
  ASSUME NothingLost, IInv, TriesAreInterrupted, NEW w \in Workers, NEW q \in Runs
  PROVE ~GiveUp(w, q)
  <1>1. /\ used \in [FaultKinds -> Nat] /\ Budget \in [FaultKinds -> Nat] /\ MaxTries \in Nat
        /\ tries[q] \in Nat
    BY BoundsAssumption DEF IInv, TypeOK
  <1>2. ~Spend("expiry")
    BY <1>1 DEF Spend, NothingLost, FaultKinds
  <1>3. Interruptions \in Nat /\ Interruptions < MaxTries
    <2>1. /\ used["crash"] <= Budget["crash"] /\ used["shutdown"] <= Budget["shutdown"]
          /\ used["outlive"] <= Budget["outlive"]
      BY DEF TriesAreInterrupted, FaultKinds
    <2>2. /\ used["crash"] \in Nat /\ used["shutdown"] \in Nat /\ used["outlive"] \in Nat
          /\ Budget["crash"] \in Nat /\ Budget["shutdown"] \in Nat /\ Budget["outlive"] \in Nat
      BY <1>1 DEF FaultKinds
    <2> QED
      BY <1>1, <2>1, <2>2 DEF NothingLost, Interruptions
  <1>4. q \notin leased => tries[q] < MaxTries
    BY <1>1, <1>3 DEF TriesAreInterrupted
  <1> QED
    BY <1>1, <1>2, <1>4 DEF GiveUp, Lease

LEMMA KeptStep ==
  NothingLost /\ IInv /\ QueuedIsUnmarked /\ TriesAreInterrupted /\ KeptInQueue /\ [Next]_vars
    => KeptInQueue'
  <1> SUFFICES ASSUME NothingLost, IInv, QueuedIsUnmarked, TriesAreInterrupted, KeptInQueue,
                      [Next]_vars
               PROVE KeptInQueue'
    OBVIOUS
  <1>0. TypeOK /\ AttemptInv /\ used \in [FaultKinds -> Nat]
    BY DEF IInv, AttemptInv, TypeOK
  <1>1. ASSUME UNCHANGED <<phase, next>>, queue \subseteq queue',
               \A r \in Runs : status'[r] = "queued" => status[r] = "queued",
               \A w \in Workers : pc'[w] # "drop",
               \A w \in Workers, r \in Runs :
                 pc'[w] = "return" /\ job'[w] = r => status'[r] # "queued"
        PROVE KeptInQueue'
    <2>1. \A s \in Submissions : \A i \in 1..Len(Batch[s]) : Batch[s][i] \in Runs
      BY RunsAssumption
    <2> QED
      BY <1>1, <2>1 DEF KeptInQueue
  <1>2. CASE UNCHANGED vars
    BY <1>1, <1>2 DEF vars, db, redis, worker, api, KeptInQueue
  <1>3. ASSUME NEW s \in Submissions, SubmitRows(s) PROVE KeptInQueue'
    <2>1. \A r \in Runs : InBatch(s, r) => ~Held(r)
      BY <1>3 DEF SubmitRows, IInv, UnbornUntouched, Unborn
    <2>2. \A r \in Runs : status'[r] = IF InBatch(s, r) THEN "queued" ELSE status[r]
      BY <1>3 DEF SubmitRows
    <2>3. ASSUME NEW w \in Workers, NEW r \in Runs, pc'[w] = "return", job'[w] = r
          PROVE status'[r] # "queued"
      <3>1. pc[w] = "return" /\ job[w] = r
        BY <1>3, <2>3 DEF SubmitRows, worker
      <3>2. ~InBatch(s, r)
        BY <2>1, <3>1 DEF Held
      <3> QED
        BY <2>2, <3>1, <3>2 DEF KeptInQueue
    <2>4. ASSUME NEW t \in Submissions, NEW i \in 1..Len(Batch[t]),
                 i < next'[t], status'[Batch[t][i]] = "queued"
          PROVE Batch[t][i] \in queue'
      <3>1. Batch[t][i] \in Runs /\ InBatch(t, Batch[t][i]) /\ i < next[t]
        <4>1. Batch[t] \in Seq(Runs)
          BY RunsAssumption
        <4>2. Batch[t][i] \in Runs
          BY <4>1
        <4> QED
          BY <1>3, <2>4, <4>2 DEF SubmitRows, InBatch
      <3>2. InBatch(s, Batch[t][i]) => s = t
        BY <3>1, BatchesDisjoint
      <3>3. next[s] = 1
        BY <1>3 DEF SubmitRows, KeptInQueue
      <3>4. ~InBatch(s, Batch[t][i])
        BY <3>1, <3>2, <3>3
      <3> QED
        BY <1>3, <2>2, <2>4, <3>1, <3>4 DEF SubmitRows, redis, KeptInQueue
    <2>5. \A t \in Submissions : /\ phase'[t] = "new" => next'[t] = 1
                                 /\ phase'[t] = "answered" => next'[t] > Len(Batch[t])
      BY <1>0, <1>3 DEF SubmitRows, KeptInQueue, TypeOK
    <2> QED
      BY <1>3, <2>3, <2>4, <2>5 DEF SubmitRows, worker, KeptInQueue
  <1>4. ASSUME NEW s \in Submissions, EnqueueNext(s) PROVE KeptInQueue'
    <2>1. next' = [next EXCEPT ![s] = next[s] + 1] /\ phase' = phase
          /\ queue' = queue \cup {Batch[s][next[s]]} /\ phase[s] = "enqueuing"
          /\ UNCHANGED <<db, worker>>
      BY <1>4 DEF EnqueueNext
    <2>2. \A t \in Submissions : /\ phase'[t] = "new" => next'[t] = 1
                                 /\ phase'[t] = "answered" => next'[t] > Len(Batch[t])
      BY <1>0, <2>1 DEF KeptInQueue, TypeOK
    <2>3. ASSUME NEW t \in Submissions, NEW i \in 1..Len(Batch[t]),
                 i < next'[t], status'[Batch[t][i]] = "queued"
          PROVE Batch[t][i] \in queue'
      <3>1. i < next[t] \/ (t = s /\ i = next[s])
        BY <1>0, <2>1, <2>3 DEF TypeOK
      <3> QED
        BY <2>1, <2>3, <3>1 DEF db, KeptInQueue
    <2> QED
      BY <2>1, <2>2, <2>3 DEF db, worker, KeptInQueue
  <1>5. ASSUME NEW s \in Submissions, CommitIds(s) \/ SubmitRaises(s) \/ SubmitFault(s)
        PROVE KeptInQueue'
    <2>1. UNCHANGED <<db, redis, worker, next>>
      BY <1>5 DEF CommitIds, SubmitRaises, SubmitFault
    <2>2. /\ phase[s] = "enqueuing" /\ phase' \in {[phase EXCEPT ![s] = "answered"],
                                                   [phase EXCEPT ![s] = "failed"]}
          /\ phase' = [phase EXCEPT ![s] = "answered"] => next[s] > Len(Batch[s])
             \/ phase' = [phase EXCEPT ![s] = "failed"]
      BY <1>5 DEF CommitIds, SubmitRaises, SubmitFault
    <2>3. \A t \in Submissions : /\ phase'[t] = "new" => next'[t] = 1
                                 /\ phase'[t] = "answered" => next'[t] > Len(Batch[t])
      BY <1>0, <2>1, <2>2 DEF KeptInQueue, TypeOK
    <2> QED
      BY <2>1, <2>3 DEF db, redis, worker, KeptInQueue
  <1>6. ASSUME NEW q \in Runs, RequestCancel(q) \/ DeleteRun(q) PROVE KeptInQueue'
    <2>1. \A r \in Runs : status'[r] = "queued" => status[r] = "queued"
      BY <1>0, <1>6 DEF RequestCancel, DeleteRun, TypeOK
    <2>2. UNCHANGED <<redis, worker, api>>
      BY <1>6 DEF RequestCancel, DeleteRun
    <2> QED
      BY <1>1, <2>1, <2>2 DEF redis, worker, api, KeptInQueue
  <1>7. ASSUME NEW w \in Workers, NEW q \in Runs, Pick(w, q) \/ GiveUp(w, q)
        PROVE KeptInQueue'
    <2>1. Pick(w, q)
      BY <1>7, NeverDropped
    <2>2. \A v \in Workers : v # w => pc'[v] = pc[v] /\ job'[v] = job[v]
      BY <1>0, <2>1 DEF Pick, Lease, Goto, TypeOK
    <2>3. pc'[w] = "load" /\ UNCHANGED <<status, queue, phase, next>>
      BY <1>0, <2>1 DEF Pick, Lease, Goto, db, api, TypeOK
    <2> QED
      BY <1>1, <2>2, <2>3 DEF KeptInQueue
  <1>8. ASSUME NEW w \in Workers, FinishJob(w) PROVE KeptInQueue'
    <2>1. pc[w] = "return" /\ job[w] \in Runs
      BY <1>0, <1>8, WorkingHasJob DEF FinishJob, KeptInQueue
    <2>2. status[job[w]] # "queued"
      BY <2>1 DEF KeptInQueue
    <2>3. queue' = queue \ {job[w]} /\ UNCHANGED <<status, phase, next>>
      BY <1>8 DEF FinishJob, db, api
    <2>4. \A v \in Workers : pc'[v] = "idle" \/ (pc'[v] = pc[v] /\ job'[v] = job[v])
      BY <1>0, <1>8 DEF FinishJob, Abandon, Goto, TypeOK
    <2> QED
      BY <2>2, <2>3, <2>4 DEF KeptInQueue
  <1>9. ASSUME NEW w \in Workers, Crash(w) \/ Shutdown(w) PROVE KeptInQueue'
    <2>1. \A v \in Workers : pc'[v] = "idle" \/ (pc'[v] = pc[v] /\ job'[v] = job[v])
      BY <1>0, <1>9 DEF Crash, Shutdown, Abandon, Goto, TypeOK
    <2>2. UNCHANGED <<status, queue, phase, next>>
      BY <1>9 DEF Crash, Shutdown, db, redis, api
    <2> QED
      BY <1>1, <2>1, <2>2 DEF KeptInQueue
  <1>10. ASSUME NEW r \in Runs, LeaseExpires(r) \/ LeaseOutlived(r) PROVE KeptInQueue'
    BY <1>1, <1>10 DEF LeaseExpires, LeaseOutlived, db, worker, api, KeptInQueue
  <1>11. ASSUME NEW w \in Workers, TaskStep(w) PROVE KeptInQueue'
    <2>1. /\ UNCHANGED <<queue, phase, next, job>>
          /\ \A v \in Workers : v # w => pc'[v] = pc[v]
          /\ pc'[w] # "drop"
      BY <1>0, <1>11 DEF TaskStep, Load, Mark, Start, StopCancelled, RunLap, LogCurrentState,
         OnChunk, Finish, Fail, Raise, Goto, redis, api, TypeOK
    <2>2. \A r \in Runs : status'[r] = "queued" =>
                            status[r] = "queued" /\ (job[w] = r => pc'[w] # "return")
      BY <1>11, TaskQueued
    <2>3. ASSUME NEW v \in Workers, NEW r \in Runs, pc'[v] = "return", job'[v] = r
          PROVE status'[r] # "queued"
      BY <2>1, <2>2, <2>3 DEF KeptInQueue
    <2> QED
      BY <1>1, <2>1, <2>2, <2>3 DEF KeptInQueue
  <1>12. ~RedisLost /\ \A w \in Workers : ~Timeout(w)
    BY <1>0 DEF RedisLost, Timeout, Spend, NothingLost, FaultKinds
  <1> QED
    BY <1>2, <1>3, <1>4, <1>5, <1>6, <1>7, <1>8, <1>9, <1>10, <1>11, <1>12
    DEF Next, ClientStep, SubmitStep, WorkerStep, FaultStep

\* A run whose submission was answered stays in arq's queue for as long as it is
\* queued, however often workers die, are stopped or outlive their leases, as long
\* as max_tries allows for it and neither Redis nor a time limit takes the job.
THEOREM QueuedRunsAreKept == ASSUME NothingLost PROVE Spec => []NoneForgotten
  <1> DEFINE Kept == IInv /\ QueuedIsUnmarked /\ TriesAreInterrupted /\ KeptInQueue
  <1>1. Init => Kept
    <2> SUFFICES ASSUME Init PROVE Kept
      OBVIOUS
    <2>1. TriesAreInterrupted
      BY BoundsAssumption DEF Init, TriesAreInterrupted, Interruptions, FaultKinds
    <2>2. KeptInQueue
      BY DEF Init, KeptInQueue
    <2> QED
      BY <2>1, <2>2, InitIInv, InitQueued
  <1>2. Kept /\ [Next]_vars => Kept'
    BY InvariantStep, QueuedStep, TriesStep, KeptStep
  <1>3. Kept => NoneForgotten
    <2> SUFFICES ASSUME IInv, KeptInQueue, NEW s \in Submissions, NEW r \in Runs,
                        InBatch(s, r), phase[s] = "answered", status[r] = "queued"
                 PROVE r \in queue
      BY DEF NoneForgotten
    <2>1. PICK i \in 1..Len(Batch[s]) : Batch[s][i] = r
      BY DEF InBatch
    <2>2. Len(Batch[s]) \in Nat /\ next[s] \in Nat /\ next[s] > Len(Batch[s])
      BY RunsAssumption DEF IInv, TypeOK, KeptInQueue
    <2>3. i < next[s]
      BY <2>2
    <2> QED
      BY <2>1, <2>3 DEF KeptInQueue
  <1> QED
    BY <1>1, <1>2, <1>3, PTL DEF Spec

-----------------------------------------------------------------------------
(* A run shown as running is not left behind.                              *)

Killed == used["crash"] + used["shutdown"]

\* A worker at a run has its lease, its job is still in the queue, and nobody
\* else is at it.
HoldersAreAlone ==
  /\ \A w \in Workers : job[w] # NoRun => job[w] \in leased /\ job[w] \in queue
  /\ OneAttempt

\* A run has no events before its job is enqueued.
UnqueuedAreNew ==
  \A s \in Submissions : \A i \in 1..Len(Batch[s]) : i >= next[s] =>
    /\ Batch[s][i] \notin queue
    /\ events[Batch[s][i]] = {}
    /\ status[Batch[s][i]] # "running"

\* Stored events are those of the attempt under way, or of one that was killed.
EventsHaveWriter ==
  \A r \in queue : events[r] # {} =>
    Killed > 0 \/ \E w \in Workers : job[w] = r /\ seq[w] > 0

ReturnsAreSettled ==
  \A w \in Workers : pc[w] = "return" => Settled(job[w]) \/ Stranded(job[w])

\* A run shown as running is the job of a worker, or will be, unless an attempt
\* was killed after it had stored events.
RunningIsKept ==
  \A r \in Runs : status[r] = "running" => r \in queue \/ Stranded(r)

RunningInv ==
  /\ HoldersAreAlone
  /\ UnqueuedAreNew
  /\ EventsHaveWriter
  /\ ReturnsAreSettled
  /\ RunningIsKept

\* The parts of RunningInv that a step cannot touch.
LEMMA RunningKept ==
  ASSUME IInv, RunningInv,
         UNCHANGED <<job, queue, next>>,
         \A k \in {"crash", "shutdown"} : used'[k] = used[k],
         \A w \in Workers : job[w] \in leased => job[w] \in leased',
         \A w \in Workers : seq'[w] \in Nat /\ seq'[w] >= seq[w],
         \A r \in Runs : events'[r] \in {events[r], {}}
                         \/ \E w \in Workers : job[w] = r /\ seq'[w] > 0,
         \A r \in Runs : events'[r] = {} => events[r] = {} \/ status'[r] = "absent",
         \A r \in Runs : \/ status'[r] \in {status[r], "absent"}
                         \/ \E w \in Workers : job[w] = r /\ pc[w] # "return",
         \A w \in Workers : pc'[w] = "return" =>
            \/ pc[w] = "return"
            \/ job[w] \in Runs /\ (Settled(job[w])' \/ Stranded(job[w]))
  PROVE RunningInv'
  <1>0. TypeOK /\ \A w \in Workers : AttemptOK(w)
    BY DEF IInv
  <1>1. Killed' = Killed
    BY DEF Killed
  <1>2. HoldersAreAlone'
    BY DEF RunningInv, HoldersAreAlone, OneAttempt
  <1>3. \A r \in Runs : Stranded(r) => Stranded(r)' \/ status'[r] = "absent"
    BY <1>1 DEF Stranded, Killed
  <1>4. \A w \in Workers : job[w] \in Runs => job[w] \in queue
    BY RunsAssumption DEF RunningInv, HoldersAreAlone
  <1>5. UnqueuedAreNew'
    <2> SUFFICES ASSUME NEW s \in Submissions, NEW i \in 1..Len(Batch[s]), i >= next[s]
                 PROVE /\ Batch[s][i] \notin queue
                       /\ events'[Batch[s][i]] = {}
                       /\ status'[Batch[s][i]] # "running"
      BY DEF UnqueuedAreNew
    <2>1. Batch[s][i] \in Runs
      BY RunsAssumption
    <2>2. /\ Batch[s][i] \notin queue /\ events[Batch[s][i]] = {}
          /\ status[Batch[s][i]] # "running"
      BY DEF RunningInv, UnqueuedAreNew
    <2>3. \A w \in Workers : job[w] # Batch[s][i]
      BY <1>4, <2>1, <2>2
    <2> QED
      BY <2>1, <2>2, <2>3
  <1>6. EventsHaveWriter'
    <2> SUFFICES ASSUME NEW r \in queue, events'[r] # {}
                 PROVE Killed > 0 \/ \E w \in Workers : job[w] = r /\ seq'[w] > 0
      BY <1>1 DEF EventsHaveWriter
    <2>1. CASE events'[r] \in {events[r], {}}
      <3>1. Killed > 0 \/ \E w \in Workers : job[w] = r /\ seq[w] > 0
        BY <2>1 DEF RunningInv, EventsHaveWriter
      <3>2. \A w \in Workers : seq[w] \in Nat
        BY <1>0 DEF TypeOK
      <3>3. CASE Killed > 0
        BY <3>3
      <3>4. ASSUME NEW w \in Workers, job[w] = r, seq[w] > 0 PROVE seq'[w] > 0
        BY <3>2, <3>4
      <3> QED
        BY <3>1, <3>3, <3>4
    <2> QED
      BY <1>0, <2>1 DEF TypeOK
  <1>7. ReturnsAreSettled'
    <2> SUFFICES ASSUME NEW w \in Workers, pc'[w] = "return"
                 PROVE Settled(job[w])' \/ Stranded(job[w])'
      BY DEF ReturnsAreSettled
    <2>1. CASE pc[w] = "return"
      <3>1. job[w] \in Runs
        BY <1>0, <2>1 DEF TypeOK, AttemptOK
      <3>2. Settled(job[w]) \/ Stranded(job[w])
        BY <2>1 DEF RunningInv, ReturnsAreSettled
      <3>3. \A v \in Workers : job[v] = job[w] => pc[v] = "return"
        BY <2>1, <3>1, RunsAssumption DEF RunningInv, HoldersAreAlone, OneAttempt
      <3>4. status'[job[w]] \in {status[job[w]], "absent"}
        BY <3>1, <3>3
      <3> QED
        BY <1>3, <3>1, <3>2, <3>4 DEF Settled
    <2>2. CASE pc[w] # "return"
      BY <1>3, <2>2 DEF Settled
    <2> QED
      BY <2>1, <2>2
  <1>8. RunningIsKept'
    <2> SUFFICES ASSUME NEW r \in Runs, status'[r] = "running"
                 PROVE r \in queue \/ Stranded(r)'
      BY DEF RunningIsKept
    <2>1. CASE status[r] = "running"
      BY <1>3, <2>1 DEF RunningInv, RunningIsKept
    <2> QED
      BY <1>4, <2>1
  <1> QED
    BY <1>2, <1>5, <1>6, <1>7, <1>8 DEF RunningInv

\* What a step of an attempt does to the run it is at.
LEMMA TaskRunning ==
  ASSUME IInv, RunningInv, NEW v \in Workers, TaskStep(v)
  PROVE RunningInv'
  <1>0. /\ TypeOK /\ AttemptInv /\ AttemptOK(v) /\ TypeOK'
        /\ job[v] \in Runs /\ pc[v] # "return"
    <2>1. pc[v] \notin {"idle", "return"}
      BY DEF TaskStep, Load, Mark, Start, StopCancelled, RunLap, LogCurrentState, OnChunk,
         Finish, Fail, Raise
    <2> QED
      BY <2>1, InvariantStep DEF IInv, AttemptInv, TypeOK, AttemptOK, Next, WorkerStep
  <1>1. /\ UNCHANGED <<job, queue, leased, next, used>>
        /\ \A w \in Workers : w # v => pc'[w] = pc[w] /\ seq'[w] = seq[w]
        /\ \A r \in Runs : r # job[v] => status'[r] = status[r] /\ events'[r] = events[r]
    BY <1>0 DEF TaskStep, Load, Mark, Start, StopCancelled, RunLap, LogCurrentState,
       OnChunk, Finish, Fail, Raise, Goto, redis, api, db, task, row, runner, TypeOK
  <1>2. \/ seq'[v] = seq[v] /\ events' = events
        \/ seq'[v] >= seq[v] /\ seq'[v] > 0 /\ events'[job[v]] # {}
    <2>1. CASE OnChunk(v)
      <3>1. /\ seq'[v] = emitted[v] /\ seq[v] \in Nat /\ emitted[v] \in Nat
            /\ \/ seq[v] = emitted[v] /\ events' = events
               \/ /\ seq[v] < emitted[v]
                  /\ events' = [events EXCEPT ![job[v]] = Prefix(emitted[v])]
        BY <2>1, OnChunkStores
      <3>2. seq[v] < emitted[v] => Prefix(emitted[v]) # {}
        BY <3>1, PrefixFirst
      <3> QED
        BY <1>0, <3>1, <3>2 DEF TypeOK
    <2>2. CASE ~OnChunk(v)
      BY <2>2 DEF TaskStep, Load, Mark, Start, StopCancelled, RunLap, LogCurrentState,
         Finish, Fail, Raise, db, task, row, runner
    <2> QED
      BY <2>1, <2>2
  <1>3. pc'[v] = "return" => Settled(job[v])' \/ Stranded(job[v])
    <2>1. CASE Finish(v)
      BY <1>0, <2>1 DEF Finish, Settled, Terminal, Verdicts, AttemptOK, TypeOK
    <2>2. CASE Fail(v)
      BY <1>0, <2>2 DEF Fail, Settled, Terminal, TypeOK
    <2>3. CASE Raise(v)
      <3>1. CASE ~Present(job[v])
        BY <1>1, <2>3, <3>1 DEF Raise, db, Present, Settled
      <3>2. CASE Clash(v)
        <4>1. events[job[v]] # {}
          BY <3>2 DEF Clash
        <4>2. job[v] \in queue
          BY <1>0, RunsAssumption DEF RunningInv, HoldersAreAlone
        <4>3. Killed > 0 \/ \E w \in Workers : job[w] = job[v] /\ seq[w] > 0
          BY <4>1, <4>2 DEF RunningInv, EventsHaveWriter
        <4>4. ASSUME Present(job[v]), seq[v] > 0 PROVE FALSE
          <5>1. events[job[v]] = Prefix(seq[v])
            BY <1>0, <4>4, RunsAssumption DEF IInv, WriterUpToDate
          <5>2. PICK e \in NewRows(v) : \E f \in events[job[v]] : e[1] = f[1]
            BY <3>2 DEF Clash
          <5>3. PICK f \in Prefix(seq[v]) : e[1] = f[1]
            BY <5>1, <5>2
          <5>4. seq[v] \in Nat /\ flushed[v] \in Nat /\ emitted[v] \in Nat
            BY <1>0 DEF TypeOK
          <5>5. PICK i \in 0..(emitted[v] - flushed[v] - 1) : e = <<seq[v] + i, flushed[v] + i>>
            BY <5>2 DEF NewRows
          <5>6. PICK j \in 0..(seq[v] - 1) : f = <<j, j>>
            BY <5>3 DEF Prefix
          <5> QED
            BY <5>3, <5>4, <5>5, <5>6
        <4>5. \A w \in Workers : job[w] = job[v] => w = v
          BY <1>0, RunsAssumption DEF RunningInv, HoldersAreAlone, OneAttempt
        <4> QED
          BY <3>1, <4>1, <4>3, <4>4, <4>5 DEF Stranded, Killed
      <3> QED
        BY <2>3, <3>1, <3>2 DEF Raise
    <2>4. CASE ~Finish(v) /\ ~Fail(v) /\ ~Raise(v)
      BY <1>0, <2>4 DEF TaskStep, Load, Mark, Start, StopCancelled, RunLap,
         LogCurrentState, OnChunk, Goto, TypeOK
    <2> QED
      BY <2>1, <2>2, <2>3, <2>4
  <1>4. \A w \in Workers : seq[w] \in Nat /\ seq'[w] \in Nat
    BY <1>0 DEF TypeOK
  <1>5. \A w \in Workers : seq'[w] \in Nat /\ seq'[w] >= seq[w]
    BY <1>1, <1>2, <1>4
  <1>6. \A r \in Runs : events'[r] \in {events[r], {}}
                       \/ \E w \in Workers : job[w] = r /\ seq'[w] > 0
    BY <1>1, <1>2
  <1>7. \A r \in Runs : events'[r] = {} => events[r] = {} \/ status'[r] = "absent"
    BY <1>1, <1>2
  <1>8. \A r \in Runs : \/ status'[r] \in {status[r], "absent"}
                        \/ \E w \in Workers : job[w] = r /\ pc[w] # "return"
    BY <1>0, <1>1
  <1>9. \A w \in Workers : pc'[w] = "return" =>
           \/ pc[w] = "return"
           \/ job[w] \in Runs /\ (Settled(job[w])' \/ Stranded(job[w]))
    BY <1>0, <1>1, <1>3
  <1> QED
    BY <1>1, <1>5, <1>6, <1>7, <1>8, <1>9, RunningKept

\* Nobody outlives a lease, and the queue loses a job only to finish_job.
LEMMA RunningStep ==
  ASSUME NothingLost, Budget["outlive"] = 0, IInv, TriesAreInterrupted, KeptInQueue,
         RunningInv, [Next]_vars
  PROVE RunningInv'
  <1>0. TypeOK /\ AttemptInv /\ used \in [FaultKinds -> Nat] /\ TypeOK'
    BY InvariantStep DEF IInv, AttemptInv, TypeOK
  <1>1. \A s \in Submissions : \A i \in 1..Len(Batch[s]) : Batch[s][i] \in Runs
    BY RunsAssumption
  <1>2. \A w \in Workers : seq[w] \in Nat
    BY <1>0 DEF TypeOK
  <1>3. CASE UNCHANGED vars
    BY <1>2, <1>3, RunningKept DEF vars, db, redis, worker, task, row, runner, api
  <1>4. ASSUME NEW s \in Submissions, CommitIds(s) \/ SubmitRaises(s) \/ SubmitFault(s)
        PROVE RunningInv'
    <2>1. UNCHANGED <<db, redis, worker, next>>
      BY <1>4 DEF CommitIds, SubmitRaises, SubmitFault
    <2>2. \A k \in {"crash", "shutdown"} : used'[k] = used[k]
      BY <1>0, <1>4 DEF CommitIds, SubmitRaises, SubmitFault, Spend, FaultKinds
    <2> QED
      BY <1>2, <2>1, <2>2, RunningKept DEF db, redis, worker, task, row, runner
  <1>5. ASSUME NEW q \in Runs, RequestCancel(q) \/ DeleteRun(q) PROVE RunningInv'
    <2>1. UNCHANGED <<redis, worker, api, used>>
      BY <1>5 DEF RequestCancel, DeleteRun
    <2>2. \A r \in Runs : \/ status'[r] = status[r] /\ events'[r] = events[r]
                          \/ status'[r] = "absent" /\ events'[r] = {}
      BY <1>0, <1>5 DEF RequestCancel, DeleteRun, TypeOK
    <2> QED
      BY <1>2, <2>1, <2>2, RunningKept DEF redis, worker, task, row, runner, api
  <1>6. ASSUME NEW q \in Runs, LeaseExpires(q) PROVE RunningInv'
    <2>1. \A w \in Workers : job[w] \in leased => job[w] \in leased'
      BY <1>6 DEF LeaseExpires, Held
    <2> QED
      BY <1>2, <1>6, <2>1, RunningKept DEF LeaseExpires, db, worker, task, row, runner, api
  <1>7. ASSUME NEW w \in Workers, TaskStep(w) PROVE RunningInv'
    BY <1>7, TaskRunning
  <1>8. ASSUME NEW s \in Submissions, SubmitRows(s) PROVE RunningInv'
    <2>1. UNCHANGED <<redis, worker, next, used, events>>
      BY <1>8 DEF SubmitRows
    <2>2. \A r \in Runs : \/ status'[r] = status[r]
                          \/ status'[r] = "queued" /\ ~Present(r) /\ ~Held(r)
      BY <1>8 DEF SubmitRows, IInv, UnbornUntouched, Unborn
    <2>3. HoldersAreAlone' /\ EventsHaveWriter'
      BY <2>1 DEF RunningInv, HoldersAreAlone, OneAttempt, EventsHaveWriter, Killed, redis,
         worker, task
    <2>4. UnqueuedAreNew'
      BY <1>1, <2>1, <2>2 DEF RunningInv, UnqueuedAreNew, redis
    <2>5. ReturnsAreSettled'
      <3> SUFFICES ASSUME NEW w \in Workers, pc[w] = "return"
                   PROVE Settled(job[w])' \/ Stranded(job[w])'
        BY <2>1 DEF ReturnsAreSettled, worker
      <3>1. Settled(job[w]) \/ Stranded(job[w])
        BY DEF RunningInv, ReturnsAreSettled
      <3>2. job[w] \in Runs /\ Held(job[w])
        BY <1>0 DEF TypeOK, AttemptInv, AttemptOK, Held
      <3> QED
        BY <2>1, <2>2, <3>1, <3>2 DEF Settled, Stranded, worker
    <2>6. RunningIsKept'
      BY <2>1, <2>2 DEF RunningInv, RunningIsKept, Stranded, redis
    <2> QED
      BY <2>3, <2>4, <2>5, <2>6 DEF RunningInv
  <1>9. ASSUME NEW s \in Submissions, EnqueueNext(s) PROVE RunningInv'
    <2> DEFINE q == Batch[s][next[s]]
    <2>1. /\ UNCHANGED <<db, leased, worker, used>> /\ queue' = queue \cup {q}
          /\ next' = [next EXCEPT ![s] = next[s] + 1] /\ next[s] \in 1..Len(Batch[s])
          /\ next[s] \in Nat
      <3>1. next[s] \in Nat \ {0} /\ Len(Batch[s]) \in Nat
        BY <1>0, RunsAssumption DEF TypeOK
      <3> QED
        BY <1>9, <3>1 DEF EnqueueNext
    <2>2. events[q] = {} /\ q \in Runs
      BY <1>1, <2>1 DEF RunningInv, UnqueuedAreNew
    <2>3. HoldersAreAlone' /\ EventsHaveWriter'
      BY <2>1, <2>2 DEF RunningInv, HoldersAreAlone, OneAttempt, EventsHaveWriter, Killed,
         db, worker, task
    <2>4. UnqueuedAreNew'
      <3> SUFFICES ASSUME NEW t \in Submissions, NEW i \in 1..Len(Batch[t]), i >= next'[t]
                   PROVE Batch[t][i] \notin queue' /\ events[Batch[t][i]] = {}
                         /\ status[Batch[t][i]] # "running"
        BY <2>1 DEF UnqueuedAreNew, db
      <3>1. i >= next[t] /\ (t = s => i # next[s])
        BY <1>0, <2>1 DEF TypeOK
      <3>2. Batch[t][i] # q
        BY <2>1, <3>1, RunsAssumption
      <3> QED
        BY <2>1, <3>1, <3>2 DEF RunningInv, UnqueuedAreNew
    <2>5. ReturnsAreSettled' /\ RunningIsKept'
      BY <2>1 DEF RunningInv, ReturnsAreSettled, RunningIsKept, Settled, Stranded, db, worker
    <2> QED
      BY <2>3, <2>4, <2>5 DEF RunningInv
  <1>10. ASSUME NEW w \in Workers, NEW q \in Runs, Pick(w, q) \/ GiveUp(w, q)
         PROVE RunningInv'
    <2>1. Pick(w, q)
      BY <1>10, NeverDropped
    <2>2. /\ UNCHANGED <<db, queue, api, used, task>> /\ q \in queue \ leased
          /\ leased' = leased \cup {q} /\ job[w] = NoRun
          /\ \A v \in Workers : /\ v # w => job'[v] = job[v] /\ pc'[v] = pc[v]
                                /\ v = w => job'[v] = q /\ pc'[v] = "load"
      BY <1>0, <2>1 DEF Pick, Lease, Goto, TypeOK, AttemptInv, AttemptOK
    <2>3. q # NoRun /\ \A v \in Workers : job[v] # q
      BY <2>2, RunsAssumption DEF RunningInv, HoldersAreAlone
    <2>4. HoldersAreAlone'
      BY <2>2, <2>3 DEF RunningInv, HoldersAreAlone, OneAttempt
    <2>5. EventsHaveWriter'
      <3> SUFFICES ASSUME NEW r \in queue, events[r] # {}, ~(Killed > 0)
                   PROVE \E v \in Workers : job'[v] = r /\ seq'[v] > 0
        BY <2>2 DEF EventsHaveWriter, Killed, db
      <3>1. PICK v \in Workers : job[v] = r /\ seq[v] > 0
        BY DEF RunningInv, EventsHaveWriter
      <3>2. v # w
        BY <1>0, <2>2, <3>1, RunsAssumption DEF TypeOK
      <3> QED
        BY <2>2, <3>1, <3>2 DEF task
    <2>6. UnqueuedAreNew' /\ RunningIsKept'
      BY <2>2 DEF RunningInv, UnqueuedAreNew, RunningIsKept, Stranded, db, api
    <2>7. ReturnsAreSettled'
      BY <2>2 DEF RunningInv, ReturnsAreSettled, Settled, Stranded, db
    <2> QED
      BY <2>4, <2>5, <2>6, <2>7 DEF RunningInv
  <1>11. ASSUME NEW w \in Workers, FinishJob(w) PROVE RunningInv'
    <2>1. pc[w] = "return" /\ job[w] \in Runs
      BY <1>0, <1>11, WorkingHasJob DEF FinishJob, KeptInQueue
    <2>2. /\ UNCHANGED <<db, api, used>> /\ queue' = queue \ {job[w]}
          /\ leased' = leased \ {job[w]}
          /\ \A v \in Workers : /\ v # w => /\ job'[v] = job[v] /\ pc'[v] = pc[v]
                                            /\ seq'[v] = seq[v]
                                /\ v = w => job'[v] = NoRun /\ pc'[v] = "idle"
      BY <1>0, <1>11 DEF FinishJob, Abandon, Goto, TypeOK
    <2>3. \A v \in Workers : v # w => job[v] # job[w]
      BY <2>1, RunsAssumption DEF RunningInv, HoldersAreAlone, OneAttempt
    <2>4. HoldersAreAlone'
      BY <2>2, <2>3 DEF RunningInv, HoldersAreAlone, OneAttempt
    <2>5. EventsHaveWriter'
      <3> SUFFICES ASSUME NEW r \in queue, r # job[w], events[r] # {}, ~(Killed > 0)
                   PROVE \E v \in Workers : job'[v] = r /\ seq'[v] > 0
        BY <2>2 DEF EventsHaveWriter, Killed, db
      <3>1. PICK v \in Workers : job[v] = r /\ seq[v] > 0
        BY DEF RunningInv, EventsHaveWriter
      <3> QED
        BY <2>2, <3>1
    <2>6. UnqueuedAreNew'
      BY <2>2 DEF RunningInv, UnqueuedAreNew, db, api
    <2>7. ReturnsAreSettled'
      BY <2>2 DEF RunningInv, ReturnsAreSettled, Settled, Stranded, db
    <2>8. RunningIsKept'
      <3>1. status[job[w]] = "running" => Stranded(job[w])
        BY <2>1 DEF RunningInv, ReturnsAreSettled, Settled, Terminal
      <3> QED
        BY <2>2, <3>1 DEF RunningInv, RunningIsKept, Stranded, db
    <2> QED
      BY <2>4, <2>5, <2>6, <2>7, <2>8 DEF RunningInv
  <1>12. ASSUME NEW w \in Workers, Crash(w) \/ Shutdown(w) PROVE RunningInv'
    <2>1. job[w] \in Runs
      BY <1>0, <1>12 DEF Crash, Shutdown, AttemptInv, AttemptOK, TypeOK
    <2>2. /\ UNCHANGED <<db, queue, api>> /\ leased \ {job[w]} \subseteq leased'
          /\ \A v \in Workers : /\ v # w => job'[v] = job[v] /\ pc'[v] = pc[v]
                                /\ v = w => job'[v] = NoRun /\ pc'[v] = "idle"
      BY <1>0, <1>12 DEF Crash, Shutdown, Abandon, Goto, redis, TypeOK
    <2>3. Killed' > 0
      BY <1>0, <1>12 DEF Crash, Shutdown, Spend, Killed, FaultKinds
    <2>4. \A v \in Workers : v # w => job[v] # job[w]
      BY <2>1, RunsAssumption DEF RunningInv, HoldersAreAlone, OneAttempt
    <2>5. \A r : Stranded(r) => Stranded(r)'
      BY <2>2, <2>3 DEF Stranded, Killed, db
    <2>6. HoldersAreAlone'
      BY <2>2, <2>4 DEF RunningInv, HoldersAreAlone, OneAttempt
    <2>7. UnqueuedAreNew' /\ EventsHaveWriter'
      BY <2>2, <2>3 DEF RunningInv, UnqueuedAreNew, EventsHaveWriter, db, api
    <2>8. ReturnsAreSettled'
      BY <2>2, <2>5 DEF RunningInv, ReturnsAreSettled, Settled, db
    <2>9. RunningIsKept'
      BY <2>2, <2>5 DEF RunningInv, RunningIsKept, db
    <2> QED
      BY <2>6, <2>7, <2>8, <2>9 DEF RunningInv
  <1>13. /\ ~RedisLost /\ (\A w \in Workers : ~Timeout(w))
         /\ (\A r \in Runs : ~LeaseOutlived(r))
    BY <1>0 DEF RedisLost, Timeout, LeaseOutlived, Spend, NothingLost, FaultKinds
  <1> QED
    BY <1>3, <1>4, <1>5, <1>6, <1>7, <1>8, <1>9, <1>10, <1>11, <1>12, <1>13
    DEF Next, ClientStep, SubmitStep, WorkerStep, FaultStep

\* Under the same circumstances, and when no attempt outlives its lease, a run
\* that is shown as running is still in arq's queue, unless an attempt that was
\* killed or stopped had stored events of it: the comment "never leave a run stuck
\* in `running`" (worker/tasks.py) fails for those runs only.
THEOREM OnlyKilledRunsAreStranded ==
  ASSUME NothingLost, Budget["outlive"] = 0
  PROVE  Spec => []RunningIsKept
  <1> DEFINE Kept == /\ IInv /\ QueuedIsUnmarked /\ TriesAreInterrupted /\ KeptInQueue
                     /\ RunningInv
  <1>1. Init => Kept
    <2> SUFFICES ASSUME Init PROVE Kept
      OBVIOUS
    <2>1. TriesAreInterrupted
      BY BoundsAssumption DEF Init, TriesAreInterrupted, Interruptions, FaultKinds
    <2>2. KeptInQueue
      BY DEF Init, KeptInQueue
    <2>3. HoldersAreAlone /\ EventsHaveWriter /\ ReturnsAreSettled /\ RunningIsKept
      BY DEF Init, HoldersAreAlone, OneAttempt, EventsHaveWriter, ReturnsAreSettled,
         RunningIsKept
    <2>4. UnqueuedAreNew
      BY RunsAssumption DEF Init, UnqueuedAreNew
    <2> QED
      BY <2>1, <2>2, <2>3, <2>4, InitIInv, InitQueued DEF RunningInv
  <1>2. Kept /\ [Next]_vars => Kept'
    BY InvariantStep, QueuedStep, TriesStep, KeptStep, RunningStep
  <1>3. Kept => RunningIsKept
    BY DEF RunningInv
  <1> QED
    BY <1>1, <1>2, <1>3, PTL DEF Spec
================================================================================
