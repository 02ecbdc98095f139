------------------------- MODULE RunExecutionProofs -------------------------
(* Proofs about RunExecution, for every value of its constants. *)
EXTENDS RunExecution, TLAPS

(* What the operators of the model return. *)

LEMMA TotalType == \A r \in Runs : Total(r) \in Nat
  BY SimulationAssumption DEF Total

LEMMA EmittedType ==
  ASSUME NEW r \in Runs, NEW k \in 0..(Laps[r] + 1) PROVE Emitted[r][k] \in Nat
  BY SimulationAssumption

LEMMA SpendType ==
  ASSUME NEW k \in FaultKinds, used \in [FaultKinds -> Nat], Spend(k)
  PROVE used' \in [FaultKinds -> Nat]
  BY DEF Spend

LEMMA GotoType ==
  ASSUME NEW w \in Workers, NEW place \in Places, TypeOK, Goto(w, place)
  PROVE pc' \in [Workers -> Places]
  BY DEF Goto, TypeOK

LEMMA AbandonType ==
  ASSUME NEW w \in Workers, TypeOK, Abandon(w)
  PROVE /\ pc' \in [Workers -> Places]
        /\ job' \in [Workers -> Runs \cup {NoRun}]
        /\ rowStatus' \in [Workers -> Statuses]
        /\ rowTime' \in [Workers -> Nat]
        /\ lap' \in [Workers -> Nat]
        /\ seq' \in [Workers -> Nat]
        /\ flushed' \in [Workers -> Nat]
        /\ emitted' \in [Workers -> Nat]
        /\ verdict' \in [Workers -> Verdicts]
  BY DEF Abandon, Goto, TypeOK, Places, Statuses, Verdicts

-----------------------------------------------------------------------------

\* Where an attempt can be, and how its locals relate to it, together with the
\* types: inductive without regard to what is stored.
AttemptInv ==
  /\ TypeOK
  /\ UnbornUntouched
  /\ \A w \in Workers : AttemptOK(w)

LEMMA InitAttemptInv == Init => AttemptInv
  <1> SUFFICES ASSUME Init PROVE AttemptInv
    OBVIOUS
  <1>1. TypeOK
    BY DEF Init, TypeOK, Statuses, Places, Phases, Verdicts
  <1>2. UnbornUntouched
    BY RunsAssumption DEF Init, UnbornUntouched, Present, Held
  <1>3. \A w \in Workers : AttemptOK(w)
    BY DEF Init, AttemptOK
  <1> QED
    BY <1>1, <1>2, <1>3 DEF AttemptInv

\* A run is inserted by one submission.
LEMMA BatchesDisjoint ==
  ASSUME NEW s \in Submissions, NEW t \in Submissions, NEW r \in Runs,
         InBatch(s, r), InBatch(t, r)
  PROVE s = t
  <1>1. PICK i \in 1..Len(Batch[s]) : Batch[s][i] = r
    BY DEF InBatch
  <1>2. PICK j \in 1..Len(Batch[t]) : Batch[t][j] = r
    BY DEF InBatch
  <1>3. Batch[s][i] = Batch[t][j]
    BY <1>1, <1>2
  <1> QED
    BY <1>3, RunsAssumption, Zenon

\* A submission that is enqueuing enqueues one of its own runs.
LEMMA NextInBatch ==
  ASSUME AttemptInv, NEW s \in Submissions, EnqueueNext(s)
  PROVE Batch[s][next[s]] \in Runs /\ InBatch(s, Batch[s][next[s]])
  <1>1. Batch[s] \in Seq(Runs)
    BY RunsAssumption
  <1>2. Len(Batch[s]) \in Nat /\ \A i \in 1..Len(Batch[s]) : Batch[s][i] \in Runs
    BY <1>1
  <1>3. next[s] \in Nat \ {0} /\ next[s] <= Len(Batch[s])
    BY DEF AttemptInv, TypeOK, EnqueueNext
  <1>4. next[s] \in 1..Len(Batch[s])
    BY <1>2, <1>3
  <1> QED
    BY <1>2, <1>4 DEF InBatch

\* A worker at run_simulation has a job.
LEMMA WorkingHasJob ==
  ASSUME AttemptInv, NEW w \in Workers, pc[w] # "idle" PROVE job[w] \in Runs
  BY DEF AttemptInv, TypeOK, AttemptOK

LEMMA TypeStep == AttemptInv /\ [Next]_vars => TypeOK'
  <1> SUFFICES ASSUME AttemptInv, [Next]_vars PROVE TypeOK'
    OBVIOUS
  <1>0. TypeOK
    BY DEF AttemptInv
  <1>1. CASE UNCHANGED vars
    BY <1>0, <1>1 DEF vars, db, redis, worker, task, row, runner, api, TypeOK
  <1>2. ASSUME NEW s \in Submissions, SubmitRows(s) PROVE TypeOK'
    BY <1>0, <1>2 DEF SubmitRows, redis, worker, task, row, runner, TypeOK, Statuses,
       Phases
  <1>3. ASSUME NEW s \in Submissions, EnqueueNext(s) PROVE TypeOK'
    <2>1. Batch[s][next[s]] \in Runs
      BY <1>3, NextInBatch
    <2>2. next' \in [Submissions -> Nat \ {0}]
      BY <1>0, <1>3 DEF EnqueueNext, TypeOK
    <2> QED
      BY <1>0, <1>3, <2>1, <2>2 DEF EnqueueNext, db, worker, task, row, runner, TypeOK
  <1>4. ASSUME NEW s \in Submissions, CommitIds(s) \/ SubmitRaises(s) PROVE TypeOK'
    BY <1>0, <1>4 DEF CommitIds, SubmitRaises, db, redis, worker, task, row, runner,
       TypeOK, Phases
  <1>5. ASSUME NEW s \in Submissions, SubmitFault(s) PROVE TypeOK'
    BY <1>0, <1>5, SpendType DEF SubmitFault, FaultKinds, db, redis, worker, task, row,
       runner, TypeOK, Phases
  <1>6. ASSUME NEW r \in Runs, RequestCancel(r) PROVE TypeOK'
    BY <1>0, <1>6 DEF RequestCancel, redis, worker, task, row, runner, api, TypeOK
  <1>7. ASSUME NEW r \in Runs, DeleteRun(r) PROVE TypeOK'
    BY <1>0, <1>7 DEF DeleteRun, redis, worker, task, row, runner, api, TypeOK, Statuses
  <1>8. ASSUME NEW w \in Workers, NEW r \in Runs, Pick(w, r) \/ GiveUp(w, r) PROVE TypeOK'
    <2>1. pc' \in [Workers -> Places]
      BY <1>0, <1>8, GotoType DEF Pick, GiveUp, Places
    <2>2. used' \in [FaultKinds -> Nat]
      BY <1>0, <1>8, SpendType DEF Pick, GiveUp, FaultKinds, TypeOK
    <2>3. tries' \in [Runs -> Nat]
      BY <1>0, <1>8 DEF Pick, GiveUp, Lease, TypeOK
    <2>4. Lease(w, r)
      BY <1>8 DEF Pick, GiveUp
    <2> QED
      BY <1>0, <2>1, <2>2, <2>3, <2>4 DEF Lease, db, task, row, runner, api, TypeOK
  <1>9. ASSUME NEW w \in Workers, FinishJob(w) PROVE TypeOK'
    BY <1>0, <1>9, AbandonType DEF FinishJob, db, api, TypeOK
  <1>10. ASSUME NEW r \in Runs, LeaseExpires(r) PROVE TypeOK'
    BY <1>0, <1>10 DEF LeaseExpires, db, worker, task, row, runner, api, TypeOK
  <1>11. ASSUME NEW w \in Workers, Load(w) PROVE TypeOK'
    BY <1>0, <1>11, WorkingHasJob
    DEF Load, Goto, db, redis, runner, api, TypeOK, Places
  <1>12. ASSUME NEW w \in Workers, Mark(w) PROVE TypeOK'
    BY <1>0, <1>12, WorkingHasJob
    DEF Mark, Goto, redis, runner, api, TypeOK, Places, Statuses
  <1>13. ASSUME NEW w \in Workers, Start(w) PROVE TypeOK'
    <2>1. Emitted[job[w]][0] \in Nat
      BY <1>13, WorkingHasJob, EmittedType, SimulationAssumption DEF Start
    <2> QED
      BY <1>0, <1>13, <2>1 DEF Start, Goto, db, redis, row, api, TypeOK, Places
  <1>14. ASSUME NEW w \in Workers, StopCancelled(w) PROVE TypeOK'
    BY <1>0, <1>14 DEF StopCancelled, Goto, db, redis, row, api, TypeOK, Places, Verdicts
  <1>15. ASSUME NEW w \in Workers, RunLap(w) PROVE TypeOK'
    <2>1. job[w] \in Runs /\ lap[w] <= Laps[job[w]] /\ Laps[job[w]] \in Nat /\ lap[w] \in Nat
      BY <1>0, <1>15, WorkingHasJob, RunsAssumption, SimulationAssumption
      DEF RunLap, AttemptInv, AttemptOK, TypeOK
    <2>2. Emitted[job[w]][lap[w] + 1] \in Nat
      BY <2>1, EmittedType
    <2> QED
      BY <1>0, <1>15, <2>1, <2>2 DEF RunLap, Goto, db, redis, row, api, TypeOK, Places
  <1>16. ASSUME NEW w \in Workers, LogCurrentState(w) PROVE TypeOK'
    BY <1>0, <1>16, WorkingHasJob, TotalType
    DEF LogCurrentState, Goto, db, redis, row, api, TypeOK, Places, Verdicts
  <1>17. ASSUME NEW w \in Workers, OnChunk(w) PROVE TypeOK'
    <2>1. /\ job[w] \in Runs
          /\ flushed[w] \in Nat /\ emitted[w] \in Nat /\ seq[w] \in Nat /\ lap[w] \in Nat
          /\ flushed[w] <= emitted[w]
      BY <1>0, <1>17, WorkingHasJob DEF OnChunk, AttemptInv, AttemptOK, TypeOK
    <2>2. NewRows(w) \subseteq Nat \X Nat
      BY <2>1 DEF NewRows
    <2>3. events' \in [Runs -> SUBSET (Nat \X Nat)]
      BY <1>0, <1>17, <2>2 DEF OnChunk, TypeOK
    <2>4. seq[w] + (emitted[w] - flushed[w]) \in Nat
      BY <2>1
    <2>5. seq' \in [Workers -> Nat]
      BY <1>0, <1>17, <2>4 DEF OnChunk, TypeOK
    <2>6. /\ simTime' \in [Runs -> Nat]
          /\ flushed' \in [Workers -> Nat]
          /\ rowTime' \in [Workers -> Nat]
          /\ pc' \in [Workers -> Places]
      BY <1>0, <1>17, <2>1 DEF OnChunk, Goto, Places, TypeOK
    <2> QED
      BY <1>0, <1>17, <2>3, <2>5, <2>6 DEF OnChunk, redis, api, TypeOK
  <1>18. ASSUME NEW w \in Workers, Finish(w) PROVE TypeOK'
    BY <1>0, <1>18 DEF Finish, AttemptInv, AttemptOK, Goto, redis, task, row, runner, api,
       TypeOK, Places, Statuses, Terminal, Verdicts
  <1>19. ASSUME NEW w \in Workers, Fail(w) PROVE TypeOK'
    BY <1>0, <1>19 DEF Fail, Goto, redis, task, row, runner, api,
       TypeOK, Places, Statuses, Terminal
  <1>20. ASSUME NEW w \in Workers, Raise(w) PROVE TypeOK'
    BY <1>0, <1>20 DEF Raise, Goto, db, redis, task, row, runner, api, TypeOK, Places
  <1>21. ASSUME NEW w \in Workers, Crash(w) \/ Shutdown(w) PROVE TypeOK'
    BY <1>0, <1>21, AbandonType, SpendType
    DEF Crash, Shutdown, FaultKinds, db, redis, api, TypeOK
  <1>22. ASSUME NEW w \in Workers, Timeout(w) PROVE TypeOK'
    BY <1>0, <1>22, GotoType, SpendType
    DEF Timeout, FaultKinds, Places, db, redis, task, row, runner, api, TypeOK
  <1>23. ASSUME NEW r \in Runs, LeaseOutlived(r) PROVE TypeOK'
    BY <1>0, <1>23, SpendType
    DEF LeaseOutlived, FaultKinds, db, worker, task, row, runner, api, TypeOK
  <1>24. CASE RedisLost
    BY <1>0, <1>24, SpendType
    DEF RedisLost, FaultKinds, db, worker, task, row, runner, api, TypeOK
  <1> QED
    BY <1>1, <1>2, <1>3, <1>4, <1>5, <1>6, <1>7, <1>8, <1>9, <1>10, <1>11, <1>12,
       <1>13, <1>14, <1>15, <1>16, <1>17, <1>18, <1>19, <1>20, <1>21, <1>22, <1>23,
       <1>24
    DEF Next, ClientStep, SubmitStep, WorkerStep, TaskStep, FaultStep

-----------------------------------------------------------------------------

\* Nothing touches a run that stays unborn.
LEMMA UnbornStep == AttemptInv /\ [Next]_vars => UnbornUntouched'
  <1> SUFFICES ASSUME AttemptInv, [Next]_vars, NEW r \in Runs, Unborn(r)'
               PROVE ~Present(r)' /\ r \notin queue' /\ ~Held(r)'
    BY DEF UnbornUntouched
  <1>0. TypeOK /\ UnbornUntouched
    BY DEF AttemptInv
  <1>1. PICK t \in Submissions : phase'[t] = "new" /\ InBatch(t, r)
    BY DEF Unborn, InBatch
  <1>2. phase[t] = "new"
    <2>1. CASE UNCHANGED vars
      BY <1>1, <2>1 DEF vars, api
    <2>2. ASSUME NEW s \in Submissions,
                 SubmitRows(s) \/ SubmitStep(s) \/ SubmitFault(s)
          PROVE phase[t] = "new"
      BY <1>0, <1>1, <2>2 DEF SubmitRows, SubmitStep, EnqueueNext, CommitIds,
         SubmitRaises, SubmitFault, TypeOK
    <2>3. ASSUME NEW q \in Runs, \/ RequestCancel(q) \/ DeleteRun(q)
                                 \/ LeaseExpires(q) \/ LeaseOutlived(q) \/ RedisLost
          PROVE phase[t] = "new"
      BY <1>1, <2>3 DEF RequestCancel, DeleteRun, LeaseExpires, LeaseOutlived,
         RedisLost, api
    <2>4. ASSUME NEW w \in Workers, WorkerStep(w) \/ Crash(w) \/ Shutdown(w) \/ Timeout(w)
          PROVE phase[t] = "new"
      BY <1>1, <2>4 DEF WorkerStep, Pick, GiveUp, Lease, FinishJob, TaskStep, Load, Mark,
         Start, StopCancelled, RunLap, LogCurrentState, OnChunk, Finish, Fail, Raise,
         Crash, Shutdown, Timeout, api
    <2> QED
      BY <2>1, <2>2, <2>3, <2>4 DEF Next, ClientStep, FaultStep
  <1>3. Unborn(r)
    BY <1>1, <1>2 DEF Unborn
  <1>4. ~Present(r) /\ r \notin queue /\ ~Held(r)
    BY <1>0, <1>3 DEF UnbornUntouched
  <1>5. ASSUME NEW s \in Submissions, phase[s] # "new" \/ phase'[s] # "new"
        PROVE ~InBatch(s, r)
    BY <1>1, <1>2, <1>5, BatchesDisjoint
  <1>6. SUFFICES /\ status'[r] = status[r]
                 /\ r \in queue' => r \in queue
                 /\ \A w \in Workers : job'[w] = r => job[w] = r
    BY <1>4 DEF Present, Held
  <1>7. CASE UNCHANGED vars
    BY <1>7 DEF vars, db, redis, worker
  <1>8. ASSUME NEW s \in Submissions, SubmitRows(s)
        PROVE status'[r] = status[r] /\ queue' = queue /\ job' = job
    <2>1. phase'[s] # "new"
      BY <1>0, <1>8 DEF SubmitRows, TypeOK
    <2>2. ~InBatch(s, r)
      BY <1>5, <2>1
    <2> QED
      BY <1>8, <2>2 DEF SubmitRows, redis, worker
  <1>9. ASSUME NEW s \in Submissions, EnqueueNext(s)
        PROVE status' = status /\ (r \in queue' => r \in queue) /\ job' = job
    <2>1. ~InBatch(s, r)
      BY <1>5, <1>9 DEF EnqueueNext
    <2>2. Batch[s][next[s]] # r
      BY <1>9, <2>1, NextInBatch
    <2> QED
      BY <1>9, <2>2 DEF EnqueueNext, db, worker
  <1>10. ASSUME NEW s \in Submissions,
                CommitIds(s) \/ SubmitRaises(s) \/ SubmitFault(s)
         PROVE status' = status /\ queue' = queue /\ job' = job
    BY <1>10 DEF CommitIds, SubmitRaises, SubmitFault, db, redis, worker
  <1>11. ASSUME NEW q \in Runs, RequestCancel(q) \/ DeleteRun(q)
         PROVE status'[r] = status[r] /\ queue' = queue /\ job' = job
    BY <1>0, <1>4, <1>11 DEF RequestCancel, DeleteRun, Present, TypeOK, redis, worker
  <1>12. ASSUME NEW q \in Runs, LeaseExpires(q) \/ LeaseOutlived(q) \/ RedisLost
         PROVE status' = status /\ (r \in queue' => r \in queue) /\ job' = job
    BY <1>12 DEF LeaseExpires, LeaseOutlived, RedisLost, db, worker
  <1>13. ASSUME NEW w \in Workers, NEW q \in Runs, Pick(w, q) \/ GiveUp(w, q)
         PROVE /\ status' = status
               /\ queue' = queue
               /\ \A v \in Workers : job'[v] = r => job[v] = r
    BY <1>0, <1>4, <1>13 DEF Pick, GiveUp, Lease, db, TypeOK
  <1>14. ASSUME NEW w \in Workers, FinishJob(w) \/ Crash(w) \/ Shutdown(w) \/ Timeout(w)
         PROVE /\ status' = status
               /\ r \in queue' => r \in queue
               /\ \A v \in Workers : job'[v] = r => job[v] = r
    BY <1>0, <1>14, RunsAssumption
    DEF FinishJob, Crash, Shutdown, Timeout, Abandon, db, redis, TypeOK
  <1>15. ASSUME NEW w \in Workers, TaskStep(w)
         PROVE status'[r] = status[r] /\ queue' = queue /\ job' = job
    <2>1. job[w] # r
      BY <1>4 DEF Held
    <2> QED
      BY <1>0, <1>15, <2>1 DEF TaskStep, Load, Mark, Start, StopCancelled, RunLap,
         LogCurrentState, OnChunk, Finish, Fail, Raise, db, redis, TypeOK
  <1> QED
    BY <1>7, <1>8, <1>9, <1>10, <1>11, <1>12, <1>13, <1>14, <1>15
    DEF Next, ClientStep, SubmitStep, WorkerStep, FaultStep

-----------------------------------------------------------------------------

\* The row of a run in hand does not appear, and no cancellation is taken back
\* while it is there.
LEMMA CancelKept ==
  ASSUME AttemptInv, [Next]_vars, NEW r \in Runs, Held(r), Present(r)'
  PROVE Present(r) /\ (cancelReq[r] => cancelReq'[r])
  <1>0. TypeOK /\ UnbornUntouched
    BY DEF AttemptInv
  <1>1. CASE UNCHANGED vars
    BY <1>1 DEF vars, db, Present
  <1>2. ASSUME NEW s \in Submissions, SubmitRows(s)
        PROVE status'[r] = status[r] /\ cancelReq' = cancelReq
    <2>1. ~InBatch(s, r)
      BY <1>0, <1>2 DEF SubmitRows, UnbornUntouched, Unborn
    <2> QED
      BY <1>2, <2>1 DEF SubmitRows
  <1>3. ASSUME NEW s \in Submissions, SubmitStep(s) \/ SubmitFault(s)
        PROVE status' = status /\ cancelReq' = cancelReq
    BY <1>3 DEF SubmitStep, EnqueueNext, CommitIds, SubmitRaises, SubmitFault, db
  <1>4. ASSUME NEW q \in Runs, RequestCancel(q)
        PROVE status' = status /\ (cancelReq[r] => cancelReq'[r])
    <2>1. CASE q = r
      BY <1>0, <1>4, <2>1 DEF RequestCancel, TypeOK
    <2>2. CASE q # r
      BY <1>0, <1>4, <2>2 DEF RequestCancel, TypeOK
    <2> QED
      BY <1>4, <2>1, <2>2 DEF RequestCancel
  <1>5. ASSUME NEW q \in Runs, DeleteRun(q)
        PROVE status'[r] = status[r] /\ cancelReq'[r] = cancelReq[r]
    BY <1>0, <1>5 DEF DeleteRun, TypeOK, Present
  <1>6. ASSUME NEW q \in Runs, LeaseExpires(q) \/ LeaseOutlived(q) \/ RedisLost
        PROVE status' = status /\ cancelReq' = cancelReq
    BY <1>6 DEF LeaseExpires, LeaseOutlived, RedisLost, db
  <1>7. ASSUME NEW w \in Workers, NEW q \in Runs, Pick(w, q) \/ GiveUp(w, q)
        PROVE status' = status /\ cancelReq' = cancelReq
    BY <1>7 DEF Pick, GiveUp, Lease, db
  <1>8. ASSUME NEW w \in Workers, FinishJob(w) \/ Crash(w) \/ Shutdown(w) \/ Timeout(w)
        PROVE status' = status /\ cancelReq' = cancelReq
    BY <1>8 DEF FinishJob, Crash, Shutdown, Timeout, db
  <1>9. ASSUME NEW w \in Workers, TaskStep(w)
        PROVE cancelReq' = cancelReq /\ (status'[r] = status[r] \/ Present(r))
    BY <1>0, <1>9 DEF TaskStep, Load, Mark, Start, StopCancelled, RunLap,
       LogCurrentState, OnChunk, Finish, Fail, Raise, db, Present, TypeOK
  <1> QED
    BY <1>1, <1>2, <1>3, <1>4, <1>5, <1>6, <1>7, <1>8, <1>9
    DEF Next, ClientStep, WorkerStep, FaultStep, Present

\* An attempt whose own locals stay the same stays consistent.
LEMMA IdleAttempt ==
  ASSUME AttemptInv, [Next]_vars, NEW w \in Workers,
         pc'[w] = pc[w], job'[w] = job[w], lap'[w] = lap[w], seq'[w] = seq[w],
         flushed'[w] = flushed[w], emitted'[w] = emitted[w], verdict'[w] = verdict[w]
  PROVE AttemptOK(w)'
  <1>1. AttemptOK(w) /\ job[w] \in Runs \cup {NoRun}
    BY DEF AttemptInv, TypeOK
  <1>2. job[w] # NoRun /\ verdict[w] = "cancelled" /\ Present(job[w])' => cancelReq'[job[w]]
    <2> SUFFICES ASSUME job[w] # NoRun, verdict[w] = "cancelled", Present(job[w])'
                 PROVE cancelReq'[job[w]]
      OBVIOUS
    <2>1. job[w] \in Runs /\ Held(job[w])
      BY <1>1 DEF Held
    <2>2. Present(job[w]) /\ (cancelReq[job[w]] => cancelReq'[job[w]])
      BY <2>1, CancelKept
    <2> QED
      BY <1>1, <2>2, Zenon DEF AttemptOK
  <1> QED
    BY <1>1, <1>2 DEF AttemptOK, Present

\* Whatever an attempt has emitted is part of the run's stream, and each lap adds
\* to it.
LEMMA EmittedGrows ==
  ASSUME NEW r \in Runs, NEW k \in Nat, k <= Laps[r]
  PROVE /\ Laps[r] \in Nat
        /\ k \in 0..(Laps[r] + 1) /\ k + 1 \in 0..(Laps[r] + 1)
        /\ Emitted[r][k] \in Nat /\ Emitted[r][k + 1] \in Nat /\ Total(r) \in Nat
        /\ Emitted[r][k] <= Emitted[r][k + 1]
        /\ Emitted[r][k + 1] <= Total(r)
        /\ Emitted[r][k] <= Total(r)
  <1>1. Laps[r] \in Nat
    BY SimulationAssumption
  <1>2. k \in 0..(Laps[r] + 1) /\ k + 1 \in 0..(Laps[r] + 1)
        /\ Laps[r] + 1 \in 0..(Laps[r] + 1)
    BY <1>1
  <1>3. \A i, j \in 0..(Laps[r] + 1) : i <= j => Emitted[r][i] <= Emitted[r][j]
    BY SimulationAssumption
  <1>4. k <= k + 1 /\ k + 1 <= Laps[r] + 1 /\ k <= Laps[r] + 1
    BY <1>1
  <1> QED
    BY <1>1, <1>2, <1>3, <1>4, EmittedType DEF Total

\* The step of a worker leaves it with consistent locals.
LEMMA WorkerStepOK ==
  ASSUME AttemptInv, [Next]_vars, NEW w \in Workers,
         TaskStep(w) \/ Timeout(w) PROVE AttemptOK(w)'
  <1> DEFINE r == job[w]
  <1>1. TypeOK /\ AttemptOK(w)
    BY DEF AttemptInv
  <1>2. /\ pc[w] \in Places \ {"idle", "drop", "return"}
        /\ r \in Runs /\ r # NoRun /\ Held(r) /\ job' = job
    <2>1. pc[w] \in Places \ {"idle", "drop", "return"} /\ job' = job
      BY <1>1 DEF TaskStep, Load, Mark, Start, StopCancelled, RunLap, LogCurrentState,
         OnChunk, Finish, Fail, Raise, Timeout, task, TypeOK
    <2>2. r \in Runs
      BY <2>1, WorkingHasJob
    <2> QED
      BY <2>1, <2>2, RunsAssumption DEF Held
  <1>3. Present(r)' => Present(r) /\ (cancelReq[r] => cancelReq'[r])
    BY <1>2, CancelKept
  <1>4. /\ lap[w] \in Nat /\ seq[w] \in Nat /\ flushed[w] \in Nat /\ emitted[w] \in Nat
        /\ verdict[w] \in Verdicts /\ lap[w] <= Laps[r] /\ Laps[r] \in Nat
    BY <1>1, <1>2, SimulationAssumption DEF TypeOK, AttemptOK
  <1>5. verdict[w] = "cancelled" /\ Present(r)' => cancelReq'[r]
    <2>1. verdict[w] = "cancelled" /\ Present(r) => cancelReq[r]
      BY <1>1, <1>2 DEF AttemptOK
    <2> QED
      BY <1>3, <2>1
  <1>6. CASE Load(w) \/ Mark(w)
    BY <1>1, <1>2, <1>4, <1>6 DEF Load, Mark, Goto, runner, TypeOK, AttemptOK
  <1>7. CASE Start(w)
    <2>1. CASE Fate[r] = "unbuildable"
      BY <1>1, <1>2, <1>4, <1>7, <2>1 DEF Start, Goto, TypeOK, AttemptOK, Ends
    <2>2. CASE Fate[r] # "unbuildable"
      <3>1. Emitted[r][0] \in Nat /\ Emitted[r][0] <= Total(r)
        BY <1>2, <1>4, EmittedGrows
      <3> QED
        BY <1>1, <1>2, <1>4, <1>7, <2>2, <3>1 DEF Start, Goto, TypeOK, AttemptOK
    <2> QED
      BY <2>1, <2>2
  <1>8. CASE StopCancelled(w)
    <2>1. cancelReq[r] /\ verdict'[w] = "cancelled" /\ pc'[w] = "flush"
          /\ verdict[w] = "none"
      BY <1>1, <1>8 DEF StopCancelled, Goto, TypeOK, AttemptOK
    <2>2. Present(r)' => cancelReq'[r]
      BY <1>3, <2>1
    <2> QED
      BY <1>1, <1>2, <1>4, <1>8, <2>1, <2>2 DEF StopCancelled, AttemptOK
  <1>9. CASE RunLap(w)
    <2>1. CASE lap[w] = Laps[r]
      BY <1>1, <1>2, <1>4, <1>9, <2>1 DEF RunLap, MoreLaps, Goto, TypeOK, AttemptOK
    <2>2. CASE lap[w] # Laps[r]
      <3>1. lap[w] + 1 <= Laps[r] /\ lap[w] + 1 \in Nat
        BY <1>4, <2>2
      <3>2. /\ Emitted[r][lap[w]] <= Emitted[r][lap[w] + 1]
            /\ Emitted[r][lap[w] + 1] <= Total(r)
            /\ Emitted[r][lap[w] + 1] \in Nat
            /\ Emitted[r][lap[w]] \in Nat
        BY <1>2, <1>4, EmittedGrows
      <3>3. emitted[w] = Emitted[r][lap[w]] /\ verdict[w] = "none"
        BY <1>1, <1>2, <1>9 DEF AttemptOK, RunLap
      <3>4. /\ pc'[w] = "flush" /\ lap'[w] = lap[w] + 1 /\ verdict' = verdict
            /\ emitted'[w] = Emitted[r][lap[w] + 1] /\ seq' = seq /\ flushed' = flushed
        BY <1>1, <1>9, <2>2 DEF RunLap, Goto, TypeOK
      <3> QED
        BY <1>1, <1>2, <1>4, <3>1, <3>2, <3>3, <3>4 DEF AttemptOK
    <2> QED
      BY <2>1, <2>2
  <1>10. CASE LogCurrentState(w)
    <2>1. Ends(r)
      BY <1>10 DEF LogCurrentState, MoreLaps
    <2>2. Emitted[r][lap[w]] <= Total(r) /\ Total(r) \in Nat
      BY <1>2, <1>4, EmittedGrows
    <2>3. /\ pc'[w] = "flush" /\ emitted'[w] = Total(r) /\ verdict'[w] = "completed"
          /\ lap' = lap /\ seq' = seq /\ flushed' = flushed
      BY <1>1, <1>10 DEF LogCurrentState, Goto, TypeOK
    <2> QED
      BY <1>1, <1>2, <1>4, <1>10, <2>1, <2>2, <2>3 DEF LogCurrentState, AttemptOK
  <1>11. CASE OnChunk(w)
    <2>1. /\ pc'[w] = (IF verdict[w] = "none" THEN "loop" ELSE "finish")
          /\ seq'[w] = seq[w] + (emitted[w] - flushed[w])
          /\ flushed'[w] = emitted[w]
          /\ lap' = lap /\ emitted' = emitted /\ verdict' = verdict
      BY <1>1, <1>11 DEF OnChunk, Goto, TypeOK
    <2>2. pc[w] = "flush" /\ seq[w] = flushed[w] /\ flushed[w] <= emitted[w]
      BY <1>1, <1>11 DEF OnChunk, AttemptOK
    <2>3. seq'[w] = emitted[w]
      BY <1>4, <2>1, <2>2
    <2> QED
      BY <1>1, <1>2, <1>4, <1>5, <2>1, <2>2, <2>3 DEF AttemptOK, Verdicts
  <1>12. CASE Finish(w) \/ Fail(w) \/ Raise(w) \/ Timeout(w)
    <2>1. pc'[w] = "return" /\ task' = task
      BY <1>1, <1>12 DEF Finish, Fail, Raise, Timeout, Goto, TypeOK
    <2> QED
      BY <1>1, <1>2, <1>5, <2>1 DEF AttemptOK, task, runner
  <1> QED
    BY <1>6, <1>7, <1>8, <1>9, <1>10, <1>11, <1>12 DEF TaskStep

LEMMA AttemptStep == AttemptInv /\ [Next]_vars => \A w \in Workers : AttemptOK(w)'
  <1> SUFFICES ASSUME AttemptInv, [Next]_vars, NEW w \in Workers PROVE AttemptOK(w)'
    OBVIOUS
  <1>0. TypeOK /\ AttemptOK(w)
    BY DEF AttemptInv
  <1>1. CASE UNCHANGED worker
    BY <1>1, IdleAttempt DEF worker, task, runner
  <1>2. ASSUME NEW v \in Workers, TaskStep(v) \/ Timeout(v) PROVE AttemptOK(w)'
    <2>1. CASE w = v
      BY <1>2, <2>1, WorkerStepOK
    <2>2. CASE w # v
      <3>1. /\ pc'[w] = pc[w] /\ job'[w] = job[w] /\ lap'[w] = lap[w]
            /\ seq'[w] = seq[w] /\ flushed'[w] = flushed[w]
            /\ emitted'[w] = emitted[w] /\ verdict'[w] = verdict[w]
        BY <1>0, <1>2, <2>2 DEF TaskStep, Load, Mark, Start, StopCancelled, RunLap,
           LogCurrentState, OnChunk, Finish, Fail, Raise, Timeout, Goto, task, row,
           runner, TypeOK
      <3> QED
        BY <3>1, IdleAttempt
    <2> QED
      BY <2>1, <2>2
  <1>3. ASSUME NEW v \in Workers, NEW r \in Runs, Pick(v, r) \/ GiveUp(v, r)
        PROVE AttemptOK(w)'
    <2>1. CASE w = v
      <3>1. /\ pc[w] = "idle" /\ pc'[w] \in {"load", "drop"} /\ job'[w] = r
            /\ UNCHANGED task
        BY <1>0, <1>3, <2>1 DEF Pick, GiveUp, Lease, Goto, TypeOK
      <3>2. lap[w] = 0 /\ emitted[w] = 0 /\ verdict[w] = "none" /\ seq[w] = flushed[w]
            /\ flushed[w] <= emitted[w]
        BY <1>0, <3>1 DEF AttemptOK
      <3>3. Total(r) \in Nat /\ Laps[r] \in Nat /\ r # NoRun
        BY TotalType, SimulationAssumption, RunsAssumption
      <3> QED
        BY <3>1, <3>2, <3>3 DEF AttemptOK, task, runner
    <2>2. CASE w # v
      BY <1>0, <1>3, <2>2, IdleAttempt
      DEF Pick, GiveUp, Lease, Goto, task, runner, TypeOK
    <2> QED
      BY <2>1, <2>2
  <1>4. ASSUME NEW v \in Workers, FinishJob(v) \/ Crash(v) \/ Shutdown(v)
        PROVE AttemptOK(w)'
    <2>0. Abandon(v)
      BY <1>4 DEF FinishJob, Crash, Shutdown
    <2>1. CASE w = v
      BY <1>0, <2>0, <2>1 DEF Abandon, Goto, AttemptOK, TypeOK
    <2>2. CASE w # v
      BY <1>0, <2>0, <2>2, IdleAttempt DEF Abandon, Goto, TypeOK
    <2> QED
      BY <2>1, <2>2
  <1>5. ASSUME NEW s \in Submissions, SubmitRows(s) \/ SubmitStep(s) \/ SubmitFault(s)
        PROVE UNCHANGED worker
    BY <1>5 DEF SubmitRows, SubmitStep, EnqueueNext, CommitIds, SubmitRaises, SubmitFault
  <1>6. ASSUME NEW r \in Runs, \/ RequestCancel(r) \/ DeleteRun(r) \/ LeaseExpires(r)
                               \/ LeaseOutlived(r) \/ RedisLost
        PROVE UNCHANGED worker
    BY <1>6 DEF RequestCancel, DeleteRun, LeaseExpires, LeaseOutlived, RedisLost
  <1>7. CASE RedisLost
    BY <1>1, <1>7 DEF RedisLost
  <1>8. CASE UNCHANGED vars
    BY <1>1, <1>8 DEF vars
  <1> QED
    BY <1>1, <1>2, <1>3, <1>4, <1>5, <1>6, <1>7, <1>8
    DEF Next, ClientStep, WorkerStep, FaultStep

\* Every variable stays within its type, whatever goes wrong, for any number of
\* runs, workers, submissions and faults.
THEOREM TypeCorrect == Spec => []TypeOK
  <1>1. Init => AttemptInv
    BY InitAttemptInv
  <1>2. AttemptInv /\ [Next]_vars => AttemptInv'
    BY TypeStep, UnbornStep, AttemptStep DEF AttemptInv
  <1>3. AttemptInv => TypeOK
    BY DEF AttemptInv
  <1> QED
    BY <1>1, <1>2, <1>3, PTL DEF Spec

-----------------------------------------------------------------------------
(* The beginnings of a stream.                                             *)

LEMMA PrefixEmpty == Prefix(0) = {}
  BY DEF Prefix

LEMMA PrefixFirst == ASSUME NEW n \in Nat, n > 0 PROVE <<0, 0>> \in Prefix(n)
  BY DEF Prefix

LEMMA PrefixExtend ==
  ASSUME NEW m \in Nat, NEW n \in Nat, m <= n
  PROVE Prefix(m) \cup {<<m + i, m + i>> : i \in 0..(n - m - 1)} = Prefix(n)
  <1>1. ASSUME NEW e \in Prefix(n)
        PROVE e \in Prefix(m) \cup {<<m + i, m + i>> : i \in 0..(n - m - 1)}
    <2>1. PICK i \in 0..(n - 1) : e = <<i, i>>
      BY DEF Prefix
    <2>2. CASE i < m
      BY <2>1, <2>2 DEF Prefix
    <2>3. CASE i >= m
      <3>1. i - m \in 0..(n - m - 1) /\ m + (i - m) = i
        BY <2>3
      <3> QED
        BY <2>1, <3>1
    <2> QED
      BY <2>2, <2>3
  <1>2. ASSUME NEW e \in Prefix(m) PROVE e \in Prefix(n)
    BY <1>2 DEF Prefix
  <1>3. ASSUME NEW i \in 0..(n - m - 1) PROVE <<m + i, m + i>> \in Prefix(n)
    BY <1>3 DEF Prefix
  <1> QED
    BY <1>1, <1>2, <1>3

LEMMA PrefixInjective ==
  ASSUME NEW m \in Nat, NEW n \in Nat, Prefix(m) = Prefix(n) PROVE m = n
  <1>1. ASSUME NEW a \in Nat, NEW b \in Nat, a < b PROVE Prefix(a) # Prefix(b)
    <2>1. <<a, a>> \in Prefix(b)
      BY <1>1 DEF Prefix
    <2>2. <<a, a>> \notin Prefix(a)
      BY DEF Prefix
    <2> QED
      BY <2>1, <2>2
  <1> QED
    BY <1>1

\* A stream without its first event is empty.
LEMMA PrefixWithoutFirst ==
  ASSUME NEW n \in Nat, \A e \in Prefix(n) : e[1] # 0 PROVE n = 0
  <1> SUFFICES ASSUME n > 0 PROVE FALSE
    OBVIOUS
  <1> QED
    BY PrefixFirst

-----------------------------------------------------------------------------

\* on_chunk either adds nothing, or adds to what this attempt alone has stored.
LEMMA OnChunkStores ==
  ASSUME IInv, NEW w \in Workers, OnChunk(w)
  PROVE /\ job[w] \in Runs
        /\ seq'[w] = emitted[w]
        /\ seq[w] \in Nat /\ emitted[w] \in Nat /\ seq[w] <= emitted[w]
        /\ emitted[w] <= Total(job[w])
        /\ \/ seq[w] = emitted[w] /\ events' = events
           \/ /\ seq[w] < emitted[w]
              /\ events[job[w]] = Prefix(seq[w])
              /\ events' = [events EXCEPT ![job[w]] = Prefix(emitted[w])]
              /\ \A v \in Workers \ {w} : job[v] = job[w] => seq[v] = 0
  <1> DEFINE r == job[w]
  <1>0. AttemptInv /\ TypeOK /\ AttemptOK(w)
    BY DEF IInv, AttemptInv
  <1>1. r \in Runs /\ r # NoRun /\ Present(r) /\ ~Clash(w) /\ pc[w] = "flush"
    BY <1>0, WorkingHasJob, RunsAssumption DEF OnChunk
  <1>2. /\ seq[w] \in Nat /\ emitted[w] \in Nat /\ flushed[w] = seq[w]
        /\ seq[w] <= emitted[w] /\ emitted[w] <= Total(r)
    BY <1>0, <1>1 DEF TypeOK, AttemptOK
  <1>3. seq'[w] = emitted[w]
    <2>1. seq'[w] = seq[w] + (emitted[w] - flushed[w])
      BY <1>0 DEF OnChunk, TypeOK
    <2> QED
      BY <1>2, <2>1
  <1>4. NewRows(w) = {<<seq[w] + i, seq[w] + i>> : i \in 0..(emitted[w] - seq[w] - 1)}
    BY <1>2 DEF NewRows
  <1>5. events' = [events EXCEPT ![r] = events[r] \cup NewRows(w)]
    BY DEF OnChunk
  <1>6. CASE seq[w] = emitted[w]
    <2>1. NewRows(w) = {}
      BY <1>2, <1>4, <1>6
    <2>2. events' = events
      BY <1>0, <1>1, <1>5, <2>1 DEF TypeOK
    <2> QED
      BY <1>1, <1>2, <1>3, <1>6, <2>2
  <1>7. CASE seq[w] < emitted[w]
    <2>1. <<seq[w], seq[w]>> \in NewRows(w)
      <3>1. 0 \in 0..(emitted[w] - seq[w] - 1) /\ seq[w] + 0 = seq[w]
        BY <1>2, <1>7
      <3> QED
        BY <1>4, <3>1
    <2>2. \A e \in events[r] : e[1] # seq[w]
      BY <1>1, <2>1 DEF Clash
    <2>3. events[r] = Prefix(seq[w])
      <3>1. CASE seq[w] > 0
        BY <1>1, <3>1 DEF IInv, WriterUpToDate
      <3>2. CASE seq[w] = 0
        <4>1. PICK n \in 0..Total(r) : events[r] = Prefix(n)
          BY <1>1 DEF IInv, StoredIsPrefix
        <4>2. n \in Nat
          BY <1>1, TotalType
        <4> QED
          BY <2>2, <3>2, <4>1, <4>2, PrefixWithoutFirst
      <3> QED
        BY <1>2, <3>1, <3>2
    <2>4. events[r] \cup NewRows(w) = Prefix(emitted[w])
      BY <1>2, <1>4, <2>3, PrefixExtend
    <2>5. ASSUME NEW v \in Workers \ {w}, job[v] = r, seq[v] # 0 PROVE FALSE
      <3>1. seq[v] \in Nat /\ seq[v] > 0
        BY <1>0, <2>5 DEF TypeOK
      <3>2. seq[w] = 0
        BY <1>1, <2>5 DEF IInv, OneWriter
      <3>3. events[r] = Prefix(seq[v])
        BY <1>1, <2>5, <3>1 DEF IInv, WriterUpToDate
      <3>4. seq[v] = 0
        BY <2>2, <3>1, <3>2, <3>3, PrefixWithoutFirst
      <3> QED
        BY <2>5, <3>4
    <2> QED
      BY <1>1, <1>2, <1>3, <1>5, <1>7, <2>3, <2>4, <2>5
  <1> QED
    BY <1>1, <1>2, <1>3, <1>6, <1>7

\* What is stored, without the locals of the attempts.
StoredInv ==
  /\ NoOrphanEvents
  /\ StoredIsPrefix
  /\ WriterUpToDate
  /\ OneWriter
  /\ TruthfulVerdict

\* A step that leaves the database alone, and in which an attempt at most ends.
LEMMA QuietStep ==
  ASSUME IInv, [Next]_vars, UNCHANGED <<status, cancelReq, events>>,
         \A w \in Workers : seq'[w] = 0 \/ (seq'[w] = seq[w] /\ job'[w] = job[w])
  PROVE StoredInv'
  <1>1. NoOrphanEvents' /\ StoredIsPrefix' /\ TruthfulVerdict'
    BY DEF IInv, NoOrphanEvents, StoredIsPrefix, TruthfulVerdict, Present
  <1>2. WriterUpToDate'
    BY DEF IInv, WriterUpToDate, Present
  <1>3. OneWriter'
    BY DEF IInv, OneWriter, Present
  <1> QED
    BY <1>1, <1>2, <1>3 DEF StoredInv

\* A step that changes a status, or the flag, and neither events nor attempts.
LEMMA StatusStep ==
  ASSUME IInv, [Next]_vars, events' = events, seq' = seq, job' = job,
         NoOrphanEvents', TruthfulVerdict'
  PROVE StoredInv'
  <1>1. ASSUME NEW w \in Workers, job[w] # NoRun, Present(job[w])'
        PROVE Present(job[w])
    <2>1. AttemptInv /\ job[w] \in Runs /\ Held(job[w])
      BY <1>1 DEF IInv, AttemptInv, TypeOK, Held
    <2> QED
      BY <1>1, <2>1, CancelKept
  <1>2. StoredIsPrefix'
    BY DEF IInv, StoredIsPrefix
  <1>3. WriterUpToDate'
    BY <1>1 DEF IInv, WriterUpToDate, Present
  <1>4. OneWriter'
    BY <1>1 DEF IInv, OneWriter, Present
  <1> QED
    BY <1>2, <1>3, <1>4 DEF StoredInv

LEMMA DeleteRunStep ==
  ASSUME IInv, [Next]_vars, NEW r \in Runs, DeleteRun(r) PROVE StoredInv'
  <1>0. TypeOK
    BY DEF IInv
  <1>1. /\ status' = [status EXCEPT ![r] = "absent"]
        /\ cancelReq' = [cancelReq EXCEPT ![r] = FALSE]
        /\ events' = [events EXCEPT ![r] = {}]
        /\ job' = job /\ seq' = seq
    BY DEF DeleteRun, worker, task
  <1>2. \A q \in Runs : q # r =>
          /\ status'[q] = status[q] /\ events'[q] = events[q]
          /\ cancelReq'[q] = cancelReq[q]
    BY <1>0, <1>1 DEF TypeOK
  <1>3. events'[r] = {} /\ status'[r] = "absent"
    BY <1>0, <1>1 DEF TypeOK
  <1>4. NoOrphanEvents'
    BY <1>2, <1>3 DEF IInv, NoOrphanEvents, Present
  <1>5. StoredIsPrefix'
    <2> SUFFICES ASSUME NEW q \in Runs PROVE \E n \in 0..Total(q) : events'[q] = Prefix(n)
      BY DEF StoredIsPrefix
    <2>1. CASE q = r
      BY <1>3, <2>1, PrefixEmpty, TotalType
    <2>2. CASE q # r
      BY <1>2, <2>2 DEF IInv, StoredIsPrefix
    <2> QED
      BY <2>1, <2>2
  <1>6. \A w \in Workers : job[w] # NoRun => job[w] \in Runs
    BY <1>0 DEF TypeOK
  <1>7. WriterUpToDate'
    BY <1>1, <1>2, <1>3, <1>6 DEF IInv, WriterUpToDate, Present
  <1>8. OneWriter'
    BY <1>1, <1>2, <1>3, <1>6 DEF IInv, OneWriter, Present
  <1>9. TruthfulVerdict'
    BY <1>2, <1>3 DEF IInv, TruthfulVerdict
  <1> QED
    BY <1>4, <1>5, <1>7, <1>8, <1>9 DEF StoredInv

LEMMA OnChunkStep ==
  ASSUME IInv, [Next]_vars, NEW w \in Workers, OnChunk(w) PROVE StoredInv'
  <1> DEFINE r == job[w]
  <1>0. TypeOK /\ AttemptInv
    BY DEF IInv, AttemptInv
  <1>1. /\ r \in Runs /\ r # NoRun /\ Present(r)
        /\ UNCHANGED <<status, cancelReq, job>>
        /\ \A v \in Workers : v # w => seq'[v] = seq[v]
    <2>1. r \in Runs /\ r # NoRun
      BY RunsAssumption, OnChunkStores
    <2>2. Present(r) /\ UNCHANGED <<status, cancelReq, job>>
      BY DEF OnChunk
    <2>3. \A v \in Workers : v # w => seq'[v] = seq[v]
      BY <1>0 DEF OnChunk, TypeOK
    <2> QED
      BY <2>1, <2>2, <2>3
  <1>2. /\ seq'[w] = emitted[w]
        /\ seq[w] \in Nat /\ emitted[w] \in Nat /\ seq[w] <= emitted[w]
        /\ emitted[w] <= Total(r) /\ Total(r) \in Nat
    BY <1>1, OnChunkStores, TotalType
  <1>3. CASE seq[w] = emitted[w] /\ events' = events
    BY <1>1, <1>2, <1>3, QuietStep
  <1>4. CASE /\ seq[w] < emitted[w]
             /\ events[r] = Prefix(seq[w])
             /\ events' = [events EXCEPT ![r] = Prefix(emitted[w])]
             /\ \A v \in Workers \ {w} : job[v] = r => seq[v] = 0
    <2>1. /\ events'[r] = Prefix(emitted[w])
          /\ \A q \in Runs : q # r => events'[q] = events[q]
      BY <1>0, <1>1, <1>4 DEF TypeOK
    <2>2. NoOrphanEvents'
      BY <1>1, <2>1 DEF IInv, NoOrphanEvents, Present
    <2>3. StoredIsPrefix'
      <3> SUFFICES ASSUME NEW q \in Runs
                   PROVE \E n \in 0..Total(q) : events'[q] = Prefix(n)
        BY DEF StoredIsPrefix
      <3>1. CASE q = r
        BY <1>2, <2>1, <3>1
      <3>2. CASE q # r
        BY <2>1, <3>2 DEF IInv, StoredIsPrefix
      <3> QED
        BY <3>1, <3>2
    <2>4. WriterUpToDate'
      <3> SUFFICES ASSUME NEW v \in Workers, job[v] # NoRun, Present(job[v]), seq'[v] > 0
                   PROVE events'[job[v]] = Prefix(seq'[v])
        BY <1>1 DEF WriterUpToDate, Present
      <3>1. CASE v = w
        BY <1>2, <2>1, <3>1
      <3>2. CASE v # w
        <4>1. job[v] \in Runs /\ seq'[v] = seq[v] /\ seq[v] \in Nat
          BY <1>0, <1>1, <3>2 DEF TypeOK
        <4>2. job[v] # r
          BY <1>4, <3>2, <4>1
        <4> QED
          BY <2>1, <4>1, <4>2 DEF IInv, WriterUpToDate
      <3> QED
        BY <3>1, <3>2
    <2>5. OneWriter'
      BY <1>1, <1>4 DEF IInv, OneWriter, Present
    <2>6. TruthfulVerdict'
      <3>1. ASSUME status[r] = "completed" PROVE FALSE
        <4>1. events[r] = Prefix(Total(r))
          BY <1>1, <3>1 DEF IInv, TruthfulVerdict
        <4>2. seq[w] = Total(r)
          BY <1>2, <1>4, <4>1, PrefixInjective
        <4> QED
          BY <1>2, <1>4, <4>2
      <3> QED
        BY <1>1, <2>1, <3>1 DEF IInv, TruthfulVerdict
    <2> QED
      BY <2>2, <2>3, <2>4, <2>5, <2>6 DEF StoredInv
  <1> QED
    BY <1>3, <1>4, OnChunkStores

\* The handlers that write a verdict write a true one.
LEMMA VerdictStep ==
  ASSUME IInv, [Next]_vars, NEW w \in Workers, Mark(w) \/ Finish(w) \/ Fail(w)
  PROVE StoredInv'
  <1> DEFINE r == job[w]
  <1>0. TypeOK /\ AttemptInv /\ AttemptOK(w)
    BY DEF IInv, AttemptInv
  <1>1. /\ r \in Runs /\ r # NoRun /\ Present(r)
        /\ UNCHANGED <<cancelReq, events, seq, job>>
        /\ \A q \in Runs : q # r => status'[q] = status[q]
    <2>1. /\ pc[w] # "idle" /\ Present(r)
          /\ UNCHANGED <<cancelReq, events, seq, job>>
      BY DEF Mark, Finish, Fail, task
    <2>2. r \in Runs /\ r # NoRun
      BY <1>0, <2>1, WorkingHasJob, RunsAssumption
    <2>3. \A q \in Runs : q # r => status'[q] = status[q]
      BY <1>0, <2>2 DEF Mark, Finish, Fail, TypeOK
    <2> QED
      BY <2>1, <2>2, <2>3
  <1>2. NoOrphanEvents'
    <2>1. \A q \in Runs : ~Present(q)' => q = r \/ ~Present(q)
      BY <1>1 DEF Present
    <2>2. Present(r)'
      BY <1>0, <1>1 DEF Mark, Finish, Fail, Present, TypeOK, AttemptOK, Verdicts
    <2> QED
      BY <1>1, <2>1, <2>2 DEF IInv, NoOrphanEvents
  <1>3. CASE Mark(w)
    <2>1. status'[r] \in {"running", status[r]}
      BY <1>0, <1>1, <1>3 DEF Mark, TypeOK
    <2>2. TruthfulVerdict'
      BY <1>1, <2>1 DEF IInv, TruthfulVerdict
    <2> QED
      BY <1>1, <1>2, <2>2, StatusStep
  <1>4. CASE Fail(w)
    <2>1. status'[r] = "failed" /\ ~Ends(r)
      BY <1>0, <1>1, <1>4 DEF Fail, TypeOK, AttemptOK
    <2>2. TruthfulVerdict'
      BY <1>1, <2>1 DEF IInv, TruthfulVerdict
    <2> QED
      BY <1>1, <1>2, <2>2, StatusStep
  <1>5. CASE Finish(w)
    <2>1. status'[r] = verdict[w] /\ verdict[w] \in {"completed", "cancelled"}
      BY <1>0, <1>1, <1>5 DEF Finish, TypeOK, AttemptOK, Verdicts
    <2>2. ASSUME verdict[w] = "completed" PROVE Ends(r) /\ events[r] = Prefix(Total(r))
      <3>1. Ends(r) /\ seq[w] = Total(r) /\ Total(r) \in Nat
        BY <1>0, <1>1, <1>5, <2>2, TotalType DEF Finish, AttemptOK
      <3>2. CASE seq[w] > 0
        BY <1>1, <3>1, <3>2 DEF IInv, WriterUpToDate
      <3>3. CASE Total(r) = 0
        BY <1>1, <3>1, <3>3 DEF IInv, StoredIsPrefix
      <3> QED
        BY <3>1, <3>2, <3>3
    <2>3. verdict[w] = "cancelled" => cancelReq[r]
      BY <1>0, <1>1 DEF AttemptOK
    <2>4. TruthfulVerdict'
      BY <1>1, <2>1, <2>2, <2>3 DEF IInv, TruthfulVerdict
    <2> QED
      BY <1>1, <1>2, <2>4, StatusStep
  <1> QED
    BY <1>3, <1>4, <1>5

LEMMA StoredStep == IInv /\ [Next]_vars => StoredInv'
  <1> SUFFICES ASSUME IInv, [Next]_vars PROVE StoredInv'
    OBVIOUS
  <1>0. TypeOK /\ AttemptInv
    BY DEF IInv, AttemptInv
  <1>1. CASE UNCHANGED vars
    BY <1>1, QuietStep DEF vars, db, worker, task
  <1>2. ASSUME NEW s \in Submissions, SubmitRows(s) PROVE StoredInv'
    <2>1. /\ UNCHANGED <<cancelReq, events, job, seq>>
          /\ \A q \in Runs : status'[q] = status[q] \/ status'[q] = "queued"
      BY <1>2 DEF SubmitRows, worker, task
    <2>2. \A q \in Runs : ~Present(q)' => ~Present(q)
      BY <2>1 DEF Present
    <2>3. NoOrphanEvents' /\ TruthfulVerdict'
      BY <2>1, <2>2 DEF IInv, NoOrphanEvents, TruthfulVerdict
    <2> QED
      BY <2>1, <2>3, StatusStep
  <1>3. ASSUME NEW s \in Submissions, SubmitStep(s) \/ SubmitFault(s) PROVE StoredInv'
    BY <1>3, QuietStep DEF SubmitStep, EnqueueNext, CommitIds, SubmitRaises, SubmitFault,
       db, worker, task
  <1>4. ASSUME NEW r \in Runs, RequestCancel(r) PROVE StoredInv'
    <2>1. /\ UNCHANGED <<status, events, job, seq>>
          /\ \A q \in Runs : cancelReq[q] => cancelReq'[q]
      BY <1>0, <1>4, Zenon DEF RequestCancel, worker, task, TypeOK
    <2>2. NoOrphanEvents' /\ TruthfulVerdict'
      BY <2>1 DEF IInv, NoOrphanEvents, TruthfulVerdict, Present
    <2> QED
      BY <2>1, <2>2, StatusStep
  <1>5. ASSUME NEW r \in Runs, DeleteRun(r) PROVE StoredInv'
    BY <1>5, DeleteRunStep
  <1>6. ASSUME NEW r \in Runs, LeaseExpires(r) \/ LeaseOutlived(r) \/ RedisLost
        PROVE StoredInv'
    BY <1>6, QuietStep DEF LeaseExpires, LeaseOutlived, RedisLost, db, worker, task
  <1>7. ASSUME NEW w \in Workers, NEW r \in Runs, Pick(w, r) \/ GiveUp(w, r)
        PROVE StoredInv'
    <2>1. \A v \in Workers : seq'[v] = 0 \/ (seq'[v] = seq[v] /\ job'[v] = job[v])
      BY <1>0, <1>7 DEF Pick, GiveUp, Lease, task, TypeOK, AttemptInv, AttemptOK
    <2> QED
      BY <1>7, <2>1, QuietStep DEF Pick, GiveUp, Lease, db
  <1>8. ASSUME NEW w \in Workers, FinishJob(w) \/ Crash(w) \/ Shutdown(w)
        PROVE StoredInv'
    <2>1. Abandon(w) /\ UNCHANGED db
      BY <1>8 DEF FinishJob, Crash, Shutdown
    <2>2. \A v \in Workers : seq'[v] = 0 \/ (seq'[v] = seq[v] /\ job'[v] = job[v])
      BY <1>0, <2>1 DEF Abandon, TypeOK
    <2> QED
      BY <2>1, <2>2, QuietStep DEF db
  <1>9. ASSUME NEW w \in Workers,
               \/ Load(w) \/ Start(w) \/ StopCancelled(w) \/ RunLap(w)
               \/ LogCurrentState(w) \/ Raise(w) \/ Timeout(w)
        PROVE StoredInv'
    BY <1>9, QuietStep DEF Load, Start, StopCancelled, RunLap, LogCurrentState, Raise,
       Timeout, db, task
  <1>10. ASSUME NEW w \in Workers, OnChunk(w) PROVE StoredInv'
    BY <1>10, OnChunkStep
  <1>11. ASSUME NEW w \in Workers, Mark(w) \/ Finish(w) \/ Fail(w) PROVE StoredInv'
    BY <1>11, VerdictStep
  <1>12. CASE RedisLost
    BY <1>12, QuietStep DEF RedisLost, db, worker, task
  <1> QED
    BY <1>1, <1>2, <1>3, <1>4, <1>5, <1>6, <1>7, <1>8, <1>9, <1>10, <1>11, <1>12
    DEF Next, ClientStep, WorkerStep, TaskStep, FaultStep

LEMMA InitIInv == Init => IInv
  <1> SUFFICES ASSUME Init PROVE IInv
    OBVIOUS
  <1>1. AttemptInv
    BY InitAttemptInv
  <1>2. \A r \in Runs : events[r] = Prefix(0) /\ 0 \in 0..Total(r)
    BY PrefixEmpty, TotalType DEF Init
  <1>3. NoOrphanEvents /\ StoredIsPrefix
    BY <1>2, PrefixEmpty DEF NoOrphanEvents, StoredIsPrefix
  <1>4. WriterUpToDate /\ OneWriter /\ TruthfulVerdict
    BY DEF Init, WriterUpToDate, OneWriter, TruthfulVerdict
  <1> QED
    BY <1>1, <1>3, <1>4 DEF AttemptInv, IInv

LEMMA InvariantStep == IInv /\ [Next]_vars => IInv'
  BY TypeStep, UnbornStep, AttemptStep, StoredStep DEF AttemptInv, StoredInv, IInv

\* The inductive invariant holds in every reachable state.
THEOREM Invariance == Spec => []IInv
  BY InitIInv, InvariantStep, PTL DEF Spec

\* A reader finds the beginning of a run's one event stream, whatever was
\* delivered twice, died, was cancelled or was deleted.
THEOREM StoredEventsArePrefix == Spec => []StoredIsPrefix
  <1>1. IInv => StoredIsPrefix
    BY DEF IInv
  <1> QED
    BY <1>1, Invariance, PTL

\* A verdict in the row is true, and a completed run has all of its events.
THEOREM VerdictsAreTruthful == Spec => []TruthfulVerdict
  <1>1. IInv => TruthfulVerdict
    BY DEF IInv
  <1> QED
    BY <1>1, Invariance, PTL

\* Of the attempts at one run, at most one has stored events.
THEOREM AtMostOneWriter == Spec => []OneWriter
  <1>1. IInv => OneWriter
    BY DEF IInv
  <1> QED
    BY <1>1, Invariance, PTL

=============================================================================
