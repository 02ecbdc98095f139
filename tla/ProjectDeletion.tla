-------------------------- MODULE ProjectDeletion --------------------------
(***************************************************************************)
(* One project that is deleted while runs of it are submitted, down to the *)
(* row locks the two take from each other.                                 *)
(*                                                                         *)
(* submit_run inserts its rows and commits; then each refresh first        *)
(* flushes the arq_job_id of the row before it, so the rows of the batch   *)
(* are locked in their order until the last commit.  delete_project        *)
(* deletes the project's row, and Postgres deletes its runs by the foreign *)
(* key, in whatever order it finds them.  Where each holds what the other  *)
(* wants, Postgres aborts one of the two.                                  *)
(***************************************************************************)
EXTENDS Naturals

CONSTANTS
  Submissions,  \* submissions of runs of the project
  Batch,        \* the runs each asks for
  Deletions,    \* requests to delete the project
  Project,      \* the project's row
  NoOne         \* nobody holds the lock

ASSUME BatchAssumption  == Batch \in Nat \ {0}
ASSUME ActorsAssumption == /\ Submissions \cap Deletions = {}
                           /\ NoOne \notin Submissions \cup Deletions

ASSUME ProjectAssumption == Project \notin Submissions \X (1..Batch)

Rows == Submissions \X (1..Batch)
Actors == Submissions \cup Deletions

VARIABLES
  stored,       \* the committed rows: Project and members of Rows
  lock,         \* who holds which row until the end of a transaction
  pc,           \* where each request is
  turn,         \* the row of its batch a submission is at
  target,       \* the row a deletion has come to
  queue         \* the runs with a job

vars == <<stored, lock, pc, turn, target, queue>>

Ended == {"answered", "failed"}

-----------------------------------------------------------------------------
Free(r, a) == lock[r] \in {NoOne, a}
Goto(a, label) == pc' = [pc EXCEPT ![a] = label]
Take(r, a) == lock' = [lock EXCEPT ![r] = a]
Released(a) == [r \in DOMAIN lock |-> IF lock[r] = a THEN NoOne ELSE lock[r]]

\* An exception leaves the handler: get_db closes the session, which rolls
\* the transaction back.
FailUnclosed(a) == Goto(a, "failed") /\ UNCHANGED <<stored, lock, turn, target, queue>>
Fail(a) == /\ Goto(a, "failed")
           /\ lock' = Released(a)
           /\ UNCHANGED <<stored, turn, target, queue>>

Init ==
  /\ stored = {Project}
  /\ lock = [r \in Rows \cup {Project} |-> NoOne]
  /\ pc = [a \in Actors |-> "loading"]
  /\ turn = [s \in Submissions |-> 1]
  /\ target = [d \in Deletions |-> Project]
  /\ queue = {}

-----------------------------------------------------------------------------
(* submit_run.                                                             *)

Load(a) ==
  /\ pc[a] = "loading"
  /\ \/ /\ Project \notin stored /\ Fail(a)                    \* 404
     \/ /\ Project \in stored
        /\ Goto(a, IF a \in Submissions THEN "inserting" ELSE "deleting")
        /\ UNCHANGED <<stored, lock, turn, target, queue>>

\* The insertion shares the project's row, and so waits for a deletion of it
\* and is refused by the foreign key after one.  Nothing is held before it.
BatchOf(s) == {s} \X (1..Batch)
InsertUnkeyed(s) ==
  /\ pc[s] = "inserting"
  /\ stored' = stored \cup BatchOf(s)
  /\ Goto(s, "refreshing")
  /\ UNCHANGED <<lock, turn, target, queue>>
Insert(s) ==
  /\ pc[s] = "inserting"
  /\ Free(Project, s)
  /\ \/ /\ Project \notin stored /\ Fail(s)
     \/ /\ Project \in stored
        /\ stored' = stored \cup BatchOf(s)
        /\ Goto(s, "refreshing")
        /\ UNCHANGED <<lock, turn, target, queue>>

\* refresh(row) and the last commit: the row before is updated, and locked
\* by it; an update of no row, or a refresh of no row, raises.
Before(s) == <<s, turn[s] - 1>>
Missing(s) == ~ ({Before(s), <<s, turn[s]>>} \cap Rows \subseteq stored)
Refresh(s) ==
  /\ pc[s] = "refreshing"
  /\ turn[s] > 1 => Free(Before(s), s)
  /\ \/ /\ Missing(s) /\ Fail(s)
     \/ /\ ~ Missing(s)
        /\ IF turn[s] <= Batch
           THEN /\ Goto(s, "enqueueing")
                /\ IF turn[s] > 1 THEN Take(Before(s), s) ELSE UNCHANGED lock
           ELSE Goto(s, "answering") /\ lock' = Released(s)
        /\ UNCHANGED <<stored, turn, target, queue>>

EnqueueQuietly(s) ==
  /\ pc[s] = "enqueueing"
  /\ queue' \in {queue, queue \cup {<<s, turn[s]>>}}
  /\ turn' = [turn EXCEPT ![s] = @ + 1]
  /\ Goto(s, "refreshing")
  /\ UNCHANGED <<stored, lock, target>>
Enqueue(s) ==
  /\ pc[s] = "enqueueing"
  /\ \/ Fail(s)                                                \* Redis is away
     \/ /\ queue' = queue \cup {<<s, turn[s]>>}
        /\ turn' = [turn EXCEPT ![s] = @ + 1]
        /\ Goto(s, "refreshing")
        /\ UNCHANGED <<stored, lock, target>>

\* The refresh for the answer; everything is committed.
Answer(s) ==
  /\ pc[s] = "answering"
  /\ Goto(s, IF <<s, 1>> \in stored THEN "answered" ELSE "failed")
  /\ UNCHANGED <<stored, lock, turn, target, queue>>

-----------------------------------------------------------------------------
(* delete_project, and the cascade of its commit's flush.                  *)

\* A project that was deleted meanwhile is deleted again without an error.
Delete(d) ==
  /\ pc[d] = "deleting"
  /\ Free(Project, d)
  /\ \/ /\ Project \notin stored
        /\ Goto(d, "answered") /\ UNCHANGED lock
     \/ /\ Project \in stored
        /\ Goto(d, "scanning") /\ Take(Project, d)
  /\ UNCHANGED <<stored, turn, target, queue>>

\* Some row of the project that is still stored and not deleted yet.
Left(d) == {r \in stored : lock[r] # d}
Scan(d) ==
  /\ pc[d] = "scanning"
  /\ \E r \in Left(d) : target' = [target EXCEPT ![d] = r]
  /\ Goto(d, "waiting")
  /\ UNCHANGED <<stored, lock, turn, queue>>

DeleteRow(d) ==
  /\ pc[d] = "waiting"
  /\ Free(target[d], d)
  /\ IF target[d] \in stored THEN Take(target[d], d) ELSE UNCHANGED lock
  /\ Goto(d, "scanning")
  /\ UNCHANGED <<stored, turn, target, queue>>

CommitDeletion(d) ==
  /\ pc[d] = "scanning" /\ Left(d) = {}
  /\ stored' = {r \in stored : lock[r] # d}
  /\ lock' = Released(d)
  /\ Goto(d, "answered")
  /\ UNCHANGED <<turn, target, queue>>

\* delete_run of one of the runs: one statement and its commit.
Erase(r) ==
  /\ r \in Rows \cap stored /\ lock[r] = NoOne
  /\ stored' = stored \ {r}
  /\ UNCHANGED <<lock, pc, turn, target, queue>>
-----------------------------------------------------------------------------
(* Postgres finds a circle of transactions that wait for each other.       *)

Wants(a) == CASE pc[a] = "refreshing" /\ turn[a] > 1 -> {Before(a)}
              [] pc[a] = "waiting"                   -> {target[a]}
              [] OTHER                               -> {}
WaitsFor(a, b) == a # b /\ \E r \in Wants(a) : lock[r] = b

Abort(a) ==
  /\ \E b \in Actors : WaitsFor(a, b) /\ WaitsFor(b, a)
  /\ Fail(a)

-----------------------------------------------------------------------------
Submit(s) == Load(s) \/ Insert(s) \/ Refresh(s) \/ Enqueue(s) \/ Answer(s)
DeleteProject(d) == Load(d) \/ Delete(d) \/ Scan(d) \/ DeleteRow(d) \/ CommitDeletion(d)

Next == \/ \E s \in Submissions : Submit(s)
        \/ \E d \in Deletions : DeleteProject(d)
        \/ \E a \in Actors : Abort(a)
        \/ \E r \in Rows : Erase(r)

Spec == Init /\ [][Next]_vars

\* Every request is worked on, and Postgres looks for deadlocks.
FairSpec == /\ Spec
            /\ \A s \in Submissions : WF_vars(Submit(s))
            /\ \A d \in Deletions : WF_vars(DeleteProject(d))
            /\ WF_vars(\E a \in Actors : Abort(a))

-----------------------------------------------------------------------------
(* Properties.                                                             *)

\* A deletion that was answered leaves no run of the project behind, nor
\* one that is inserted later, however the batches were being enqueued.
DeletionIsComplete ==
  (\E d \in Deletions : pc[d] = "answered") => stored = {}

\* A submission's job ids are committed with the locks it has taken: when it
\* is answered, each of its runs has its job or has been deleted, and it
\* holds no lock.
AnsweredIsEnqueued ==
  \A s \in Submissions : pc[s] = "answered" =>
    /\ BatchOf(s) \subseteq queue
    /\ \A r \in DOMAIN lock : lock[r] # s

\* Whoever waits for whom, every request ends.
EveryRequestEnds == \A a \in Actors : <>(pc[a] \in Ended)
=============================================================================
