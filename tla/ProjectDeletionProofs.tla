----------------------- MODULE ProjectDeletionProofs -----------------------
(***************************************************************************)
(* What holds of a deletion and the submissions it meets for any number of *)
(* either and any size of a batch.  A deletion is complete because it goes *)
(* on until nothing is left that it has not locked, and nothing can be     *)
(* inserted once the project's row is gone; a submission is complete       *)
(* because its turn counts the jobs it has put into the queue.             *)
(***************************************************************************)
EXTENDS ProjectDeletion, TLAPS

Labels == {"loading", "inserting", "refreshing", "enqueueing", "answering",
           "deleting", "scanning", "waiting", "answered", "failed"}

TypeOK ==
  /\ stored \subseteq Rows \cup {Project}
  /\ lock \in [Rows \cup {Project} -> Actors \cup {NoOne}]
  /\ pc \in [Actors -> Labels]
  /\ turn \in [Submissions -> 1..(Batch + 1)]
  /\ target \in [Deletions -> Rows \cup {Project}]

\* No run outlives the project, and an answered deletion has taken it.
Deleted ==
  /\ Project \notin stored => stored = {}
  /\ \A d \in Deletions : pc[d] = "answered" => Project \notin stored

\* The runs before the turn have their jobs; the turn is past the batch when
\* the loop is; only the loop holds locks.
Turns ==
  \A s \in Submissions :
    /\ \A i \in 1..(turn[s] - 1) : <<s, i>> \in queue
    /\ pc[s] = "enqueueing" => turn[s] <= Batch
    /\ pc[s] \in {"answering", "answered"} =>
         turn[s] = Batch + 1 /\ \A r \in Rows \cup {Project} : lock[r] # s

IInv == TypeOK /\ Deleted /\ Turns

LEMMA Initially == Init => IInv
<1>. SUFFICES ASSUME Init PROVE IInv
  OBVIOUS
<1>. USE BatchAssumption, ActorsAssumption, ProjectAssumption
<1>1. TypeOK
  <2>1. turn \in [Submissions -> 1..(Batch + 1)]
    BY DEF Init
  <2>2. pc \in [Actors -> Labels]
    BY DEF Init, Labels
  <2>. QED  BY <2>1, <2>2 DEF Init, TypeOK
<1>2. Deleted
  BY DEF Init, Deleted, Actors
<1>3. Turns
  <2>1. ASSUME NEW s \in Submissions PROVE turn[s] = 1 /\ pc[s] = "loading"
    BY DEF Init, Actors
  <2>2. \A s \in Submissions : \A i \in 1..(turn[s] - 1) : <<s, i>> \in queue
    <3>1. 1 - 1 = 0 /\ \A i \in 1..0 : FALSE
      OBVIOUS
    <3>. QED  BY <2>1, <3>1
  <2>. QED  BY <2>1, <2>2 DEF Turns
<1>. QED  BY <1>1, <1>2, <1>3 DEF IInv

\* What a request leaves behind when it fails.
LEMMA FailKeeps ==
  ASSUME IInv, NEW a \in Actors, pc[a] # "answered", Fail(a)
  PROVE  IInv'
<1>. USE BatchAssumption, ActorsAssumption DEF Fail, Goto, Released
<1>1. TypeOK'
  BY DEF IInv, TypeOK, Labels
<1>2. Deleted'
  BY DEF IInv, TypeOK, Deleted, Actors
<1>3. Turns'
  BY DEF IInv, TypeOK, Turns, Actors
<1>. QED  BY <1>1, <1>2, <1>3 DEF IInv

LEMMA LoadKeeps ==
  ASSUME IInv, NEW a \in Actors, Load(a)
  PROVE  IInv'
<1>1. CASE Fail(a)
  BY <1>1, FailKeeps DEF Load
<1>2. CASE ~ Fail(a)
  <2>. USE BatchAssumption, ActorsAssumption DEF Goto
  <2>1. /\ pc' = [pc EXCEPT ![a] = IF a \in Submissions THEN "inserting" ELSE "deleting"]
        /\ UNCHANGED <<stored, lock, turn, target, queue>>
    BY <1>2 DEF Load
  <2>2. TypeOK'
    BY <2>1 DEF IInv, TypeOK, Labels
  <2>3. Deleted'
    BY <2>1 DEF IInv, TypeOK, Deleted, Actors
  <2>4. Turns'
    BY <2>1 DEF IInv, TypeOK, Turns, Actors
  <2>. QED  BY <2>2, <2>3, <2>4 DEF IInv
<1>. QED  BY <1>1, <1>2

\* The steps of a submission after it has loaded the project.
LEMMA SubmitKeeps ==
  ASSUME IInv, NEW s \in Submissions,
         Insert(s) \/ Refresh(s) \/ Enqueue(s) \/ Answer(s)
  PROVE  IInv'
<1>. USE BatchAssumption, ActorsAssumption DEF Goto
<1>1. CASE Fail(s)
  <2>1. s \in Actors /\ pc[s] # "answered"
    BY DEF Insert, Refresh, Enqueue, Answer, Actors
  <2>. QED  BY <1>1, <2>1, FailKeeps
<1>2. CASE Insert(s) /\ ~ Fail(s)
  <2>. USE <1>2 DEF Insert
  <2>1. TypeOK'
    BY DEF IInv, TypeOK, Labels, BatchOf, Rows
  <2>2. Deleted'
    BY DEF IInv, TypeOK, Deleted, Actors
  <2>3. Turns'
    BY DEF IInv, TypeOK, Turns, Actors
  <2>. QED  BY <2>1, <2>2, <2>3 DEF IInv
<1>3. CASE Refresh(s) /\ ~ Fail(s)
  <2>1. CASE turn[s] <= Batch
    <3>1. Before(s) \in Rows \/ ~ (turn[s] > 1)
      BY <2>1 DEF Before, Rows, IInv, TypeOK
    <3>2. TypeOK'
      BY <1>3, <2>1, <3>1 DEF Refresh, Take, IInv, TypeOK, Labels, Actors
    <3>3. Deleted'
      BY <1>3, <2>1 DEF Refresh, IInv, TypeOK, Deleted, Actors
    <3>4. Turns'
      BY <1>3, <2>1, <3>1 DEF Refresh, Take, IInv, TypeOK, Turns, Actors
    <3>. QED  BY <3>2, <3>3, <3>4 DEF IInv
  <2>2. CASE ~ (turn[s] <= Batch)
    <3>1. turn[s] = Batch + 1
      BY <2>2 DEF IInv, TypeOK
    <3>2. TypeOK'
      BY <1>3, <2>2 DEF Refresh, Released, IInv, TypeOK, Labels
    <3>3. Deleted'
      BY <1>3, <2>2 DEF Refresh, IInv, TypeOK, Deleted, Actors
    <3>4. Turns'
      BY <1>3, <2>2, <3>1 DEF Refresh, Released, IInv, TypeOK, Turns, Actors
    <3>. QED  BY <3>2, <3>3, <3>4 DEF IInv
  <2>. QED  BY <2>1, <2>2
<1>4. CASE Enqueue(s) /\ ~ Fail(s)
  <2>. USE <1>4 DEF Enqueue
  <2>1. TypeOK'
    BY DEF IInv, TypeOK, Turns, Labels
  <2>2. Deleted'
    BY DEF IInv, TypeOK, Deleted, Actors
  <2>3. Turns'
    BY DEF IInv, TypeOK, Turns, Actors
  <2>. QED  BY <2>1, <2>2, <2>3 DEF IInv
<1>5. CASE Answer(s)
  <2>. USE <1>5 DEF Answer
  <2>1. TypeOK'
    BY DEF IInv, TypeOK, Labels
  <2>2. Deleted'
    BY DEF IInv, TypeOK, Deleted, Actors
  <2>3. Turns'
    BY DEF IInv, TypeOK, Turns, Actors
  <2>. QED  BY <2>1, <2>2, <2>3 DEF IInv
<1>. QED  BY <1>1, <1>2, <1>3, <1>4, <1>5

\* The steps of a deletion after it has loaded the project.
LEMMA DeletionKeeps ==
  ASSUME IInv, NEW d \in Deletions,
         Delete(d) \/ Scan(d) \/ DeleteRow(d) \/ CommitDeletion(d)
  PROVE  IInv'
<1>. USE BatchAssumption, ActorsAssumption, ProjectAssumption DEF Goto
<1>1. CASE Delete(d) \/ DeleteRow(d)
  <2>1. TypeOK'
    BY <1>1 DEF Delete, DeleteRow, Free, Take, IInv, TypeOK, Labels, Actors
  <2>2. Deleted'
    BY <1>1 DEF Delete, DeleteRow, IInv, TypeOK, Deleted, Actors
  <2>3. Turns'
    BY <1>1 DEF Delete, DeleteRow, Free, Take, IInv, TypeOK, Turns, Actors
  <2>. QED  BY <2>1, <2>2, <2>3 DEF IInv
<1>2. CASE Scan(d)
  <2>1. TypeOK'
    BY <1>2 DEF Scan, Left, IInv, TypeOK, Labels
  <2>2. Deleted'
    BY <1>2 DEF Scan, IInv, TypeOK, Deleted, Actors
  <2>3. Turns'
    BY <1>2 DEF Scan, IInv, TypeOK, Turns, Actors
  <2>. QED  BY <2>1, <2>2, <2>3 DEF IInv
<1>3. CASE CommitDeletion(d)
  <2>1. stored' = {}
    BY <1>3 DEF CommitDeletion, Left
  <2>2. TypeOK'
    BY <1>3, <2>1 DEF CommitDeletion, Released, IInv, TypeOK, Labels
  <2>3. Deleted'
    BY <2>1 DEF Deleted
  <2>4. Turns'
    BY <1>3 DEF CommitDeletion, Released, IInv, TypeOK, Turns, Actors
  <2>. QED  BY <2>2, <2>3, <2>4 DEF IInv
<1>. QED  BY <1>1, <1>2, <1>3

LEMMA StepKeepsIInv == IInv /\ [Next]_vars => IInv'
<1>. SUFFICES ASSUME IInv, [Next]_vars PROVE IInv'
  OBVIOUS
<1>1. ASSUME NEW s \in Submissions, Submit(s) PROVE IInv'
  <2>1. s \in Actors
    BY DEF Actors
  <2>. QED  BY <1>1, <2>1, LoadKeeps, SubmitKeeps DEF Submit
<1>2. ASSUME NEW d \in Deletions, DeleteProject(d) PROVE IInv'
  <2>1. d \in Actors
    BY DEF Actors
  <2>. QED  BY <1>2, <2>1, LoadKeeps, DeletionKeeps DEF DeleteProject
<1>3. ASSUME NEW a \in Actors, Abort(a) PROVE IInv'
  <2>1. pc[a] # "answered" /\ Fail(a)
    BY <1>3 DEF Abort, WaitsFor, Wants
  <2>. QED  BY <2>1, FailKeeps
<1>4. ASSUME NEW r \in Rows, Erase(r) PROVE IInv'
  <2>1. TypeOK' /\ Turns'
    BY <1>4 DEF Erase, IInv, TypeOK, Turns
  <2>2. Deleted'
    BY <1>4, ProjectAssumption DEF Erase, IInv, Deleted, Rows
  <2>. QED  BY <2>1, <2>2 DEF IInv
<1>5. CASE UNCHANGED vars
  BY <1>5 DEF vars, IInv, TypeOK, Deleted, Turns
<1>. QED  BY <1>1, <1>2, <1>3, <1>4, <1>5 DEF Next

\* The invariant holds however requests are interleaved and aborted.
THEOREM Invariance == Spec => []IInv
BY Initially, StepKeepsIInv, PTL DEF Spec

\* An answered deletion leaves no run of the project, then or later.
THEOREM DeletionsAreComplete == Spec => []DeletionIsComplete
<1>1. IInv => DeletionIsComplete
  BY DEF IInv, Deleted, DeletionIsComplete
<1>. QED  BY <1>1, Invariance, PTL

\* An answered submission has put every run into the queue, and holds no
\* row of it any more.
THEOREM AnsweredSubmissionsAreEnqueued == Spec => []AnsweredIsEnqueued
<1>1. IInv => AnsweredIsEnqueued
  BY BatchAssumption DEF IInv, TypeOK, Turns, AnsweredIsEnqueued, BatchOf
<1>. QED  BY <1>1, Invariance, PTL

-----------------------------------------------------------------------------
(* Nobody waits for ever.                                                  *)

\* The deletion that has the project's row is the only one that is at the rows;
\* a row of a batch is locked by its own submission or by that deletion, and a
\* submission holds locks within its loop only.
LockInv ==
  /\ lock[Project] \in Deletions \cup {NoOne}
  /\ \A d \in Deletions : pc[d] \in {"scanning", "waiting"} <=> lock[Project] = d
  /\ \A r \in Rows : lock[r] \in {NoOne, r[1], lock[Project]}
  /\ \A r \in Rows : lock[r] = r[1] => pc[r[1]] \in {"refreshing", "enqueueing"}
  /\ \A s \in Submissions : pc[s] \notin {"deleting", "scanning", "waiting"}
  /\ \A d \in Deletions : pc[d] \notin {"inserting", "refreshing", "enqueueing", "answering"}

\* The next step of the request needs a lock that another one holds.  It is the
\* only thing that can keep a request from its next step.
Blocked(a) ==
  \/ pc[a] \in {"inserting", "deleting"} /\ ~ Free(Project, a)
  \/ pc[a] = "refreshing" /\ turn[a] > 1 /\ ~ Free(Before(a), a)
  \/ pc[a] = "waiting" /\ ~ Free(target[a], a)

\* As long as a request has not ended, one of them goes on or can be aborted.
SomebodyGoesOn ==
  (\E a \in Actors : pc[a] \notin Ended) =>
    \/ \E a \in Actors : pc[a] \notin Ended /\ ~ Blocked(a)
    \/ \E s \in Submissions, d \in Deletions : WaitsFor(s, d) /\ WaitsFor(d, s)

LEMMA FailReleases ==
  ASSUME IInv, LockInv, NEW a \in Actors, Fail(a)
  PROVE  LockInv'
<1>. USE ActorsAssumption
<1>1. /\ lock \in [Rows \cup {Project} -> Actors \cup {NoOne}]
      /\ \A r \in Rows : r[1] \in Submissions
  BY DEF IInv, TypeOK, Rows
<1>2. /\ \A r \in Rows \cup {Project} : lock'[r] = IF lock[r] = a THEN NoOne ELSE lock[r]
      /\ \A b \in Actors : pc'[b] = IF b = a THEN "failed" ELSE pc[b]
  BY <1>1 DEF IInv, TypeOK, Fail, Goto, Released
<1>. QED  BY <1>1, <1>2 DEF LockInv, Actors

LEMMA StepKeepsLockInv == IInv /\ LockInv /\ [Next]_vars => LockInv'
<1>. SUFFICES ASSUME IInv, LockInv, [Next]_vars PROVE LockInv'
  OBVIOUS
<1>. USE BatchAssumption, ActorsAssumption, ProjectAssumption
<1>1. /\ lock \in [Rows \cup {Project} -> Actors \cup {NoOne}]
      /\ pc \in [Actors -> Labels]
      /\ turn \in [Submissions -> 1..(Batch + 1)]
      /\ target \in [Deletions -> Rows \cup {Project}]
      /\ Project \notin Rows
      /\ \A r \in Rows : r[1] \in Submissions
  BY DEF IInv, TypeOK, Rows
<1>2. ASSUME NEW a \in Actors, Load(a) \/ Abort(a) PROVE LockInv'
  <2>1. CASE Fail(a)
    BY <2>1, FailReleases
  <2>2. CASE ~ Fail(a)
    <3>1. /\ lock' = lock /\ pc[a] = "loading"
          /\ \A b \in Actors : b # a => pc'[b] = pc[b]
          /\ pc'[a] = IF a \in Submissions THEN "inserting" ELSE "deleting"
      BY <1>1, <1>2, <2>2 DEF Load, Abort, Goto
    <3>. QED  BY <1>1, <3>1 DEF LockInv, Actors
  <2>. QED  BY <2>1, <2>2
<1>3. ASSUME NEW s \in Submissions, Insert(s) \/ Refresh(s) \/ Enqueue(s) \/ Answer(s)
      PROVE  LockInv'
  <2>0. s \in Actors /\ s \notin Deletions
    BY DEF Actors
  <2>1. CASE Fail(s)
    BY <2>0, <2>1, FailReleases
  <2>2. CASE ~ Fail(s) /\ (Insert(s) \/ Enqueue(s))
    <3>1. /\ lock' = lock /\ pc'[s] = "refreshing"
          /\ \A b \in Actors : b # s => pc'[b] = pc[b]
      BY <1>1, <2>0, <2>2 DEF Insert, Enqueue, Goto
    <3>2. pc[s] \in {"inserting", "enqueueing"}
      BY <2>2 DEF Insert, Enqueue
    <3>. QED  BY <1>1, <2>0, <3>1, <3>2 DEF LockInv, Actors
  <2>3. CASE Answer(s)
    <3>1. /\ lock' = lock /\ pc[s] = "answering" /\ pc'[s] \in {"answered", "failed"}
          /\ \A b \in Actors : b # s => pc'[b] = pc[b]
      BY <1>1, <2>0, <2>3 DEF Answer, Goto
    <3>. QED  BY <1>1, <2>0, <3>1 DEF LockInv, Actors
  <2>4. CASE ~ Fail(s) /\ Refresh(s) /\ turn[s] <= Batch
    <3>1. /\ pc'[s] = "enqueueing" /\ pc[s] = "refreshing"
          /\ \A b \in Actors : b # s => pc'[b] = pc[b]
      BY <1>1, <2>0, <2>4 DEF Refresh, Goto
    <3>2. lock' = lock \/ (lock' = [lock EXCEPT ![Before(s)] = s] /\ turn[s] > 1)
      BY <2>4 DEF Refresh, Take
    <3>3. turn[s] > 1 => Before(s) \in Rows /\ Before(s)[1] = s
      BY <1>1, <2>4 DEF Before, Rows
    <3>4. lock'[Project] = lock[Project]
      BY <1>1, <3>2, <3>3
    <3>5. \A r \in Rows : lock'[r] = lock[r] \/ (lock'[r] = s /\ r[1] = s)
      BY <1>1, <3>2, <3>3
    <3>. QED  BY <1>1, <2>0, <3>1, <3>4, <3>5 DEF LockInv, Actors
  <2>5. CASE ~ Fail(s) /\ Refresh(s) /\ ~ (turn[s] <= Batch)
    <3>1. /\ pc'[s] = "answering" /\ pc[s] = "refreshing"
          /\ \A b \in Actors : b # s => pc'[b] = pc[b]
          /\ \A r \in Rows \cup {Project} : lock'[r] = IF lock[r] = s THEN NoOne ELSE lock[r]
      BY <1>1, <2>0, <2>5 DEF Refresh, Goto, Released
    <3>. QED  BY <1>1, <2>0, <3>1 DEF LockInv, Actors
  <2>. QED  BY <1>3, <2>1, <2>2, <2>3, <2>4, <2>5
<1>4. ASSUME NEW d \in Deletions, Delete(d) \/ Scan(d) \/ DeleteRow(d) \/ CommitDeletion(d)
      PROVE  LockInv'
  <2>0. d \in Actors /\ d \notin Submissions /\ d # NoOne
    BY DEF Actors
  <2>1. \A b \in Actors : b # d => pc'[b] = pc[b]
    BY <1>1, <1>4 DEF Delete, Scan, DeleteRow, CommitDeletion, Goto
  <2>2. CASE Delete(d)
    <3>1. pc[d] = "deleting" /\ lock[Project] = NoOne
      BY <1>1, <2>2 DEF Delete, Free, LockInv
    <3>2. \/ lock' = lock /\ pc'[d] = "answered"
          \/ lock' = [lock EXCEPT ![Project] = d] /\ pc'[d] = "scanning"
      BY <1>1, <2>0, <2>2 DEF Delete, Goto, Take
    <3>3. CASE lock' = lock /\ pc'[d] = "answered"
      BY <1>1, <2>0, <2>1, <3>1, <3>3 DEF LockInv, Actors
    <3>4. CASE lock' = [lock EXCEPT ![Project] = d] /\ pc'[d] = "scanning"
      <4>1. lock'[Project] = d /\ \A r \in Rows : lock'[r] = lock[r]
        BY <1>1, <3>4
      <4>. QED  BY <1>1, <2>0, <2>1, <3>1, <3>4, <4>1 DEF LockInv, Actors
    <3>. QED  BY <3>2, <3>3, <3>4
  <2>3. CASE Scan(d) \/ DeleteRow(d)
    <3>1. lock[Project] = d /\ pc'[d] \in {"scanning", "waiting"}
      BY <1>1, <2>0, <2>3 DEF Scan, DeleteRow, Goto, LockInv
    <3>2. lock' = lock \/ lock' = [lock EXCEPT ![target[d]] = d]
      BY <2>3 DEF Scan, DeleteRow, Take
    <3>3. lock'[Project] = d
      BY <1>1, <3>1, <3>2
    <3>4. \A r \in Rows : lock'[r] \in {lock[r], d}
      BY <1>1, <3>2
    <3>. QED  BY <1>1, <2>0, <2>1, <3>1, <3>3, <3>4 DEF LockInv, Actors
  <2>4. CASE CommitDeletion(d)
    <3>1. /\ lock[Project] = d /\ pc'[d] = "answered"
          /\ \A r \in Rows \cup {Project} : lock'[r] = IF lock[r] = d THEN NoOne ELSE lock[r]
      BY <1>1, <2>0, <2>4 DEF CommitDeletion, Goto, Released, LockInv
    <3>. QED  BY <1>1, <2>0, <2>1, <3>1 DEF LockInv, Actors
  <2>. QED  BY <1>4, <2>2, <2>3, <2>4
<1>5. ASSUME NEW r \in Rows, Erase(r) PROVE LockInv'
  BY <1>5 DEF Erase, LockInv
<1>6. CASE UNCHANGED vars
  BY <1>6 DEF vars, LockInv
<1>. QED
  BY <1>2, <1>3, <1>4, <1>5, <1>6 DEF Next, Submit, DeleteProject, Actors

\* However many requests wait for each other's rows, one of them can go on, or a
\* submission and the deletion hold what the other wants and Postgres aborts one
\* of the two: the pairs that Abort looks for are the only deadlocks there are.
THEOREM NobodyWaitsForEver == Spec => []SomebodyGoesOn
<1>. USE BatchAssumption, ActorsAssumption, ProjectAssumption
<1>1. Init => LockInv
  BY DEF Init, LockInv, Actors, Rows
<1>2. IInv /\ LockInv => SomebodyGoesOn
  <2>. SUFFICES ASSUME IInv, LockInv,
                       \A b \in Actors : pc[b] \notin Ended => Blocked(b),
                       NEW a \in Actors, pc[a] \notin Ended
                PROVE  \E s \in Submissions, d \in Deletions : WaitsFor(s, d) /\ WaitsFor(d, s)
    BY DEF SomebodyGoesOn
  <2>0. /\ lock \in [Rows \cup {Project} -> Actors \cup {NoOne}]
        /\ turn \in [Submissions -> 1..(Batch + 1)]
        /\ target \in [Deletions -> Rows \cup {Project}]
        /\ \A r \in Rows : r[1] \in Submissions
    BY DEF IInv, TypeOK, Rows
  <2>1. \A s \in Submissions : pc[s] = "refreshing" /\ turn[s] > 1 =>
          Before(s) \in Rows /\ Before(s)[1] = s
    BY <2>0 DEF Before, Rows
  <2>2. lock[Project] # NoOne
    <3>1. SUFFICES ASSUME lock[Project] = NoOne PROVE FALSE
      OBVIOUS
    <3>2. ~ Free(Project, a) => FALSE
      BY <3>1 DEF Free
    <3>3. pc[a] # "waiting"
      BY <3>1 DEF LockInv, Actors
    <3>4. pc[a] = "refreshing" => a \in Submissions
      BY DEF LockInv, Actors
    <3>5. pc[a] = "refreshing" /\ turn[a] > 1 => Free(Before(a), a)
      BY <2>1, <3>1, <3>4 DEF Free, LockInv
    <3>. QED  BY <3>2, <3>3, <3>5 DEF Blocked
  <2>3. PICK d \in Deletions : lock[Project] = d
    BY <2>2 DEF LockInv
  <2>4. d \in Actors /\ pc[d] \in {"scanning", "waiting"}
    BY <2>3 DEF LockInv, Actors
  <2>5. pc[d] = "waiting" /\ ~ Free(target[d], d)
    BY <2>4 DEF Blocked, Ended
  <2>6. target[d] \in Rows /\ lock[target[d]] = target[d][1]
    BY <2>0, <2>3, <2>5 DEF Free, LockInv
  <2>. DEFINE s == target[d][1]
  <2>7. s \in Submissions /\ s \in Actors /\ s # d /\ pc[s] \in {"refreshing", "enqueueing"}
    BY <2>0, <2>6 DEF LockInv, Actors
  <2>8. pc[s] = "refreshing" /\ turn[s] > 1 /\ ~ Free(Before(s), s)
    BY <2>7 DEF Blocked, Ended
  <2>9. lock[Before(s)] = d
    BY <2>1, <2>3, <2>7, <2>8 DEF Free, LockInv
  <2>10. WaitsFor(d, s)
    BY <2>5, <2>6, <2>7 DEF WaitsFor, Wants
  <2>11. WaitsFor(s, d)
    BY <2>7, <2>8, <2>9 DEF WaitsFor, Wants
  <2>. QED  BY <2>7, <2>10, <2>11
<1>. QED  BY <1>1, <1>2, Initially, StepKeepsIInv, StepKeepsLockInv, PTL DEF Spec
=============================================================================
