------------------------------ MODULE RunRecord ------------------------------
(***************************************************************************)
(* One row of simulation_runs under everybody who writes it at once:       *)
(* rename_run, request_cancel, delete_run, the job id of submit_run        *)
(* (services/runs_service.py) and run_simulation (worker/tasks.py).        *)
(*                                                                         *)
(* Each loads the row into a session of its own, assigns to attributes of  *)
(* that copy, and commits later.  SQLAlchemy then updates the columns      *)
(* whose attribute differs from what was loaded, and no others; if none    *)
(* does it writes nothing.  expire_on_commit is off (db/session.py), so a  *)
(* copy stays as it is until it is refreshed.                              *)
(***************************************************************************)
EXTENDS Naturals

CONSTANTS
  Renamers, Cancellers, Enqueuers, Deleters,  \* requests, by what they do
  NewName,     \* NewName[s]: the name that a renamer asks for
  FirstName,   \* the name that the run was submitted with
  Workers,     \* attempts at the run's job
  Chunks,      \* the chunks of the run
  NoJob

ASSUME RunRecordAssumption ==
  /\ Chunks \in Nat
  /\ NewName \in [Renamers -> STRING]
  /\ FirstName \in STRING
  /\ \A s \in Renamers : s \notin Cancellers \cup Enqueuers
  /\ \A s \in Cancellers : s \notin Enqueuers
  /\ \A s \in Deleters : s \notin Renamers \cup Cancellers \cup Enqueuers
  /\ \A w \in Workers :
       w \notin Renamers \cup Cancellers \cup Enqueuers \cup Deleters

Requests == Renamers \cup Cancellers \cup Enqueuers \cup Deleters
Sessions == Requests \cup Workers

VARIABLES
  present, row,  \* the stored row
  pc,            \* pc[s]: where the session's handler is
  loaded,        \* loaded[s]: the row as the session last read or wrote it
  mine,          \* mine[s]: the attributes of the session's copy
  turn           \* turn[w]: the chunks that an attempt has simulated

vars == <<present, row, pc, loaded, mine, turn>>

FirstRow ==
  [name |-> FirstName, cancel_requested |-> FALSE, arq_job_id |-> NoJob,
   status |-> "queued", sim_time_now |-> 0]

WorkerColumns == {"status", "sim_time_now"}

Init ==
  /\ present = TRUE /\ row = FirstRow
  /\ pc = [s \in Sessions |-> "new"]
  /\ loaded = [s \in Sessions |-> FirstRow]
  /\ mine = [s \in Sessions |-> FirstRow]
  /\ turn = [w \in Workers |-> 0]

Goto(s, place) == pc' = [pc EXCEPT ![s] = place]

\* Mutant: every column is written, as the copy has it.
FlushWhole(s) == mine[s]

\* The row after an UPDATE of what the session has changed.
Flush(s) ==
  [c \in DOMAIN row |-> IF mine[s][c] # loaded[s][c] THEN mine[s][c] ELSE row[c]]

-----------------------------------------------------------------------------
(* Requests                                                                *)

Assign(s, r) ==
  CASE s \in Renamers   -> [r EXCEPT !.name = NewName[s]]
    [] s \in Cancellers -> [r EXCEPT !.cancel_requested = TRUE]
    [] s \in Enqueuers  -> [r EXCEPT !.arq_job_id = s]
    [] OTHER            -> r

Load(s) ==
  /\ pc[s] = "new"
  /\ IF present
       THEN /\ loaded' = [loaded EXCEPT ![s] = row]
            /\ mine' = [mine EXCEPT ![s] = Assign(s, row)]
            /\ Goto(s, "loaded")
       ELSE /\ Goto(s, "failed")  \* 404
            /\ UNCHANGED <<loaded, mine>>
  /\ UNCHANGED <<present, row, turn>>

\* A copy that is not read again: the refresh of the answer replaces it.
Forget(s) ==
  /\ loaded' = [loaded EXCEPT ![s] = FirstRow]
  /\ mine' = [mine EXCEPT ![s] = FirstRow]

\* An UPDATE that finds no row raises; a DELETE that finds none does not, and
\* without a net change there is no UPDATE.
Commit(s) ==
  /\ pc[s] = "loaded"
  /\ Forget(s)
  /\ UNCHANGED turn
  /\ \/ /\ s \in Deleters
        /\ present' = FALSE
        /\ Goto(s, "committed")
        /\ UNCHANGED row
     \/ /\ s \notin Deleters
        /\ present \/ mine[s] = loaded[s]
        /\ IF present THEN row' = Flush(s) ELSE UNCHANGED row
        /\ Goto(s, "committed")
        /\ UNCHANGED present
     \/ /\ s \notin Deleters
        /\ ~ present /\ mine[s] # loaded[s]
        /\ Goto(s, "failed")
        /\ UNCHANGED <<present, row>>

\* The answer to a deletion carries nothing; the others refresh their copy.
Reply(s) ==
  /\ pc[s] = "committed"
  /\ IF s \in Deleters \/ present
       THEN Goto(s, "answered")
       ELSE Goto(s, "failed")
  /\ UNCHANGED <<present, row, loaded, mine, turn>>

-----------------------------------------------------------------------------
(* The worker                                                              *)

Begin(w) ==
  /\ pc[w] = "new"
  /\ IF present
       THEN /\ loaded' = [loaded EXCEPT ![w] = row]
            /\ mine' = [mine EXCEPT ![w] = [row EXCEPT !.status = "running"]]
            /\ Goto(w, "commit")
       ELSE Goto(w, "over") /\ UNCHANGED <<loaded, mine>>
  /\ UNCHANGED <<present, row, turn>>

\* Any commit of run_simulation; one that finds no row ends the job.
CommitOwn(w) ==
  /\ pc[w] \in {"commit", "last"}
  /\ IF present THEN row' = Flush(w) ELSE UNCHANGED row
  /\ Goto(w, IF pc[w] = "last" \/ (~ present /\ mine[w] # loaded[w])
              THEN "over" ELSE "chunk")
  /\ loaded' = [loaded EXCEPT ![w] = mine[w]]
  /\ UNCHANGED <<present, mine, turn>>

\* What is_cancelled makes of the copy: it refreshes one attribute.
Refreshed(w) == [mine[w] EXCEPT !.cancel_requested = row.cancel_requested]

\* A verdict, which the last commit of the attempt is to write, and the time of
\* the flush before it.
Decide(w, copy, time, verdict) ==
  /\ loaded' = [loaded EXCEPT ![w] = copy]
  /\ mine' = [mine EXCEPT ![w] = [copy EXCEPT !.sim_time_now = time, !.status = verdict]]
  /\ Goto(w, "last")
  /\ UNCHANGED turn

\* The handler's verdict, without a flush.
FailWith(w, copy) == Decide(w, copy, copy.sim_time_now, "failed")

\* is_cancelled and, unless the run is cancelled, model.run, which may raise.
\* Without a row the refresh raises, and so does the handler of that.
NextChunk(w) ==
  /\ pc[w] = "chunk" /\ turn[w] < Chunks
  /\ \/ /\ present /\ ~ row.cancel_requested
        /\ loaded' = [loaded EXCEPT ![w] = Refreshed(w)]
        /\ mine' = [mine EXCEPT ![w] = [Refreshed(w) EXCEPT !.sim_time_now = turn[w] + 1]]
        /\ turn' = [turn EXCEPT ![w] = @ + 1]
        /\ Goto(w, "commit")
     \/ /\ present /\ row.cancel_requested
        /\ Decide(w, Refreshed(w), turn[w], "cancelled")
     \/ /\ present /\ ~ row.cancel_requested
        /\ FailWith(w, Refreshed(w))
     \/ /\ ~ present
        /\ Goto(w, "over")
        /\ UNCHANGED <<loaded, mine, turn>>
  /\ UNCHANGED <<present, row>>

\* The model cannot be built.
CannotBuild(w) ==
  /\ pc[w] = "chunk" /\ turn[w] = 0
  /\ FailWith(w, mine[w])
  /\ UNCHANGED <<present, row>>

\* After the last chunk; log_current_state may raise.
Finish(w) ==
  /\ pc[w] = "chunk" /\ turn[w] = Chunks
  /\ Decide(w, mine[w], turn[w], "completed") \/ FailWith(w, mine[w])
  /\ UNCHANGED <<present, row>>

Work(w) == Begin(w) \/ CommitOwn(w) \/ NextChunk(w) \/ CannotBuild(w) \/ Finish(w)

Next ==
  \/ \E s \in Requests : Load(s) \/ Commit(s) \/ Reply(s)
  \/ \E w \in Workers : Work(w)

Spec == Init /\ [][Next]_vars

-----------------------------------------------------------------------------
RowType ==
  [name : STRING, cancel_requested : BOOLEAN, arq_job_id : Enqueuers \cup {NoJob},
   status : {"queued", "running", "completed", "failed", "cancelled"}, sim_time_now : Nat]

TypeOK ==
  /\ present \in BOOLEAN
  /\ row \in RowType
  /\ loaded \in [Sessions -> RowType]
  /\ mine \in [Sessions -> RowType]
  /\ turn \in [Workers -> Nat]
  /\ pc \in [Sessions -> {"new", "loaded", "committed", "answered", "failed",
                          "commit", "chunk", "last", "over"}]
  /\ \A s \in Requests : pc[s] \notin {"commit", "chunk", "last", "over"}
  /\ \A w \in Workers : pc[w] \notin {"loaded", "committed", "answered", "failed"}

\* The inductive invariant: a copy never claims a cancellation that is not in the
\* row, no session takes one back, and each changes its own columns only.
IInv ==
  /\ TypeOK
  /\ \A s \in Sessions :
       /\ loaded[s].cancel_requested => row.cancel_requested
       /\ loaded[s].cancel_requested => mine[s].cancel_requested
       /\ mine[s].status = "cancelled" => row.cancel_requested
  /\ row.status = "cancelled" => row.cancel_requested
  /\ \A s \in Requests : pc[s] = "loaded" => mine[s] = Assign(s, loaded[s])
  /\ \A w \in Workers : /\ mine[w].name = loaded[w].name
                        /\ mine[w].cancel_requested = loaded[w].cancel_requested
                        /\ mine[w].arq_job_id = loaded[w].arq_job_id

\* A cancellation that was committed is not undone by the commit of a session
\* that loaded the row before it.
CancelStays ==
  [][row.cancel_requested => row'.cancel_requested]_vars

\* A worker ends a run as cancelled only when it was asked to, and the request
\* is there to be seen beside the verdict.
CancelledWasAsked ==
  row.status = "cancelled" => row.cancel_requested

\* A rename that changes nothing when its row is loaded takes effect then, any
\* other request when it commits.
Effective(s, place, copy, attributes) ==
  CASE place = "new"       -> "asked"
    [] place = "loaded"    -> IF s \notin Deleters /\ attributes = copy
                              THEN "done" ELSE "asked"
    [] place = "committed" -> "done"
    [] OTHER               -> place

Op == [s \in Requests |-> Effective(s, pc[s], loaded[s], mine[s])]

Registers == INSTANCE RunRegisters WITH op <- Op

\* Every request takes effect once, between its arrival and its answer, on its
\* own column; a worker changes its own two; and a deleted run stays deleted.
ImplementsRegisters == Registers!Spec
=============================================================================
