----------------------------- MODULE RunRegisters -----------------------------
(***************************************************************************)
(* What the columns of a run promise the requests and the worker that      *)
(* write them at the same time: each request takes effect at once, at one  *)
(* instant between its arrival and its answer, and touches nothing but     *)
(* its own column; a deleted run stays deleted.  RunRecord is shown to     *)
(* implement this.                                                         *)
(***************************************************************************)
CONSTANTS
  Requests, Deleters,
  Assign(_, _),   \* Assign(s, r): the row r with what request s asks for
  WorkerColumns   \* the columns only a worker writes

VARIABLES
  present, row,  \* the stored run
  op             \* op[s]: "asked", "done", then "answered" or "failed"

vars == <<present, row, op>>

Init ==
  /\ present = TRUE
  /\ op = [s \in Requests |-> "asked"]

Effect(s) ==
  /\ op[s] = "asked" /\ present
  /\ IF s \in Deleters THEN present' = FALSE /\ UNCHANGED row
                       ELSE row' = Assign(s, row) /\ UNCHANGED present
  /\ op' = [op EXCEPT ![s] = "done"]

\* Of two deletions the later finds the work done.
DeleteAgain(s) ==
  /\ s \in Deleters /\ op[s] = "asked" /\ ~ present
  /\ op' = [op EXCEPT ![s] = "done"]
  /\ UNCHANGED <<present, row>>

Answer(s) ==
  /\ op[s] = "done"
  /\ s \in Deleters \/ present
  /\ op' = [op EXCEPT ![s] = "answered"]
  /\ UNCHANGED <<present, row>>

Fail(s) ==
  /\ op[s] \in {"asked", "done"} /\ ~ present
  /\ op' = [op EXCEPT ![s] = "failed"]
  /\ UNCHANGED <<present, row>>

WorkerWrites ==
  /\ present
  /\ \A c \in DOMAIN row \ WorkerColumns : row'[c] = row[c]
  /\ UNCHANGED <<present, op>>

Next ==
  \/ \E s \in Requests : Effect(s) \/ DeleteAgain(s) \/ Answer(s) \/ Fail(s)
  \/ WorkerWrites

Spec == Init /\ [][Next]_vars
=============================================================================
