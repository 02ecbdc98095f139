---------------------------- MODULE RunLifecycle ----------------------------
(***************************************************************************)
(* What the service promises of a run to a client that only sees its row   *)
(* and its events: README.md and the RunStatus of schemas/run.py.  A run   *)
(* moves forward through its statuses, its events pile up while it runs    *)
(* and are all there once it is completed, and nothing changes afterwards. *)
(***************************************************************************)
EXTENDS Naturals

CONSTANTS
  Runs,
  Length,    \* Length[r]: how many events the whole run emits
  Endable    \* the runs whose simulation does not raise

VARIABLES
  state,     \* state[r]: "unborn", the status of the run, or "deleted"
  stored,    \* stored[r]: how many of its events can be read
  asked      \* asked[r]: its cancellation was requested

vars == <<state, stored, asked>>

Init ==
  /\ state = [r \in Runs |-> "unborn"]
  /\ stored = [r \in Runs |-> 0]
  /\ asked = [r \in Runs |-> FALSE]

\* The runs of one submission appear together.
Submit(batch) ==
  /\ \A r \in batch : state[r] = "unborn"
  /\ state' = [r \in Runs |-> IF r \in batch THEN "queued" ELSE state[r]]
  /\ UNCHANGED <<stored, asked>>

Begin(r) ==
  /\ state[r] = "queued"
  /\ state' = [state EXCEPT ![r] = "running"]
  /\ UNCHANGED <<stored, asked>>

Progress(r) ==
  /\ state[r] = "running"
  /\ \E n \in stored[r]..Length[r] : stored' = [stored EXCEPT ![r] = n]
  /\ UNCHANGED <<state, asked>>

Settle(r, verdict) ==
  /\ state[r] = "running"
  /\ verdict = "completed" => r \in Endable /\ stored[r] = Length[r]
  /\ verdict = "failed" => r \notin Endable
  /\ verdict = "cancelled" => asked[r]
  /\ state' = [state EXCEPT ![r] = verdict]
  /\ UNCHANGED <<stored, asked>>

Ask(r) ==
  /\ state[r] \notin {"unborn", "deleted"}
  /\ asked' = [asked EXCEPT ![r] = TRUE]
  /\ UNCHANGED <<state, stored>>

Delete(r) ==
  /\ state[r] \notin {"unborn", "deleted"}
  /\ state' = [state EXCEPT ![r] = "deleted"]
  /\ stored' = [stored EXCEPT ![r] = 0]
  /\ asked' = [asked EXCEPT ![r] = FALSE]

Next ==
  \/ \E batch \in SUBSET Runs : Submit(batch)
  \/ \E r \in Runs :
       \/ Begin(r) \/ Progress(r) \/ Ask(r) \/ Delete(r)
       \/ \E verdict \in {"completed", "failed", "cancelled"} : Settle(r, verdict)

Spec == Init /\ [][Next]_vars

=============================================================================
