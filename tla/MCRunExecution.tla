--------------------------- MODULE MCRunExecution ---------------------------
(* Small instances of RunExecution for TLC. *)
EXTENDS RunExecution, TLC

CONSTANTS r1, r2, s1

\* One submission of two seeds, and one of one run.
OneBatch == s1 :> <<r1, r2>>

OneRun == s1 :> <<r1>>

\* A stream with events from the start, and one that emits only at its end.  The
\* last entry is what log_current_state() leaves.
Early == (0 :> 1 @@ 1 :> 2 @@ 2 :> 3 @@ 3 :> 4)
Late == (0 :> 0 @@ 1 :> 0 @@ 2 :> 2)

\* r1 ends after two turns, r2 after one.
LapsEnding == [r \in Runs |-> IF r = r1 THEN 2 ELSE 1]
EmittedEnding == [r \in Runs |-> IF r = r1 THEN Early ELSE Late]
FateEnding == [r \in Runs |-> "ends"]

\* r1 ends after one turn, r2 raises in its second.
LapsMixed == r1 :> 1 @@ r2 :> 1
EmittedMixed == r1 :> (0 :> 1 @@ 1 :> 1 @@ 2 :> 2) @@ r2 :> (0 :> 0 @@ 1 :> 1 @@ 2 :> 1)
FateMixed == r1 :> "ends" @@ r2 :> "raises"

\* r1 ends after two turns, no model can be built for r2.
LapsUnbuilt == r1 :> 2 @@ r2 :> 0
EmittedUnbuilt == r1 :> Early @@ r2 :> (0 :> 0 @@ 1 :> 0)
FateUnbuilt == r1 :> "ends" @@ r2 :> "unbuildable"

NoFaults == [k \in FaultKinds |-> 0]
AllFaults == [k \in FaultKinds |-> 1]
Only(kinds) == [k \in FaultKinds |-> IF k \in kinds THEN 1 ELSE 0]
Restarts == Only({"crash", "shutdown", "submitFault"})
Stops == Only({"timeout", "shutdown"})
NoRedelivery == Only({"timeout", "redisLoss", "submitFault"})
=============================================================================
