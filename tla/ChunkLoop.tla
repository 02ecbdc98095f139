------------------------------ MODULE ChunkLoop ------------------------------
(***************************************************************************)
(* How far a run goes and in which steps: `until` and `chunk_size` of a    *)
(* submission (schemas/run.py), the target that submit_run records on the  *)
(* row (services/runs_service.py) and the checkpoints of SpurRunner        *)
(* (worker/runner.py).                                                     *)
(*                                                                         *)
(* The two numbers are any integers when they pass validation; the columns *)
(* they are stored in are 32 bits wide, here -MaxInt - 1 .. MaxInt.        *)
(* RunExecution counts the turns of this loop and takes their number as    *)
(* given; what is stored on the way is its subject.                        *)
(***************************************************************************)
EXTENDS Integers

CONSTANTS
  DefaultChunkCount, DefaultRunHorizon,  \* settings
  MaxInt,        \* the largest value of an integer column
  Untils,        \* the values of `until` ...
  ChunkSizes,    \* ... and of `chunk_size` that clients send
  ProjectTours,  \* the deletion_times of the tours of a project, per project
  Omitted           \* a key that was left out, or is null

ASSUME ChunkLoopAssumption ==
  /\ DefaultChunkCount \in Nat \ {0}
  /\ DefaultRunHorizon \in Int
  /\ MaxInt \in Nat
  /\ Untils \subseteq Int
  /\ ChunkSizes \subseteq Int
  /\ Omitted \notin Int
  /\ \A T \in ProjectTours :
       /\ T \subseteq Int
       /\ T # {} => \E latest \in T : \A t \in T : t <= latest

VARIABLES
  phase,      \* "unsent", then "refused" or the status of the run
  until,      \* requested_until
  tours,      \* what spec_snapshot says of its tours
  chunkSize,  \* chunk_size
  target,     \* until_target
  now,        \* the clock of the model, which is sim_time_now after each chunk
  turns       \* how often model.run has returned

loopVars == <<phase, until, tours, chunkSize, target, now, turns>>

Fits(n) == n \in -MaxInt - 1 .. MaxInt
Lower(a, b) == IF a <= b THEN a ELSE b
Higher(a, b) == IF a <= b THEN b ELSE a

\* Mutant: the earliest deletion_time.
DeriveEarliest(T) ==
  IF T = {} THEN DefaultRunHorizon
  ELSE CHOOSE earliest \in T : \A t \in T : earliest <= t

DeriveUntil(T) ==
  IF T = {} THEN DefaultRunHorizon
  ELSE CHOOSE latest \in T : \A t \in T : t <= latest

-----------------------------------------------------------------------------
LoopInit ==
  /\ phase = "unsent"
  /\ until = Omitted /\ tours = {} /\ chunkSize = Omitted /\ target = 0
  /\ now = 0 /\ turns = 0

\* The insertion is refused when a value is too wide for its column.
AskRun(u, c, T) ==
  LET goal == IF u # Omitted THEN u ELSE DeriveUntil(T) IN
  /\ phase = "unsent"
  /\ IF Fits(goal) /\ (c # Omitted => Fits(c))
       THEN /\ phase' = "queued"
            /\ until' = u /\ tours' = T /\ chunkSize' = c /\ target' = goal
       ELSE phase' = "refused" /\ UNCHANGED <<until, tours, chunkSize, target>>
  /\ UNCHANGED <<now, turns>>

Start ==
  /\ phase = "queued"
  /\ phase' = "running"
  /\ UNCHANGED <<until, tours, chunkSize, target, now, turns>>

\* Mutants: a short run has chunks of 0; the default is the smallest chunk.
ChunkUnfloored ==
  IF chunkSize \notin {Omitted, 0} THEN chunkSize ELSE target \div DefaultChunkCount
ChunkOfOne ==
  IF chunkSize \notin {Omitted, 0} THEN chunkSize ELSE 1

\* 0 is as good as Omitted for `or`.
Chunk ==
  IF chunkSize \notin {Omitted, 0} THEN chunkSize
  ELSE Higher(1, target \div DefaultChunkCount)

\* Mutant: the last checkpoint is not cut at the target.
CheckpointUncut == now + Chunk

Checkpoint == Lower(now + Chunk, target)

Stop ==
  /\ phase = "running" /\ now < target
  /\ phase' = "cancelled"
  /\ UNCHANGED <<until, tours, chunkSize, target, now, turns>>

\* model.run raises unless it is called with a time ahead of the clock.
RunChunk ==
  /\ phase = "running" /\ now < target
  /\ IF Checkpoint > now
       THEN now' = Checkpoint /\ turns' = turns + 1 /\ UNCHANGED phase
       ELSE phase' = "failed" /\ UNCHANGED <<now, turns>>
  /\ UNCHANGED <<until, tours, chunkSize, target>>

Complete ==
  /\ phase = "running" /\ ~ (now < target)
  /\ phase' = "completed"
  /\ UNCHANGED <<until, tours, chunkSize, target, now, turns>>

LoopNext ==
  \/ \E u \in Untils \cup {Omitted}, c \in ChunkSizes \cup {Omitted}, T \in ProjectTours :
       AskRun(u, c, T)
  \/ Start \/ Stop \/ RunChunk \/ Complete

LoopSpec == LoopInit /\ [][LoopNext]_loopVars

-----------------------------------------------------------------------------
LoopTypeOK ==
  /\ phase \in {"unsent", "refused", "queued", "running",
                "completed", "cancelled", "failed"}
  /\ until \in Untils \cup {Omitted}
  /\ tours \in ProjectTours \cup {{}}
  /\ chunkSize \in ChunkSizes \cup {Omitted}
  /\ target \in Int
  /\ now \in Nat
  /\ turns \in Nat

\* The clock goes through the multiples of the chunk and ends on the target, so
\* sim_time_now / until_target is never more than all of it and no checkpoint
\* of an accepted run is too wide for its column.
OnTheGrid ==
  /\ turns > 0 => now = Lower(turns * Chunk, target)
  /\ now <= Higher(0, target)
  /\ Fits(now)

\* A run without a chunk_size of its own takes fewer than twice the turns that
\* the settings ask for, however long or short it is ("about 100 chunks").
DefaultTurns == chunkSize \in {Omitted, 0} => turns < 2 * DefaultChunkCount

\* model.run refuses to run only for a negative chunk_size, at the first turn:
\* no run fails on the way, and none without a chunk_size.
FailsAtOnceOrNever ==
  phase = "failed" => /\ chunkSize # Omitted
                      /\ chunkSize < 0
                      /\ turns = 0

\* A run that completes has reached what was asked for, and, when nothing was,
\* the end of every tour of the project.
CompletedInFull ==
  phase = "completed" =>
    /\ until # Omitted => until <= now
    /\ until = Omitted => \A t \in tours : t <= now

\* The inductive invariant: the grid, and that a last turn was necessary.
LoopIInv ==
  /\ LoopTypeOK
  /\ OnTheGrid
  /\ phase \in {"unsent", "refused", "queued"} => turns = 0
  /\ turns = 0 => now = 0
  /\ turns > 0 => 1 <= Chunk /\ (turns - 1) * Chunk < target
  /\ FailsAtOnceOrNever
  /\ phase \notin {"unsent", "refused"} =>
       /\ Fits(target)
       /\ target = IF until # Omitted THEN until ELSE DeriveUntil(tours)
       /\ tours \in ProjectTours
  /\ phase = "completed" => target <= now
=============================================================================
