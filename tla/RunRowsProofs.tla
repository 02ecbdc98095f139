---------------------------- MODULE RunRowsProofs ----------------------------
(***************************************************************************)
(* How the rows of runs are filled and read: the clock of ChunkLoop for    *)
(* any settings, column width and submissions, the seeds of SeedBatch, and *)
(* the summaries of RunResults for any number of readers.                  *)
(***************************************************************************)
EXTENDS ChunkLoop, SeedBatch, RunResults, FiniteSetTheorems, TLAPS

(* The chunk loop.                                                         *)

\* A product grows by its second factor.
LEMMA NextMultiple ==
  ASSUME NEW k \in Int, NEW c \in Int
  PROVE  (k + 1) * c = k * c + c
BY SMT

\* Multiples of a positive number are ordered as their factors are.
LEMMA MultiplesOrdered ==
  ASSUME NEW j \in Int, NEW k \in Int, NEW c \in Int, 1 <= c, j * c < k * c
  PROVE  j < k
<1>1. ASSUME k <= j PROVE FALSE
  <2>1. (j - k) * c = j * c - k * c
    BY SMT
  <2>2. (j - k) * c >= 0
    BY <1>1, SMT
  <2> QED
    BY <2>1, <2>2, SMT
<1> QED
  BY <1>1, SMT

\* The latest deletion_time is one of them, and none is later.
LEMMA LatestTour ==
  ASSUME NEW T \in ProjectTours
  PROVE  /\ DeriveUntil(T) \in Int
         /\ \A t \in T : t <= DeriveUntil(T)
<1>1. CASE T = {}
  BY <1>1, ChunkLoopAssumption DEF DeriveUntil
<1>2. CASE T # {}
  <2>1. PICK latest \in T : \A t \in T : t <= latest
    BY <1>2, ChunkLoopAssumption
  <2>2. DeriveUntil(T) \in T /\ \A t \in T : t <= DeriveUntil(T)
    BY <1>2, <2>1, Zenon DEF DeriveUntil
  <2> QED
    BY <2>2, ChunkLoopAssumption
<1> QED
  BY <1>1, <1>2

\* A default chunk is at least 1, and the settings' number of them leaves less
\* than one unit per chunk.
LEMMA DefaultChunk ==
  ASSUME chunkSize \in {Omitted, 0}, target \in Int
  PROVE  /\ Chunk \in Int /\ 1 <= Chunk
         /\ target < DefaultChunkCount * Chunk + DefaultChunkCount
<1> DEFINE d == target \div DefaultChunkCount
<1>1. /\ d \in Int
      /\ target < DefaultChunkCount * d + DefaultChunkCount
  BY ChunkLoopAssumption, SMT
<1>2. Chunk = Higher(1, d)
  BY DEF Chunk
<1>3. Chunk \in Int /\ 1 <= Chunk /\ d <= Chunk
  BY <1>1, <1>2, SMT DEF Higher
<1> HIDE DEF d
<1>4. DefaultChunkCount * (Chunk - d) = DefaultChunkCount * Chunk - DefaultChunkCount * d
  BY <1>1, <1>3, ChunkLoopAssumption, SMT
<1>5. DefaultChunkCount * (Chunk - d) >= 0
  BY <1>1, <1>3, ChunkLoopAssumption, SMT
<1> QED
  BY <1>1, <1>3, <1>4, <1>5, ChunkLoopAssumption, SMT

LEMMA ChunkType ==
  ASSUME LoopTypeOK
  PROVE  Chunk \in Int
<1>1. CASE chunkSize \in {Omitted, 0}
  BY <1>1, DefaultChunk DEF LoopTypeOK
<1>2. CASE chunkSize \notin {Omitted, 0}
  BY <1>2, ChunkLoopAssumption DEF LoopTypeOK, Chunk
<1> QED
  BY <1>1, <1>2

LEMMA InitLoopIInv == LoopInit => LoopIInv
<1> SUFFICES ASSUME LoopInit PROVE LoopIInv
  OBVIOUS
<1>1. LoopTypeOK
  BY DEF LoopInit, LoopTypeOK
<1>2. OnTheGrid
  BY ChunkLoopAssumption, SMT DEF LoopInit, OnTheGrid, Fits, Higher
<1> QED
  BY <1>1, <1>2 DEF LoopInit, LoopIInv, FailsAtOnceOrNever

\* What a turn does when it raises, and when it does not.
LEMMA TurnKeepsIInv ==
  ASSUME LoopIInv, RunChunk
  PROVE  LoopIInv'
<1> USE DEF LoopIInv
<1>1. /\ LoopTypeOK /\ now \in Nat /\ turns \in Nat /\ target \in Int /\ Chunk \in Int
      /\ phase = "running" /\ now < target /\ Fits(target) /\ Fits(now)
      /\ turns = 0 => now = 0
      /\ turns > 0 => 1 <= Chunk /\ (turns - 1) * Chunk < target
      /\ turns > 0 => now = Lower(turns * Chunk, target)
  BY ChunkType DEF LoopTypeOK, RunChunk, OnTheGrid
<1>2. /\ target' = target /\ chunkSize' = chunkSize /\ until' = until /\ tours' = tours
      /\ Chunk' = Chunk
  BY DEF RunChunk, Chunk
<1>3. turns * Chunk = now
  <2>1. CASE turns = 0
    BY <1>1, <2>1, SMT
  <2>2. CASE turns > 0
    <3>1. turns * Chunk \in Int
      BY <1>1, SMT
    <3> QED
      BY <1>1, <2>2, <3>1, SMT DEF Lower
  <2> QED
    BY <1>1, <2>1, <2>2, SMT
<1>4. CASE Checkpoint > now
  <2>1. /\ now' = Checkpoint /\ turns' = turns + 1 /\ phase' = phase
        /\ Checkpoint = Lower(now + Chunk, target)
    BY <1>4 DEF RunChunk, Checkpoint
  <2>2. 1 <= Chunk /\ now' \in Nat /\ now' <= target /\ turns' \in Nat /\ turns' > 0
    BY <1>1, <1>4, <2>1, SMT DEF Lower
  <2>3. (turns + 1) * Chunk = now + Chunk
    BY <1>1, <1>3, NextMultiple
  <2>4. LoopTypeOK'
    BY <1>1, <1>2, <2>1, <2>2 DEF LoopTypeOK
  <2>5. OnTheGrid'
    <3>1. now' = Lower(turns' * Chunk', target')
      BY <1>2, <2>1, <2>3
    <3>2. now' <= Higher(0, target')
      BY <1>1, <1>2, <2>2, SMT DEF Higher
    <3>3. Fits(now)'
      BY <1>1, <2>2, ChunkLoopAssumption, SMT DEF Fits
    <3> QED
      BY <3>1, <3>2, <3>3 DEF OnTheGrid
  <2>6. (turns' - 1) * Chunk' < target'
    <3>1. turns' - 1 = turns
      BY <1>1, <2>1, SMT
    <3> QED
      BY <1>1, <1>2, <1>3, <3>1
  <2> QED
    BY <1>1, <1>2, <2>1, <2>2, <2>4, <2>5, <2>6 DEF FailsAtOnceOrNever
<1>5. CASE ~ (Checkpoint > now)
  <2>1. phase' = "failed" /\ now' = now /\ turns' = turns
    BY <1>5 DEF RunChunk
  <2>2. Chunk <= 0 /\ turns = 0
    BY <1>1, <1>5, SMT DEF Checkpoint, Lower
  <2>3. chunkSize \notin {Omitted, 0}
    BY <1>1, <2>2, DefaultChunk, SMT
  <2>4. chunkSize # Omitted /\ chunkSize < 0
    BY <1>1, <2>2, <2>3, ChunkLoopAssumption, SMT DEF Chunk, LoopTypeOK
  <2>5. LoopTypeOK' /\ OnTheGrid'
    BY <1>1, <1>2, <2>1, <2>2 DEF LoopTypeOK, OnTheGrid, Fits
  <2> QED
    BY <1>1, <1>2, <2>1, <2>2, <2>4, <2>5, SMT DEF FailsAtOnceOrNever
<1> QED
  BY <1>4, <1>5

LEMMA NextLoopIInv == LoopIInv /\ [LoopNext]_loopVars => LoopIInv'
<1> SUFFICES ASSUME LoopIInv, [LoopNext]_loopVars PROVE LoopIInv'
  OBVIOUS
<1>1. ASSUME NEW u \in Untils \cup {Omitted}, NEW c \in ChunkSizes \cup {Omitted},
             NEW T \in ProjectTours, AskRun(u, c, T)
      PROVE  LoopIInv'
  <2> DEFINE goal == IF u # Omitted THEN u ELSE DeriveUntil(T)
  <2>1. goal \in Int
    BY LatestTour, ChunkLoopAssumption
  <2>2. /\ phase = "unsent" /\ now' = now /\ turns' = turns /\ turns = 0 /\ now = 0
        /\ LoopTypeOK
    BY <1>1, SMT DEF AskRun, LoopIInv
  <2>3. Fits(0) /\ Fits(now)'
    BY <2>2, ChunkLoopAssumption, SMT DEF Fits
  <2>4. CASE Fits(goal) /\ (c # Omitted => Fits(c))
    <3>1. /\ phase' = "queued" /\ until' = u /\ tours' = T
          /\ chunkSize' = c /\ target' = goal
      BY <1>1, <2>4 DEF AskRun
    <3> HIDE DEF goal
    <3>2. LoopTypeOK'
      BY <2>1, <2>2, <3>1 DEF LoopTypeOK
    <3>3. OnTheGrid'
      BY <2>1, <2>2, <2>3, <3>1, SMT DEF OnTheGrid, Higher
    <3>4. Fits(target') /\ target' = IF u # Omitted THEN u ELSE DeriveUntil(T)
      BY <2>4, <3>1 DEF goal
    <3> QED
      BY <2>2, <3>1, <3>2, <3>3, <3>4 DEF LoopIInv, FailsAtOnceOrNever, Fits
  <2>5. CASE ~ (Fits(goal) /\ (c # Omitted => Fits(c)))
    <3>1. /\ phase' = "refused"
          /\ UNCHANGED <<until, tours, chunkSize, target>>
      BY <1>1, <2>5 DEF AskRun
    <3>2. LoopTypeOK' /\ OnTheGrid'
      BY <2>2, <2>3, <3>1, SMT DEF LoopIInv, LoopTypeOK, OnTheGrid
    <3> QED
      BY <2>2, <3>1, <3>2 DEF LoopIInv, FailsAtOnceOrNever
  <2> QED
    BY <2>4, <2>5
<1>2. CASE Start
  BY <1>2 DEF Start, LoopIInv, LoopTypeOK, OnTheGrid, Fits, Chunk, FailsAtOnceOrNever
<1>3. CASE Stop
  BY <1>3 DEF Stop, LoopIInv, LoopTypeOK, OnTheGrid, Fits, Chunk, FailsAtOnceOrNever
<1>4. CASE RunChunk
  BY <1>4, TurnKeepsIInv
<1>5. CASE Complete
  <2>1. target <= now
    BY <1>5, SMT DEF Complete, LoopIInv, LoopTypeOK
  <2> QED
    BY <1>5, <2>1 DEF Complete, LoopIInv, LoopTypeOK, OnTheGrid, Fits, Chunk, FailsAtOnceOrNever
<1>6. CASE UNCHANGED loopVars
  BY <1>6 DEF loopVars, LoopIInv, LoopTypeOK, OnTheGrid, Fits, Chunk, FailsAtOnceOrNever
<1> QED
  BY <1>1, <1>2, <1>3, <1>4, <1>5, <1>6 DEF LoopNext

\* Every reachable state satisfies the inductive invariant.
THEOREM LoopInvariance == LoopSpec => []LoopIInv
<1>1. LoopInit => LoopIInv
  BY InitLoopIInv
<1>2. LoopIInv /\ [LoopNext]_loopVars => LoopIInv'
  BY NextLoopIInv
<1> QED
  BY <1>1, <1>2, PTL DEF LoopSpec

\* The clock of SpurRunner.run only takes multiples of its chunk, cut at the
\* target, and never a value too wide for sim_time_now.
THEOREM ClockOnTheGrid == LoopSpec => []OnTheGrid
<1>1. LoopIInv => OnTheGrid
  BY DEF LoopIInv
<1> QED
  BY <1>1, LoopInvariance, PTL

\* Without a chunk_size, fewer than twice default_chunk_count calls of model.run
\* reach any target.
THEOREM DefaultIsFewTurns == LoopSpec => []DefaultTurns
<1>1. LoopIInv => DefaultTurns
  <2> SUFFICES ASSUME LoopIInv, chunkSize \in {Omitted, 0} PROVE turns < 2 * DefaultChunkCount
    BY DEF DefaultTurns
  <2> DEFINE C == DefaultChunkCount
  <2>1. turns \in Nat /\ target \in Int /\ C \in Nat \ {0}
    BY ChunkLoopAssumption DEF LoopIInv, LoopTypeOK
  <2>2. Chunk \in Int /\ 1 <= Chunk /\ target < C * Chunk + C
    BY <2>1, DefaultChunk
  <2>3. CASE turns = 0
    BY <2>1, <2>3, SMT
  <2>4. CASE turns > 0
    <3>1. (turns - 1) * Chunk < target
      BY <2>4 DEF LoopIInv
    <3> HIDE DEF C
    <3>3. (C - 1) * (Chunk - 1) >= 0
      BY <2>1, <2>2, SMT
    <3>4. (C - 1) * (Chunk - 1) = C * Chunk - C - Chunk + 1
      BY <2>1, <2>2, SMT
    <3>5. (2 * C - 1) * Chunk = 2 * (C * Chunk) - Chunk
      BY <2>1, <2>2, SMT
    <3>6. C * Chunk \in Int /\ (turns - 1) * Chunk \in Int
      BY <2>1, <2>2, SMT
    <3>7. (turns - 1) * Chunk < (2 * C - 1) * Chunk
      BY <2>1, <2>2, <3>1, <3>3, <3>4, <3>5, <3>6, SMT
    <3>8. turns - 1 < 2 * C - 1
      BY <2>1, <2>2, <3>7, MultiplesOrdered, SMT
    <3> QED
      BY <2>1, <3>8, SMT DEF C
  <2> QED
    BY <2>1, <2>3, <2>4, SMT
<1> QED
  BY <1>1, LoopInvariance, PTL

\* Only a negative chunk_size makes model.run raise, and then at the first turn.
THEOREM FailuresAreImmediate == LoopSpec => []FailsAtOnceOrNever
<1>1. LoopIInv => FailsAtOnceOrNever
  BY DEF LoopIInv
<1> QED
  BY <1>1, LoopInvariance, PTL

\* A completed run has reached `until`, or the end of every tour.
THEOREM CompletionIsFull == LoopSpec => []CompletedInFull
<1>1. LoopIInv => CompletedInFull
  <2> SUFFICES ASSUME LoopIInv, phase = "completed"
               PROVE  /\ until # Omitted => until <= now
                      /\ until = Omitted => \A t \in tours : t <= now
    BY DEF CompletedInFull
  <2>1. /\ target <= now /\ now \in Nat /\ target \in Int /\ tours \in ProjectTours
        /\ target = IF until # Omitted THEN until ELSE DeriveUntil(tours)
    BY DEF LoopIInv, LoopTypeOK
  <2>2. CASE until # Omitted
    BY <2>1, <2>2
  <2>3. CASE until = Omitted
    <3>1. tours \subseteq Int /\ \A t \in tours : t <= target
      BY <2>1, <2>3, LatestTour, ChunkLoopAssumption
    <3> QED
      BY <2>1, <2>3, <3>1, SMT
  <2> QED
    BY <2>2, <2>3
<1> QED
  BY <1>1, LoopInvariance, PTL
-----------------------------------------------------------------------------
(* The seeds of a batch.                                                   *)

\* What randbelow(MAX_SEED + 2 - seeds) returns is what a client may send.
LEMMA DrawnSeedsAreValid ==
  ASSUME NEW n \in Int, 1 <= n, n <= MaxSeeds, NEW first \in Int
  PROVE  first \in Drawn(n) <=> Valid(first, n)
BY SeedBatchAssumption, SMT DEF Drawn, Valid

\* A batch that starts at a valid seed fits the column.
LEMMA ValidBatchFits ==
  ASSUME NEW s \in Submissions, NEW n \in Int, NEW first \in Int, Valid(first, n)
  PROVE  \A r \in RowsOf(s, first, n) : ~ (r.seed > MaxSeed)
BY SeedBatchAssumption, SMT DEF RowsOf, Row, Valid

LEMMA InitSeedIInv == SeedInit => SeedIInv
BY SeedBatchAssumption DEF SeedInit, SeedIInv, SeedTypeOK, DrawnIsValid, RowsExact

LEMMA SubmitKeepsIInv ==
  ASSUME SeedIInv, NEW s \in Submissions, NEW seed \in Seeds \cup {Absent}, NEW n \in Counts,
         SubmitSeeds(s, seed, n)
  PROVE  SeedIInv'
<1> USE DEF SeedIInv
<1>1. /\ outcome[s] = "unsent"
      /\ given' = [given EXCEPT ![s] = seed]
      /\ count' = [count EXCEPT ![s] = n]
      /\ n \in Int /\ seed \in Int \cup {Absent} /\ SeedTypeOK
  BY SeedBatchAssumption DEF SubmitSeeds
<1>2. /\ given' \in [Submissions -> Seeds \cup {Absent}]
      /\ count' \in [Submissions -> Counts \cup {1}]
  BY <1>1 DEF SeedTypeOK
<1>3. \A r \in rows : r.of # s
  BY <1>1 DEF RowsExact
<1>4. CASE ~ Valid(seed, n)
  <2>1. /\ outcome' = [outcome EXCEPT ![s] = "refused"]
        /\ rows' = rows /\ answer' = answer
    BY <1>4 DEF SubmitSeeds
  <2>2. SeedTypeOK'
    BY <1>1, <1>2, <2>1 DEF SeedTypeOK
  <2>3. DrawnIsValid'
    BY <1>1, <2>1 DEF SeedTypeOK, DrawnIsValid
  <2>4. RowsExact'
    BY <1>1, <1>3, <2>1 DEF SeedTypeOK, RowsExact
  <2> QED
    BY <1>1, <1>4, <2>1, <2>2, <2>3, <2>4 DEF SeedTypeOK
<1>5. CASE Valid(seed, n)
  <2>1. PICK first \in IF seed # Absent THEN {seed} ELSE Drawn(n) :
          IF \E r \in RowsOf(s, first, n) : r.seed > MaxSeed
            THEN /\ outcome' = [outcome EXCEPT ![s] = "overflow"]
                 /\ UNCHANGED <<rows, answer>>
            ELSE /\ outcome' = [outcome EXCEPT ![s] = "stored"]
                 /\ rows' = rows \cup RowsOf(s, first, n)
                 /\ answer' = [answer EXCEPT ![s] = first]
    BY <1>5 DEF SubmitSeeds
  <2>2. first \in Int /\ Valid(first, n) /\ seed \in {Absent, first}
    <3>1. CASE seed # Absent
      BY <1>1, <1>5, <2>1, <3>1
    <3>2. CASE seed = Absent
      <4>1. first \in Drawn(n) /\ first \in Int
        BY <2>1, <3>2, SeedBatchAssumption, <1>1 DEF Drawn
      <4>2. 1 <= n /\ n <= MaxSeeds
        BY <1>5 DEF Valid
      <4> QED
        BY <1>1, <3>2, <4>1, <4>2, DrawnSeedsAreValid
    <3> QED
      BY <3>1, <3>2
  <2>3. /\ outcome' = [outcome EXCEPT ![s] = "stored"]
        /\ rows' = rows \cup RowsOf(s, first, n)
        /\ answer' = [answer EXCEPT ![s] = first]
    BY <1>1, <2>1, <2>2, ValidBatchFits
  <2>4. \A r \in RowsOf(s, first, n) :
          /\ r.of = s /\ r.nth \in Nat /\ r.seed \in Int
          /\ r = Row(r.of, r.nth, r.seed, r.batch)
    BY <1>1, <2>2, SMT DEF RowsOf, Row
  <2>5. SeedTypeOK'
    BY <1>1, <1>2, <2>2, <2>3, <2>4 DEF SeedTypeOK
  <2>6. DrawnIsValid'
    <3>1. first # Absent
      BY <2>2, SeedBatchAssumption
    <3>2. \A t \in Submissions :
            /\ t # s => outcome'[t] = outcome[t] /\ answer'[t] = answer[t] /\ count'[t] = count[t]
            /\ t = s => answer'[t] = first /\ count'[t] = n
      BY <1>1, <2>3, Zenon DEF SeedTypeOK
    <3> QED
      BY <2>2, <3>1, <3>2 DEF DrawnIsValid, Valid
  <2>7. RowsExact'
    BY <1>1, <1>3, <2>3, <2>4 DEF SeedTypeOK, RowsExact
  <2> QED
    BY <1>1, <2>2, <2>3, <2>5, <2>6, <2>7 DEF SeedTypeOK
<1> QED
  BY <1>4, <1>5

LEMMA NextSeedIInv == SeedIInv /\ [SeedNext]_seedVars => SeedIInv'
<1> SUFFICES ASSUME SeedIInv, [SeedNext]_seedVars PROVE SeedIInv'
  OBVIOUS
<1>1. ASSUME NEW s \in Submissions, NEW seed \in Seeds \cup {Absent}, NEW n \in Counts,
             SubmitSeeds(s, seed, n)
      PROVE  SeedIInv'
  BY <1>1, SubmitKeepsIInv
<1>2. ASSUME NEW r \in rows, DeleteRow(r) PROVE SeedIInv'
  BY <1>2 DEF DeleteRow, SeedIInv, SeedTypeOK, DrawnIsValid, RowsExact
<1>3. CASE UNCHANGED seedVars
  BY <1>3 DEF seedVars, SeedIInv, SeedTypeOK, DrawnIsValid, RowsExact
<1> QED
  BY <1>1, <1>2, <1>3 DEF SeedNext

\* Every reachable state satisfies the inductive invariant.
THEOREM SeedInvariance == SeedSpec => []SeedIInv
<1> QED
  BY InitSeedIInv, NextSeedIInv, PTL DEF SeedSpec

\* The validator of RunCreate and the range of the draw leave nothing to the
\* column to refuse.
THEOREM SeedsFit == SeedSpec => []AcceptedFits
<1>1. SeedIInv => AcceptedFits
  <2> SUFFICES ASSUME SeedIInv, NEW s \in Submissions
               PROVE  /\ outcome[s] # "overflow"
                      /\ outcome[s] = "stored" => Valid(given[s], count[s])
    BY DEF AcceptedFits
  <2> QED
    BY DEF SeedIInv, SeedTypeOK, DrawnIsValid, Valid
<1> QED
  BY <1>1, SeedInvariance, PTL

\* A batch can be replayed from the seed of its first run.
THEOREM BatchesReplay == SeedSpec => []Replayable
<1>1. SeedIInv => Replayable
  <2> SUFFICES ASSUME SeedIInv, NEW s \in Submissions, NEW t \in Submissions,
                      outcome[s] = "stored",
                      given[t] = answer[s], count[t] = count[s]
               PROVE  /\ outcome[t] = "stored"
                      /\ answer[t] = answer[s]
                      /\ \A r \in rows : r.of = s => /\ r.seed >= answer[t]
                                                     /\ r.seed < answer[t] + count[t]
    BY DEF Replayable
  <2>1. Valid(answer[s], count[s]) /\ given[s] \in {Absent, answer[s]}
    BY DEF SeedIInv, DrawnIsValid
  <2>2. answer[s] \in Int /\ count[s] \in Int /\ answer[s] # Absent
    BY SeedBatchAssumption DEF SeedIInv, SeedTypeOK, DrawnIsValid
  <2>3. outcome[t] = "stored" /\ given[t] \in {Absent, answer[t]}
    BY <2>1, <2>2 DEF SeedIInv, SeedTypeOK
  <2>4. ASSUME NEW r \in rows, r.of = s
        PROVE  r.seed >= answer[s] /\ r.seed < answer[s] + count[s]
    <3>1. PICK i \in 0 .. count[s] - 1 :
            r = Row(s, i, answer[s] + i, IF count[s] > 1 THEN s ELSE Absent)
      BY <2>4 DEF SeedIInv, RowsExact, RowsOf
    <3>2. r.seed = answer[s] + i
      BY <3>1 DEF Row
    <3> QED
      BY <2>2, <3>2, SMT
  <2> QED
    BY <2>2, <2>3, <2>4
<1> QED
  BY <1>1, SeedInvariance, PTL

\* The runs of one batch_id are those of one submission of several seeds, each
\* with a seed of its own.
THEOREM BatchesAreExact == SeedSpec => []BatchesAreSubmissions
<1>1. SeedIInv => BatchesAreSubmissions
  <2> SUFFICES ASSUME SeedIInv, NEW q \in rows, NEW r \in rows
               PROVE  /\ q.of = r.of /\ q.seed = r.seed => q = r
                      /\ q.batch # Absent /\ r.batch = q.batch => q.of = r.of
                      /\ q.of = r.of /\ q # r => r.batch = q.batch /\ q.batch # Absent
    BY Zenon DEF BatchesAreSubmissions, InBatch
  <2>1. ASSUME NEW x \in rows
        PROVE  /\ x.of \in Submissions /\ x.nth \in 0 .. count[x.of] - 1
               /\ x.seed = answer[x.of] + x.nth
               /\ x.batch = IF count[x.of] > 1 THEN x.of ELSE Absent
               /\ x = Row(x.of, x.nth, x.seed, x.batch)
               /\ answer[x.of] \in Int /\ count[x.of] \in Int
    <3>1. x.of \in Submissions /\ outcome[x.of] = "stored"
      BY DEF SeedIInv, SeedTypeOK, RowsExact
    <3>2. PICK i \in 0 .. count[x.of] - 1 :
            x = Row(x.of, i, answer[x.of] + i, IF count[x.of] > 1 THEN x.of ELSE Absent)
      BY DEF SeedIInv, RowsExact, RowsOf
    <3>3. answer[x.of] \in Int /\ count[x.of] \in Int
      BY <3>1, SeedBatchAssumption DEF SeedIInv, SeedTypeOK, DrawnIsValid
    <3>4. /\ x.nth = i /\ x.seed = answer[x.of] + i
          /\ x.batch = IF count[x.of] > 1 THEN x.of ELSE Absent
      BY <3>2 DEF Row
    <3> QED
      BY <3>1, <3>2, <3>3, <3>4
  <2>2. q.of = r.of /\ q.seed = r.seed => q = r
    <3> SUFFICES ASSUME q.of = r.of, q.seed = r.seed PROVE q = r
      OBVIOUS
    <3>1. q.nth = r.nth
      BY <2>1, SMT
    <3>2. q.batch = r.batch
      BY <2>1
    <3> QED
      BY <2>1, <3>1, <3>2
  <2>3. q.batch # Absent /\ r.batch = q.batch => q.of = r.of
    BY <2>1
  <2>4. q.of = r.of /\ q # r => r.batch = q.batch /\ q.batch # Absent
    <3> SUFFICES ASSUME q.of = r.of, q # r PROVE r.batch = q.batch /\ q.batch # Absent
      OBVIOUS
    <3>1. q.nth # r.nth
      BY <2>1, <2>2
    <3>2. count[q.of] > 1
      BY <2>1, <3>1, SMT
    <3> QED
      BY <2>1, <3>2, SeedBatchAssumption
  <2> QED
    BY <2>2, <2>3, <2>4
<1> QED
  BY <1>1, SeedInvariance, PTL
-----------------------------------------------------------------------------
(* The summary of a run.                                                   *)

Words == {"none", "unborn", "queued", "running", "deleted"} \cup Terminal

\* A verdict that was reported is the run's for as long as there is a run, and
\* once the events are read too, they are all it has.
VerdictsHold ==
  \A q \in Readers :
    state[of[q]] # "deleted" /\ report[q].status \in Terminal =>
      /\ state[of[q]] = report[q].status
      /\ step[q] # "analyse" => report[q].count = stored[of[q]]

SummaryInv ==
  /\ state \in [Runs -> Words]
  /\ stored \in [Runs -> Int]
  /\ of \in [Readers -> Runs]
  /\ step \in [Readers -> {"idle", "page", "analyse", "ended"}]
  /\ report \in [Readers -> [status : Words, count : Int]]
  /\ VerdictsHold

LEMMA InitSummary == ResultsInit => SummaryInv
  BY DEF ResultsInit, Life!Init, SummaryInv, VerdictsHold, Words, Terminal, NoReport

\* Nothing happens to a run that has its verdict, except that it is deleted, and
\* nothing to a deleted one.
LEMMA VerdictsStay ==
  ASSUME SummaryInv, Life!Next
  PROVE /\ state' \in [Runs -> Words] /\ stored' \in [Runs -> Int]
        /\ \A r \in Runs :
             state[r] \in Terminal \cup {"deleted"} =>
               state'[r] = "deleted" \/ (state'[r] = state[r] /\ stored'[r] = stored[r])
  <1> DEFINE Kept(r) == state'[r] = state[r] /\ stored'[r] = stored[r]
             Typed == state' \in [Runs -> Words] /\ stored' \in [Runs -> Int]
  <1>0. state \in [Runs -> Words] /\ stored \in [Runs -> Int]
    BY DEF SummaryInv
  <1>1. ASSUME NEW batch \in SUBSET Runs, Life!Submit(batch)
        PROVE Typed /\ \A r \in Runs : state[r] \in Terminal \cup {"deleted"} => Kept(r)
    BY <1>0, <1>1 DEF Life!Submit, Words, Terminal
  <1>2. ASSUME NEW p \in Runs, Life!Begin(p) \/ Life!Progress(p) \/ Life!Ask(p)
        PROVE Typed /\ \A r \in Runs : state[r] \in Terminal \cup {"deleted"} => Kept(r)
    BY <1>0, <1>2 DEF Life!Begin, Life!Progress, Life!Ask, Words, Terminal
  <1>3. ASSUME NEW p \in Runs, NEW new \in Terminal, Life!Settle(p, new)
        PROVE Typed /\ \A r \in Runs : state[r] \in Terminal \cup {"deleted"} => Kept(r)
    BY <1>0, <1>3 DEF Life!Settle, Words, Terminal
  <1>4. ASSUME NEW p \in Runs, Life!Delete(p)
        PROVE Typed /\ \A r \in Runs : IF r = p THEN state'[r] = "deleted" ELSE Kept(r)
    BY <1>0, <1>4 DEF Life!Delete, Words
  <1> QED
    BY <1>1, <1>2, <1>3, <1>4 DEF Life!Next, Terminal

LEMMA SummaryStep == SummaryInv /\ [ResultsNext]_resultsVars => SummaryInv'
  <1> SUFFICES ASSUME SummaryInv, [ResultsNext]_resultsVars PROVE SummaryInv'
    OBVIOUS
  <1>1. CASE UNCHANGED resultsVars
    BY <1>1 DEF resultsVars, lifeVars, SummaryInv, VerdictsHold
  <1>2. CASE Live
    <2>1. UNCHANGED <<step, of, report>> /\ Life!Next
      BY <1>2 DEF Live
    <2>2. VerdictsHold'
      <3> SUFFICES ASSUME NEW q \in Readers, state'[of[q]] # "deleted",
                          report[q].status \in Terminal
                   PROVE /\ state'[of[q]] = report[q].status
                         /\ step[q] # "analyse" => report[q].count = stored'[of[q]]
        BY <2>1 DEF VerdictsHold
      <3>1. of[q] \in Runs
        BY DEF SummaryInv
      <3>2. state[of[q]] # "deleted"
        BY <2>1, <3>1, VerdictsStay DEF Terminal
      <3>3. state[of[q]] = report[q].status
            /\ (step[q] # "analyse" => report[q].count = stored[of[q]])
        BY <3>2 DEF SummaryInv, VerdictsHold
      <3> QED
        BY <2>1, <3>1, <3>3, VerdictsStay DEF Terminal
    <2>3. state' \in [Runs -> Words] /\ stored' \in [Runs -> Int]
      BY <2>1, VerdictsStay
    <2> QED
      BY <2>1, <2>2, <2>3 DEF SummaryInv
  <1>3. ASSUME NEW q \in Readers,
               \/ Poll(q) \/ FindRun(q) \/ ReadPage(q) \/ Follow(q) \/ NotFound(q)
        PROVE SummaryInv'
    <2>1. /\ UNCHANGED <<state, stored, of, report>>
          /\ step' \in [Readers -> {"idle", "page", "analyse", "ended"}]
          /\ \A p \in Readers : step'[p] # "analyse" => step[p] # "analyse"
      BY <1>3 DEF Poll, FindRun, ReadPage, Follow, NotFound, lifeVars, SummaryInv
    <2> QED
      BY <2>1 DEF SummaryInv, VerdictsHold
  <1>4. ASSUME NEW q \in Readers, ReadStatus(q) PROVE SummaryInv'
    <2>1. /\ UNCHANGED <<state, stored, of>> /\ step' = [step EXCEPT ![q] = "analyse"]
          /\ report' = [report EXCEPT ![q].status = state[of[q]]]
      BY <1>4 DEF ReadStatus, lifeVars
    <2>2. report' \in [Readers -> [status : Words, count : Int]]
          /\ step' \in [Readers -> {"idle", "page", "analyse", "ended"}]
      BY <2>1 DEF SummaryInv
    <2>3. \A p \in Readers : \/ p # q /\ step'[p] = step[p] /\ report'[p] = report[p]
                             \/ step'[p] = "analyse" /\ report'[p].status = state[of[p]]
      BY <2>1 DEF SummaryInv
    <2> QED
      BY <2>1, <2>2, <2>3 DEF SummaryInv, VerdictsHold
  <1>5. ASSUME NEW q \in Readers, Analyse(q) PROVE SummaryInv'
    <2>1. /\ UNCHANGED <<state, stored, of>> /\ step' = [step EXCEPT ![q] = "idle"]
          /\ report' = [report EXCEPT ![q].count = stored[of[q]]]
      BY <1>5 DEF Analyse, lifeVars
    <2>2. report' \in [Readers -> [status : Words, count : Int]]
          /\ step' \in [Readers -> {"idle", "page", "analyse", "ended"}]
      BY <2>1 DEF SummaryInv
    <2>3. \A p \in Readers : \/ p # q /\ step'[p] = step[p] /\ report'[p] = report[p]
                             \/ /\ report'[p].status = report[p].status
                                /\ report'[p].count = stored[of[p]]
      BY <2>1 DEF SummaryInv
    <2> QED
      BY <2>1, <2>2, <2>3 DEF SummaryInv, VerdictsHold
  <1> QED
    BY <1>1, <1>2, <1>3, <1>4, <1>5 DEF ResultsNext, Read

\* A summary that gives a verdict covers every event the run has, now and later.
THEOREM SummariesAreComplete == ResultsSpec => []VerdictsAreSummarised
  <1>1. SummaryInv => VerdictsAreSummarised
    BY DEF SummaryInv, VerdictsHold, VerdictsAreSummarised
  <1> QED
    BY <1>1, InitSummary, SummaryStep, PTL DEF ResultsSpec

-----------------------------------------------------------------------------
(* The pages of the events of a run. *)

\* A set of numbers has a least one.
LEMMA NatMin ==
  ASSUME NEW T \in SUBSET Nat, T # {}
  PROVE  \E n \in T : \A m \in T : n <= m
  <1> DEFINE R == {ss \in Nat \X Nat : ss[1] < ss[2]}
  <1>1. IsWellFoundedOn(R, Nat)
    BY NatLessThanWellFounded DEF OpToRel
  <1> HIDE DEF R
  <1>2. PICK n \in T : \A m \in T : <<m, n>> \notin R
    BY <1>1, WFMin
  <1>3. ASSUME NEW m \in T PROVE n <= m
    <2>1. <<m, n>> \notin R
      BY <1>2
    <2>2. m \in Nat /\ n \in Nat
      OBVIOUS
    <2>3. ~ (m < n)
      BY <2>1, <2>2 DEF R
    <2> QED
      BY <2>2, <2>3
  <1> QED
    BY <1>3

LEMMA UptoFinite ==
  ASSUME NEW q \in Readers, NEW n \in Nat
  PROVE  IsFiniteSet(Upto(q, n)) /\ Cardinality(Upto(q, n)) \in Nat
  <1>1. IsFiniteSet(1..n)
    BY FS_Interval
  <1>2. Upto(q, n) \in SUBSET (1..n)
    BY DEF Upto
  <1> QED
    BY <1>1, <1>2, FS_Subset, FS_CardinalityType

\* At a wanted event one more has passed than at any place before it.
LEMMA RanksGrow ==
  ASSUME NEW q \in Readers, NEW m \in Nat, NEW n \in Nat, m <= n
  PROVE  /\ Upto(q, m) \subseteq Upto(q, n)
         /\ Cardinality(Upto(q, m)) <= Cardinality(Upto(q, n))
         /\ m < n /\ n \in Wanted[q] => Cardinality(Upto(q, m)) < Cardinality(Upto(q, n))
  <1>1. Upto(q, m) \in SUBSET Upto(q, n)
    BY DEF Upto
  <1>2. /\ Cardinality(Upto(q, m)) <= Cardinality(Upto(q, n))
        /\ Cardinality(Upto(q, n)) = Cardinality(Upto(q, m)) => Upto(q, n) = Upto(q, m)
    BY <1>1, UptoFinite, FS_Subset
  <1>3. ASSUME m < n, n \in Wanted[q] PROVE Upto(q, n) # Upto(q, m)
    BY <1>3 DEF Upto
  <1> QED
    BY <1>1, <1>2, <1>3, UptoFinite

LEMMA RanksAreUnique ==
  ASSUME NEW q \in Readers, NEW n \in Nat, NEW d \in Upto(q, n), NEW e \in Upto(q, n),
         Cardinality(Upto(q, d)) = Cardinality(Upto(q, e))
  PROVE  d = e
  <1>1. d \in Nat /\ e \in Nat /\ d \in Wanted[q] /\ e \in Wanted[q]
    BY DEF Upto
  <1>2. Cardinality(Upto(q, d)) \in Nat /\ Cardinality(Upto(q, e)) \in Nat
    BY <1>1, UptoFinite
  <1> QED
    BY <1>1, <1>2, RanksGrow

\* Every number up to their count is the rank of an event.
LEMMA RanksExist ==
  ASSUME NEW q \in Readers, NEW n \in Nat, NEW i \in 1..Cardinality(Upto(q, n))
  PROVE  \E e \in Upto(q, n) : Cardinality(Upto(q, e)) = i
  <1> DEFINE Reached == { m \in Nat : i <= Cardinality(Upto(q, m)) }
  <1>1. n \in Reached /\ Reached \in SUBSET Nat
    BY UptoFinite
  <1>2. PICK e \in Reached : \A m \in Reached : e <= m
    <2> HIDE DEF Reached
    <2> QED
      BY <1>1, NatMin
  <1>3. e \in Nat /\ e <= n /\ i \in Nat /\ i >= 1 /\ i <= Cardinality(Upto(q, e))
    BY <1>1, <1>2, UptoFinite
  <1>4. e # 0
    <2>1. Upto(q, 0) = {}
      BY DEF Upto
    <2> QED
      BY <1>3, <2>1, FS_EmptySet
  <1>5. e - 1 \in Nat /\ ~ (i <= Cardinality(Upto(q, e - 1)))
    BY <1>2, <1>3, <1>4
  <1>6. IsFiniteSet(Upto(q, e - 1)) /\ Cardinality(Upto(q, e - 1)) \in Nat
        /\ Cardinality(Upto(q, e)) \in Nat
    BY <1>3, <1>5, UptoFinite
  <1>7. e \in Wanted[q]
    <2>1. e \notin Wanted[q] => Upto(q, e) = Upto(q, e - 1)
      BY <1>3, <1>4 DEF Upto
    <2> QED
      BY <1>3, <1>5, <2>1
  <1>8. Upto(q, e) = Upto(q, e - 1) \cup {e} /\ e \notin Upto(q, e - 1)
    BY <1>3, <1>4, <1>7 DEF Upto
  <1>9. Cardinality(Upto(q, e)) = Cardinality(Upto(q, e - 1)) + 1
    BY <1>6, <1>8, FS_AddElement
  <1>10. e \in Upto(q, n)
    BY <1>3, <1>4, <1>7 DEF Upto
  <1> QED
    BY <1>3, <1>5, <1>6, <1>9, <1>10

\* What the filtered stream is, place by place.
LEMMA MatchingIs ==
  ASSUME NEW q \in Readers, NEW n \in Nat
  PROVE  /\ Matching(q, n) \in Seq(Nat)
         /\ Len(Matching(q, n)) = Cardinality(Upto(q, n))
         /\ \A i \in 1..Cardinality(Upto(q, n)) :
              /\ Matching(q, n)[i] \in Upto(q, n)
              /\ Cardinality(Upto(q, Matching(q, n)[i])) = i
  <1> DEFINE k == Cardinality(Upto(q, n))
             Event(i) == CHOOSE e \in Upto(q, n) : Cardinality(Upto(q, e)) = i
  <1>1. k \in Nat
    BY UptoFinite
  <1>2. \A i \in 1..k : Event(i) \in Upto(q, n) /\ Cardinality(Upto(q, Event(i))) = i
    BY RanksExist
  <1>3. \A e \in Upto(q, n) : e \in Nat
    BY DEF Upto
  <1>4. Matching(q, n) = [i \in 1..k |-> Event(i)]
    BY DEF Matching
  <1> HIDE DEF k, Event
  <1>5. Matching(q, n) \in [1..k -> Nat]
    BY <1>2, <1>3, <1>4
  <1>6. Matching(q, n) \in Seq(Nat) /\ Len(Matching(q, n)) = k
    BY <1>1, <1>4, <1>5
  <1>7. \A i \in 1..k : Matching(q, n)[i] = Event(i)
    BY <1>4
  <1> QED
    BY <1>2, <1>6, <1>7 DEF k

\* A page goes on where the one before it ended, and a short one reaches the last
\* of the events that are stored.
LEMMA PageIs ==
  ASSUME NEW q \in Readers, got[q] \in Seq(Nat), stored[of[q]] \in Nat
  PROVE  LET k == Len(got[q])
             c == Cardinality(Upto(q, stored[of[q]]))
         IN  /\ Page(q) \in Seq(Nat)
             /\ k + Len(Page(q)) <= c \/ Len(Page(q)) = 0
             /\ \A i \in 1..Len(Page(q)) : Page(q)[i] = Matching(q, stored[of[q]])[k + i]
             /\ Len(Page(q)) < PageSize[q] => c <= k + Len(Page(q))
  <1> DEFINE k == Len(got[q])
             m == Matching(q, stored[of[q]])
             c == Cardinality(Upto(q, stored[of[q]]))
             j == IF k + PageSize[q] < c THEN k + PageSize[q] ELSE c
  <1>1. /\ k \in Nat /\ c \in Nat /\ m \in Seq(Nat) /\ Len(m) = c
    <2>1. k \in Nat
      OBVIOUS
    <2>2. c \in Nat
      BY UptoFinite
    <2>3. m \in Seq(Nat) /\ Len(m) = c
      BY MatchingIs
    <2> QED
      BY <2>1, <2>2, <2>3
  <1>2. Page(q) = SubSeq(m, k + 1, j)
    BY <1>1 DEF Page
  <1> HIDE DEF k, m, c
  <1>3. PageSize[q] \in Nat /\ PageSize[q] > 0
    BY ReadersAssumption
  <1> DEFINE p == SubSeq(m, k + 1, j)
  <1>4. /\ p \in Seq(Nat)
        /\ k + Len(p) <= c \/ Len(p) = 0
        /\ \A i \in 1..Len(p) : p[i] = m[k + i]
        /\ Len(p) < PageSize[q] => c <= k + Len(p)
    <2>1. CASE k < c
      <3>1. /\ j \in Nat /\ k + 1 <= j /\ j <= c
            /\ j = c \/ j = k + PageSize[q]
        BY <1>1, <1>3, <2>1
      <3> HIDE DEF j
      <3>2. /\ p \in Seq(Nat) /\ Len(p) = j - k
            /\ \A i \in 1..(j - k) : p[i] = m[k + i]
        BY <1>1, <3>1
      <3> HIDE DEF p
      <3> QED
        BY <1>1, <1>3, <2>1, <3>1, <3>2
    <2>2. CASE c <= k
      <3>1. j = c
        BY <1>1, <1>3, <2>2
      <3> HIDE DEF j
      <3>2. p = << >>
        BY <1>1, <2>2, <3>1
      <3> HIDE DEF p
      <3> QED
        BY <1>1, <2>2, <3>2
    <2> QED
      BY <1>1, <2>1, <2>2
  <1> QED
    BY <1>2, <1>4 DEF k, m, c

\* A completed run has all of its events.
StreamsOK ==
  /\ stored \in [Runs -> Nat]
  /\ \A r \in Runs :
       /\ stored[r] <= Length[r]
       /\ state[r] = "completed" => stored[r] = Length[r]

\* How many events of its run pass the filters of q, once all are stored.
Total(q) == Cardinality(Upto(q, Length[of[q]]))

\* The i-th event that q got is the i-th of those.
GotInOrder ==
  /\ got \in [Readers -> Seq(Nat)]
  /\ \A q \in Readers :
       /\ Len(got[q]) <= Total(q)
       /\ \A i \in 1..Len(got[q]) :
            /\ got[q][i] \in Upto(q, Length[of[q]])
            /\ Cardinality(Upto(q, got[q][i])) = i

\* A client that saw the run completed and came to a short page has them all.
GotAll ==
  \A q \in Readers :
    polled[q] = "completed" /\ state[of[q]] # "deleted" =>
      /\ state[of[q]] = "completed"
      /\ step[q] = "ended" => Total(q) <= Len(got[q])

PagesInv == SummaryInv /\ polled \in [Readers -> Words] /\ StreamsOK /\ GotInOrder /\ GotAll

LEMMA TotalType == ASSUME SummaryInv, NEW q \in Readers PROVE Total(q) \in Nat
  <1>1. Length[of[q]] \in Nat
    BY ReadersAssumption DEF SummaryInv
  <1> QED
    BY <1>1, UptoFinite DEF Total

LEMMA InitPages == ResultsInit => PagesInv
  <1> SUFFICES ASSUME ResultsInit PROVE PagesInv
    OBVIOUS
  <1>1. SummaryInv
    BY InitSummary
  <1>2. polled \in [Readers -> Words] /\ StreamsOK /\ GotAll
    BY <1>1, ReadersAssumption DEF ResultsInit, Life!Init, StreamsOK, GotAll, Words, SummaryInv
  <1>3. GotInOrder
    <2>1. got \in [Readers -> Seq(Nat)] /\ \A q \in Readers : Len(got[q]) = 0
      BY DEF ResultsInit
    <2> QED
      BY <1>1, <2>1, TotalType DEF GotInOrder
  <1> QED
    BY <1>1, <1>2, <1>3 DEF PagesInv

LEMMA StreamsStep ==
  ASSUME SummaryInv, StreamsOK, Life!Next
  PROVE  StreamsOK'
  <1> USE ReadersAssumption DEF StreamsOK
  <1>0. state \in [Runs -> Words]
    BY DEF SummaryInv
  <1>1. ASSUME NEW batch \in SUBSET Runs, Life!Submit(batch) PROVE StreamsOK'
    BY <1>0, <1>1 DEF Life!Submit
  <1>2. ASSUME NEW r \in Runs, Life!Begin(r) \/ Life!Ask(r) PROVE StreamsOK'
    BY <1>0, <1>2 DEF Life!Begin, Life!Ask
  <1>3. ASSUME NEW r \in Runs, Life!Progress(r) PROVE StreamsOK'
    BY <1>0, <1>3 DEF Life!Progress
  <1>4. ASSUME NEW r \in Runs, Life!Delete(r) PROVE StreamsOK'
    BY <1>0, <1>4 DEF Life!Delete
  <1>5. ASSUME NEW r \in Runs, NEW new \in Terminal, Life!Settle(r, new) PROVE StreamsOK'
    BY <1>0, <1>5 DEF Life!Settle
  <1> QED
    BY <1>1, <1>2, <1>3, <1>4, <1>5 DEF Life!Next, Terminal

LEMMA ReadPageKeepsPages ==
  ASSUME PagesInv, NEW q \in Readers, ReadPage(q)
  PROVE  GotInOrder' /\ GotAll'
  <1> DEFINE r == of[q]
             g == got[q]
             p == Page(q)
             n == stored[r]
             k == Len(g)
  <1>0. SummaryInv /\ polled \in [Readers -> Words] /\ StreamsOK /\ GotInOrder /\ GotAll
    BY DEF PagesInv
  <1>1. /\ r \in Runs /\ n \in Nat /\ Length[r] \in Nat /\ n <= Length[r]
        /\ g \in Seq(Nat) /\ k \in Nat /\ PageSize[q] \in Nat
    BY <1>0, ReadersAssumption DEF SummaryInv, StreamsOK, GotInOrder
  <1>2. /\ step[q] = "page" /\ got' = [got EXCEPT ![q] = g \o p]
        /\ step' = [step EXCEPT ![q] = IF Len(p) < PageSize[q] THEN "ended" ELSE "idle"]
        /\ UNCHANGED <<state, stored, of, polled>>
    BY DEF ReadPage, lifeVars
  <1>3. /\ p \in Seq(Nat)
        /\ k + Len(p) <= Cardinality(Upto(q, n)) \/ Len(p) = 0
        /\ \A i \in 1..Len(p) : p[i] = Matching(q, n)[k + i]
        /\ Len(p) < PageSize[q] => Cardinality(Upto(q, n)) <= k + Len(p)
    BY <1>1, PageIs
  <1>4. /\ Cardinality(Upto(q, n)) \in Nat /\ Total(q) \in Nat
        /\ Cardinality(Upto(q, n)) <= Total(q) /\ Upto(q, n) \subseteq Upto(q, Length[r])
    BY <1>1, UptoFinite, RanksGrow DEF Total
  <1>5. \A i \in 1..Cardinality(Upto(q, n)) :
          /\ Matching(q, n)[i] \in Upto(q, n)
          /\ Cardinality(Upto(q, Matching(q, n)[i])) = i
    BY <1>1, MatchingIs
  <1>6. /\ k <= Total(q)
        /\ \A i \in 1..k : g[i] \in Upto(q, Length[r]) /\ Cardinality(Upto(q, g[i])) = i
    BY <1>0 DEF GotInOrder
  <1> DEFINE h == g \o p
  <1> HIDE DEF g, p, n, r, k
  <1>7. /\ h \in Seq(Nat) /\ Len(h) = k + Len(p) /\ Len(p) \in Nat
        /\ \A i \in 1..Len(h) : h[i] = IF i <= k THEN g[i] ELSE p[i - k]
    BY <1>1, <1>3 DEF k
  <1> HIDE DEF h
  <1>8. Len(h) <= Total(q)
    BY <1>1, <1>3, <1>4, <1>6, <1>7
  <1>9. ASSUME NEW i \in 1..Len(h)
        PROVE  h[i] \in Upto(q, Length[r]) /\ Cardinality(Upto(q, h[i])) = i
    <2>1. CASE i <= k
      <3>1. i \in 1..k /\ h[i] = g[i]
        BY <1>1, <1>7, <2>1
      <3> QED
        BY <1>6, <3>1
    <2>2. CASE ~ (i <= k)
      <3>1. i - k \in 1..Len(p) /\ h[i] = p[i - k] /\ Len(p) # 0
        BY <1>1, <1>7, <2>2
      <3>2. k + (i - k) = i /\ i <= k + Len(p) /\ i \in Nat /\ 1 <= i
        BY <1>1, <1>7
      <3>3. p[i - k] = Matching(q, n)[i]
        BY <1>3, <3>1, <3>2
      <3>4. i \in 1..Cardinality(Upto(q, n))
        BY <1>1, <1>3, <1>4, <1>7, <3>1, <3>2
      <3> QED
        BY <1>4, <1>5, <3>1, <3>3, <3>4
    <2> QED
      BY <2>1, <2>2
  <1>10. Total(q)' = Total(q) /\ \A o \in Readers : Total(o)' = Total(o)
    BY <1>2 DEF Total, Upto
  <1>11. GotInOrder'
    <2>1. got' = [got EXCEPT ![q] = h]
      BY <1>2 DEF h, g
    <2>2. got' \in [Readers -> Seq(Nat)]
      BY <1>0, <1>7, <2>1 DEF GotInOrder
    <2>3. ASSUME NEW o \in Readers
          PROVE  /\ Len(got'[o]) <= Total(o)
                 /\ \A i \in 1..Len(got'[o]) :
                      /\ got'[o][i] \in Upto(o, Length[of[o]])
                      /\ Cardinality(Upto(o, got'[o][i])) = i
      <3>1. CASE o = q
        <4>1. got'[o] = h
          BY <1>0, <2>1, <3>1 DEF GotInOrder
        <4> QED
          BY <1>8, <1>9, <3>1, <4>1 DEF r
      <3>2. CASE o # q
        <4>1. got'[o] = got[o]
          BY <1>0, <2>1, <3>2 DEF GotInOrder
        <4> QED
          BY <1>0, <4>1 DEF GotInOrder
      <3> QED
        BY <3>1, <3>2
    <2> QED
      BY <1>2, <1>10, <2>2, <2>3 DEF GotInOrder, Upto
  <1>12. GotAll'
    <2>1. SUFFICES ASSUME NEW o \in Readers, polled[o] = "completed", state[of[o]] # "deleted"
                   PROVE  /\ state[of[o]] = "completed"
                          /\ step'[o] = "ended" => Total(o) <= Len(got'[o])
      BY <1>2, <1>10 DEF GotAll
    <2>2. state[of[o]] = "completed" /\ (step[o] = "ended" => Total(o) <= Len(got[o]))
      BY <1>0, <2>1 DEF GotAll
    <2>3. CASE o # q
      BY <1>0, <1>2, <2>2, <2>3 DEF GotInOrder, SummaryInv
    <2>4. CASE o = q
      <3>1. n = Length[r] /\ Cardinality(Upto(q, n)) = Total(q)
        BY <1>0, <1>1, <2>2, <2>4 DEF StreamsOK, r, n, Total
      <3>2. got'[q] = h /\ (step'[q] = "ended" => Len(p) < PageSize[q])
        BY <1>0, <1>2 DEF GotInOrder, SummaryInv, h, g
      <3> QED
        BY <1>3, <1>7, <2>2, <2>4, <3>1, <3>2
    <2> QED
      BY <2>3, <2>4
  <1> QED
    BY <1>11, <1>12

LEMMA PagesStep == PagesInv /\ [ResultsNext]_resultsVars => PagesInv'
  <1> SUFFICES ASSUME PagesInv, [ResultsNext]_resultsVars PROVE PagesInv'
    OBVIOUS
  <1>0. SummaryInv /\ polled \in [Readers -> Words] /\ StreamsOK /\ GotInOrder /\ GotAll
    BY DEF PagesInv
  <1>1. SummaryInv'
    BY <1>0, SummaryStep
  <1>2. CASE UNCHANGED resultsVars
    BY <1>0, <1>1, <1>2
    DEF resultsVars, lifeVars, PagesInv, StreamsOK, GotInOrder, GotAll, Total, Upto
  <1>3. CASE Live
    <2>1. UNCHANGED <<step, of, polled, got>> /\ Life!Next
      BY <1>3 DEF Live
    <2>2. StreamsOK'
      BY <1>0, <2>1, StreamsStep
    <2>3. GotInOrder'
      BY <1>0, <2>1 DEF GotInOrder, Total, Upto
    <2>4. GotAll'
      <3> SUFFICES ASSUME NEW q \in Readers, polled[q] = "completed", state'[of[q]] # "deleted"
                   PROVE  /\ state'[of[q]] = "completed"
                          /\ step[q] = "ended" => Total(q) <= Len(got[q])
        BY <2>1 DEF GotAll, Total, Upto
      <3>1. of[q] \in Runs
        BY <1>0 DEF SummaryInv
      <3>2. state[of[q]] # "deleted"
        BY <1>0, <2>1, <3>1, VerdictsStay DEF Terminal
      <3>3. /\ state[of[q]] = "completed"
            /\ step[q] = "ended" => Total(q) <= Len(got[q])
        BY <1>0, <3>2 DEF GotAll
      <3> QED
        BY <1>0, <2>1, <3>1, <3>3, VerdictsStay DEF Terminal
    <2> QED
      BY <1>0, <1>1, <2>1, <2>2, <2>3, <2>4 DEF PagesInv
  <1>4. ASSUME NEW q \in Readers, ReadPage(q) PROVE PagesInv'
    <2>1. UNCHANGED <<state, stored, polled>>
      BY <1>4 DEF ReadPage, lifeVars
    <2>2. StreamsOK'
      BY <1>0, <2>1 DEF StreamsOK
    <2> QED
      BY <1>0, <1>1, <1>4, <2>1, <2>2, ReadPageKeepsPages DEF PagesInv
  <1>5. ASSUME NEW q \in Readers, Poll(q) PROVE PagesInv'
    <2>1. /\ UNCHANGED <<state, stored, of, step, got>> /\ step[q] = "idle"
          /\ polled' = [polled EXCEPT ![q] = state[of[q]]]
      BY <1>5 DEF Poll, lifeVars
    <2>2. StreamsOK' /\ GotInOrder' /\ polled' \in [Readers -> Words]
      BY <1>0, <2>1 DEF StreamsOK, GotInOrder, Total, Upto, SummaryInv
    <2>3. GotAll'
      BY <1>0, <2>1 DEF GotAll, Total, Upto
    <2> QED
      BY <1>1, <2>2, <2>3 DEF PagesInv
  <1>6. ASSUME NEW q \in Readers,
               FindRun(q) \/ Follow(q) \/ NotFound(q) \/ ReadStatus(q) \/ Analyse(q)
        PROVE PagesInv'
    <2>1. /\ UNCHANGED <<state, stored, of, polled, got>>
          /\ \A o \in Readers :
               step'[o] = "ended" => step[o] = "ended" \/ state[of[o]] = "deleted"
      BY <1>0, <1>6
      DEF FindRun, Follow, NotFound, ReadStatus, Analyse, lifeVars, SummaryInv
    <2>2. StreamsOK' /\ GotInOrder'
      BY <1>0, <2>1 DEF StreamsOK, GotInOrder, Total, Upto
    <2>3. GotAll'
      BY <1>0, <2>1 DEF GotAll, Total, Upto
    <2> QED
      BY <1>0, <1>1, <2>1, <2>2, <2>3 DEF PagesInv
  <1> QED
    BY <1>2, <1>3, <1>4, <1>5, <1>6 DEF ResultsNext, Read

\* Pages put together are the beginning of the filtered stream, whatever is stored
\* between one and the next (ORDER BY seq, OFFSET, LIMIT).
THEOREM PagesFollowTheStream == ResultsSpec => []PagesAreContiguous
  <1>1. PagesInv => PagesAreContiguous
    <2> SUFFICES ASSUME PagesInv, NEW q \in Readers
                 PROVE  got[q] = SubSeq(Matching(q, Length[of[q]]), 1, Len(got[q]))
      BY DEF PagesAreContiguous
    <2> DEFINE n == Length[of[q]]
               m == Matching(q, n)
               g == got[q]
    <2>1. /\ n \in Nat /\ g \in Seq(Nat) /\ Len(g) \in Nat /\ Len(g) <= Cardinality(Upto(q, n))
          /\ \A i \in 1..Len(g) : g[i] \in Upto(q, n) /\ Cardinality(Upto(q, g[i])) = i
      BY ReadersAssumption DEF PagesInv, SummaryInv, GotInOrder, Total
    <2>2. /\ m \in Seq(Nat) /\ Len(m) = Cardinality(Upto(q, n)) /\ Cardinality(Upto(q, n)) \in Nat
          /\ \A i \in 1..Cardinality(Upto(q, n)) :
               m[i] \in Upto(q, n) /\ Cardinality(Upto(q, m[i])) = i
      BY <2>1, UptoFinite, MatchingIs
    <2> HIDE DEF n, m, g
    <2>3. \A i \in 1..Len(g) : g[i] = m[i]
      BY <2>1, <2>2, RanksAreUnique
    <2>4. /\ SubSeq(m, 1, Len(g)) \in Seq(Nat) /\ Len(SubSeq(m, 1, Len(g))) = Len(g)
          /\ \A i \in 1..Len(g) : SubSeq(m, 1, Len(g))[i] = m[i]
      BY <2>1, <2>2
    <2>5. g = SubSeq(m, 1, Len(g))
      BY <2>1, <2>3, <2>4
    <2> QED
      BY <2>5 DEF n, m, g
  <1> QED
    BY <1>1, InitPages, PagesStep, PTL DEF ResultsSpec

\* A client that saw the run completed and read to a short page has every event
\* that its filters let through.
THEOREM ClientsReadToTheEnd == ResultsSpec => []ReadToTheEnd
  <1>1. PagesInv => ReadToTheEnd
    <2> SUFFICES ASSUME PagesInv, NEW q \in Readers, step[q] = "ended",
                        polled[q] = "completed", state[of[q]] # "deleted",
                        NEW e \in 1..Length[of[q]], e \in Wanted[q]
                 PROVE  \E i \in 1..Len(got[q]) : got[q][i] = e
      BY DEF ReadToTheEnd
    <2> DEFINE n == Length[of[q]]
               g == got[q]
               i == Cardinality(Upto(q, e))
    <2>1. /\ n \in Nat /\ g \in Seq(Nat) /\ Len(g) \in Nat /\ Cardinality(Upto(q, n)) <= Len(g)
          /\ \A k \in 1..Len(g) : g[k] \in Upto(q, n) /\ Cardinality(Upto(q, g[k])) = k
      BY ReadersAssumption DEF PagesInv, SummaryInv, GotInOrder, GotAll, Total
    <2>2. e \in Nat /\ e \in Upto(q, n) /\ e \in Upto(q, e) /\ e <= n
      BY DEF Upto
    <2>3. /\ Cardinality(Upto(q, n)) \in Nat /\ i \in Nat /\ i <= Cardinality(Upto(q, n))
          /\ IsFiniteSet(Upto(q, e))
      BY <2>1, <2>2, UptoFinite, RanksGrow
    <2>4. i # 0
      BY <2>2, <2>3, FS_EmptySet
    <2>5. i \in 1..Len(g) /\ g[i] \in Upto(q, n) /\ Cardinality(Upto(q, g[i])) = i
      BY <2>1, <2>3, <2>4
    <2>6. g[i] = e
      BY <2>1, <2>2, <2>5, RanksAreUnique
    <2> QED
      BY <2>5, <2>6
  <1> QED
    BY <1>1, InitPages, PagesStep, PTL DEF ResultsSpec

=============================================================================
