\* About three chunks per run, integer columns of -13 .. 12; two submissions of up
\* to three seeds out of 0 .. 4; two renames, a cancellation, a deletion and the
\* submission of a run of one chunk that is being executed; one reader, with a
\* filter, of either of two runs; three projects, alone or in families, created at
\* two instants, listed in pages of one.
SPECIFICATION RowsSpec
CONSTANTS
  DefaultChunkCount = 3
  DefaultRunHorizon = 9
  MaxInt = 12
  Untils <- SmallUntils
  ChunkSizes <- SmallChunkSizes
  ProjectTours <- SmallTours
  Omitted = Omitted
  s1 = s1
  s2 = s2
  Submissions = {s1, s2}
  MaxSeed = 4
  MaxSeeds = 3
  Seeds <- AllSeeds
  Counts <- AllCounts
  Absent = Absent
  rename1 = rename1
  rename2 = rename2
  cancel1 = cancel1
  delete1 = delete1
  submit1 = submit1
  worker1 = worker1
  Renamers = {rename1, rename2}
  Cancellers = {cancel1}
  Enqueuers = {submit1}
  Deleters = {delete1}
  Workers = {worker1}
  NewName <- NamesAsked
  FirstName <- First
  Chunks = 1
  NoJob = NoJob
  r1 = r1
  r2 = r2
  q1 = q1
  Runs = {r1, r2}
  Length <- LengthOfEach
  Endable = {r1}
  Readers = {q1}
  Wanted <- EverySecond
  PageSize <- PagesOfTwo
  Projects <- ThreeProjects
  NoProject = NoProject
  Instants <- TwoInstants
  Limit = 1
INVARIANTS
  OnTheGrid DefaultTurns FailsAtOnceOrNever CompletedInFull
  AcceptedFits Replayable
  PagesAreContiguous ReadToTheEnd VerdictsAreSummarised
  BaseIsRoot SameFamily MissesArePaid RepeatsArePaid
PROPERTIES CancelStays ImplementsRegisters ScenariosOutliveBases
CHECK_DEADLOCK FALSE
