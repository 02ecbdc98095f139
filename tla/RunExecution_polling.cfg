\* A batch one run of which is deleted while the rest is enqueued.
SPECIFICATION FairSpec
CONSTANTS
  r1 = r1
  r2 = r2
  s1 = s1
  NoRun = NoRun
  Runs = {r1, r2}
  Workers = {w1}
  Submissions = {s1}
  Batch <- OneBatch
  Laps <- LapsEnding
  Emitted <- EmittedEnding
  Fate <- FateEnding
  MaxTries = 5
  Budget <- NoFaults
PROPERTIES PollingEnds
CHECK_DEADLOCK FALSE
