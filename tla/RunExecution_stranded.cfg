\* A worker that is stopped while it executes a run, or a run that outlasts arq's
\* job_timeout.
SPECIFICATION FairSpec
CONSTANTS
  r1 = r1
  r2 = r2
  s1 = s1
  NoRun = NoRun
  Runs = {r1}
  Workers = {w1}
  Submissions = {s1}
  Batch <- OneRun
  Laps <- LapsEnding
  Emitted <- EmittedEnding
  Fate <- FateEnding
  MaxTries = 5
  Budget <- Stops
INVARIANTS NeverStuckRunning
CHECK_DEADLOCK FALSE
