\* Two seeds in one batch, no job delivered twice.
SPECIFICATION Spec
CONSTANTS
  r1 = r1
  r2 = r2
  s1 = s1
  NoRun = NoRun
  Runs = {r1, r2}
  Workers = {w1, w2}
  Submissions = {s1}
  Batch <- OneBatch
  Laps <- LapsMixed
  Emitted <- EmittedMixed
  Fate <- FateMixed
  MaxTries = 1
  Budget <- NoRedelivery
INVARIANTS ProgressMatchesVerdict OneAttempt
PROPERTIES VerdictIsFinal ImplementsLifecycle
CHECK_DEADLOCK FALSE
