\* One run of two turns, two workers, one fault of every kind.
SPECIFICATION Spec
CONSTANTS
  r1 = r1
  r2 = r2
  s1 = s1
  NoRun = NoRun
  Runs = {r1}
  Workers = {w1, w2}
  Submissions = {s1}
  Batch <- OneRun
  Laps <- LapsEnding
  Emitted <- EmittedEnding
  Fate <- FateEnding
  MaxTries = 2
  Budget <- AllFaults
INVARIANTS IInv StoredIsPrefix TruthfulVerdict OneWriter
PROPERTIES CancelHonoured
CHECK_DEADLOCK FALSE
