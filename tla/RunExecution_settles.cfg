\* Two seeds in a batch whose submission may be cut short, one of them of a project
\* that cannot be built, with workers that die and are restarted.
SPECIFICATION FairSpec
CONSTANTS
  r1 = r1
  r2 = r2
  s1 = s1
  NoRun = NoRun
  Runs = {r1, r2}
  Workers = {w1, w2}
  Submissions = {s1}
  Batch <- OneBatch
  Laps <- LapsUnbuilt
  Emitted <- EmittedUnbuilt
  Fate <- FateUnbuilt
  MaxTries = 3
  Budget <- Restarts
INVARIANTS NoneForgotten
PROPERTIES EveryRunSettles
CHECK_DEADLOCK FALSE
